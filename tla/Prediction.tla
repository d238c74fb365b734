----------------------------- MODULE Prediction -----------------------------
(***************************************************************************)
(* One prediction: complete() and respond() of a model handle or respond() *)
(* of a generator handle, the channel it runs over, the StreamablePromise  *)
(* it returns, the loops that iterate over it, and pipeFrom, a loop of a   *)
(* plugin that copies it into a content block.                             *)
(*                                                                         *)
(* LM Studio, which predicts, is not in this repository: it is taken to    *)
(* send fragments, then reports of tool calls, then success, and to close  *)
(* the channel, at any of these points.  Contents are left out: a fragment *)
(* has its number and its kind, in the order of a model that reasons       *)
(* before it speaks.                                                       *)
(***************************************************************************)
EXTENDS Integers, FiniteSets, SequencesExt

CONSTANTS
    MaxFragments,  \* Bound: fragments of the prediction.
    MaxCalls,      \* Bound: tool calls the model generates, its fragments counted in.
    Loops          \* The `for await` loops over the prediction.

CallIds == -1..(MaxCalls - 1)
Kinds == {"none", "reasoning", "structural"}
Fragment == [number : 1..MaxFragments, kind : Kinds]

VARIABLES
    handle,       \* The method that was called.
    \* The handle's state of the prediction.
    finished,     \* `finished` of internalPredict, `resolved` of a generator.
    currentCallId, receivedEagerToolNameReporting, receivedToolArgumentsStreaming,
    told,         \* Per call id, what the callbacks of the request were told.
    cancelEvent,  \* Not canceled, canceled and not heard yet, or heard.
    thrown,       \* Errors thrown where nothing catches them.
    \* StreamablePromise.
    status, buffer, final, result,
    nextFragmentPromiseBundle,
    reactions,    \* What waits for promiseFinal, in order: onMessage, loops.
    onMessage,    \* Whether the onMessage callback was called.
    \* The loops.
    at,           \* Where each is.
    given,        \* What the fragment promise it awaits resolved to.
    seen,         \* The fragments it yielded.
    \* pipeFrom.
    taskAborted,  \* The abort signal of the controller.
    listening,    \* Whether pipeFrom will hear it.
    genInfo,      \* Whether attachGenInfo was called.
    \* The channel and LM Studio.
    channel, toClient, toServer, generated, generating, predicting

handleVars == <<handle, finished, currentCallId, receivedEagerToolNameReporting,
                receivedToolArgumentsStreaming, told, cancelEvent, thrown>>
promiseVars == <<status, buffer, final, result, nextFragmentPromiseBundle, reactions, onMessage>>
loopVars == <<at, given, seen>>
pipeVars == <<taskAborted, listening, genInfo>>
serverVars == <<generated, generating, predicting>>
wireVars == <<channel, toClient, toServer>>
vars == <<handleVars, promiseVars, loopVars, pipeVars, wireVars, serverVars>>

(* What a fragment promise resolved to: a fragment, or one of these.       *)
Other(kind) == [number |-> 0, kind |-> kind]
Given == Fragment \cup {Other("nothing"), Other("finished"), Other("error")}

CallEvents == {"start", "name", "arguments", "end", "failed"}
Msg == [type : {"fragment"}, fragment : Fragment]
           \cup [type : CallEvents \cup {"success", "close"}]

TypeOK ==
    /\ handle \in {"complete", "respond", "generator"}
    /\ {finished, receivedEagerToolNameReporting, receivedToolArgumentsStreaming, onMessage,
        taskAborted, listening, genInfo, generating} \subseteq BOOLEAN
    /\ currentCallId \in CallIds
    /\ told \in [CallIds -> Seq(CallEvents)]
    /\ cancelEvent \in {"no", "queued", "heard"}
    /\ thrown \subseteq {"finished while not pending", "Already canceled"}
    /\ status \in {"pending", "resolved", "rejected"}
    /\ {buffer, generated} \subseteq Seq(Fragment)
    /\ final \in {"pending", "value", "rejected"}
    /\ nextFragmentPromiseBundle \in {"null", "pending", "resolved"}
    /\ reactions \in Seq(Loops \cup {"onMessage"})
    /\ at \in [Loops -> {"none", "running", "waiting", "final", "over", "threw", "returned", "aborted"}]
    /\ given \in [Loops -> Given]
    /\ seen \in [Loops -> Seq(Fragment)]
    /\ channel \in {"connected", "errored", "closed"}
    /\ toClient \in Seq(Msg)
    /\ toServer \in Seq({"cancel"})
    /\ predicting \in {"predicting", "canceled", "succeeded"}

(* pipeFrom takes the prediction of a model.                               *)
Piping(l) == l = "pipe" /\ l \in Loops /\ handle # "generator"

(* The method that was called; respond() waits for the result to call      *)
(* onMessage.                                                              *)
CompleteCalled == handle = "complete" /\ reactions = <<>>
RespondCalled == handle = "respond" /\ reactions = <<"onMessage">>
GeneratorCalled == handle = "generator" /\ reactions = <<"onMessage">>

(* The signal given to the method may be aborted already.                  *)
Init ==
    /\ CompleteCalled \/ RespondCalled \/ GeneratorCalled
    /\ cancelEvent \in {"no", "queued"}
    /\ finished = FALSE /\ thrown = {}
    /\ currentCallId = -1 /\ told = [c \in CallIds |-> <<>>]
    /\ receivedEagerToolNameReporting = FALSE /\ receivedToolArgumentsStreaming = FALSE
    /\ status = "pending" /\ buffer = <<>> /\ final = "pending" /\ result = <<>>
    /\ nextFragmentPromiseBundle = "null" /\ onMessage = FALSE
    /\ at = [l \in Loops |-> "none"] /\ given = [l \in Loops |-> Other("nothing")]
    /\ seen = [l \in Loops |-> <<>>]
    /\ taskAborted \in (IF Piping("pipe") THEN BOOLEAN ELSE {FALSE}) /\ listening = FALSE /\ genInfo = FALSE
    /\ channel = "connected" /\ toClient = <<>> /\ toServer = <<>>
    /\ generated = <<>> /\ generating = FALSE /\ predicting = "predicting"

-----------------------------------------------------------------------------
(* StreamablePromise.                                                      *)

(* The loops that wait for the fragment promise are given x.               *)
GivenToWaiting(x) ==
    given' = [l \in Loops |-> IF at[l] = "waiting" /\ given[l] = Other("nothing") THEN x ELSE given[l]]

Push(fragment) ==
    /\ buffer' = Append(buffer, fragment)
    /\ GivenToWaiting(fragment)
    /\ nextFragmentPromiseBundle' = "null"

(* finished() without and with an error: legal once only.                  *)
Resolves ==
    /\ status = "pending"
    /\ status' = "resolved"
    /\ GivenToWaiting(Other("finished"))
    /\ UNCHANGED <<final, thrown>>

Rejects ==
    IF status = "pending"
    THEN /\ status' = "rejected"
         /\ final' = "rejected"
         /\ GivenToWaiting(Other("error"))
         /\ UNCHANGED thrown
    ELSE /\ thrown' = thrown \cup {"finished while not pending"}
         /\ UNCHANGED <<status, final, given>>

OfKind(kind) == SelectSeq(buffer, LAMBDA f : f.kind = kind)

(* collect() settles the promise; it throws when the content cannot be     *)
(* parsed as the structured output that was asked for.                     *)
Collect ==
    /\ status = "resolved" /\ final = "pending"
    /\ \/ /\ final' = "value"
          /\ result' = [content |-> buffer, reasoningContent |-> OfKind("reasoning"),
                        nonReasoningContent |-> OfKind("none")]
       \/ /\ handle # "generator"
          /\ final' = "rejected" /\ UNCHANGED result
    /\ UNCHANGED <<status, buffer, nextFragmentPromiseBundle, reactions, onMessage,
                   handleVars, loopVars, pipeVars, wireVars, serverVars>>

-----------------------------------------------------------------------------
(* [Symbol.asyncIterator]: loops over the promise.                         *)

Drained(l) == Len(seen[l]) = Len(buffer)

(* A loop starts.  The listener pipeFrom adds to a signal that is aborted  *)
(* already is never called.                                                *)
LoopStarts(l) ==
    /\ at[l] = "none"
    /\ at' = [at EXCEPT ![l] = "running"]
    /\ listening' = IF Piping(l) THEN ~taskAborted ELSE listening
    /\ UNCHANGED <<handleVars, promiseVars, given, seen, taskAborted, genInfo, wireVars, serverVars>>

LoopYields(l) ==
    /\ at[l] = "running" /\ ~Drained(l)
    /\ seen' = [seen EXCEPT ![l] = Append(@, buffer[Len(@) + 1])]
    /\ UNCHANGED <<handleVars, promiseVars, at, given, pipeVars, wireVars, serverVars>>

(* It awaits the promise of the next fragment.                             *)
LoopWaits(l) ==
    /\ at[l] = "running" /\ Drained(l) /\ status = "pending"
    /\ at' = [at EXCEPT ![l] = "waiting"]
    /\ IF nextFragmentPromiseBundle = "resolved"
       THEN /\ given' = [given EXCEPT ![l] = Last(buffer)]
            /\ UNCHANGED nextFragmentPromiseBundle
       ELSE /\ nextFragmentPromiseBundle' = "pending"
            /\ UNCHANGED given
    /\ UNCHANGED <<handleVars, status, buffer, final, result, reactions, onMessage, seen,
                   pipeVars, wireVars, serverVars>>

(* The loop awaits promiseFinal. *)
AwaitFinal(l) ==
    /\ at' = [at EXCEPT ![l] = "final"]
    /\ reactions' = Append(reactions, l)

LoopResumes(l) ==
    /\ at[l] = "waiting" /\ given[l] # Other("nothing")
    /\ given' = [given EXCEPT ![l] = Other("nothing")]
    /\ \/ /\ given[l].number > 0
          /\ seen' = [seen EXCEPT ![l] = Append(@, given[l])]
          /\ at' = [at EXCEPT ![l] = "running"]
          /\ UNCHANGED <<reactions, listening>>
       \/ given[l].kind = "finished" /\ AwaitFinal(l) /\ UNCHANGED <<seen, listening>>
       \/ /\ given[l].kind = "error"
          /\ at' = [at EXCEPT ![l] = "threw"]
          /\ listening' = IF l = "pipe" THEN FALSE ELSE listening
          /\ UNCHANGED <<seen, reactions>>
    /\ UNCHANGED <<handleVars, status, buffer, final, result, nextFragmentPromiseBundle, onMessage,
                   taskAborted, genInfo, wireVars, serverVars>>

LoopLeft(l) ==
    /\ at[l] = "running" /\ Drained(l) /\ status # "pending"
    /\ AwaitFinal(l)
    /\ UNCHANGED <<handleVars, status, buffer, final, result, nextFragmentPromiseBundle, onMessage,
                   given, seen, pipeVars, wireVars, serverVars>>

(* What waits for promiseFinal goes on, in the order it came.              *)
Reacts ==
    /\ final # "pending" /\ reactions # <<>>
    /\ reactions' = Tail(reactions)
    /\ LET first == Head(reactions) IN
       IF first = "onMessage"
       THEN /\ onMessage' = (final = "value")
            /\ UNCHANGED <<at, listening>>
       ELSE /\ at' = [at EXCEPT ![first] = IF final = "value" THEN "over" ELSE "threw"]
            /\ listening' = IF first = "pipe" /\ final = "rejected" THEN FALSE ELSE listening
            /\ UNCHANGED onMessage
    /\ UNCHANGED <<handleVars, status, buffer, final, result, nextFragmentPromiseBundle, given, seen,
                   taskAborted, genInfo, wireVars, serverVars>>

(* The end of pipeFrom: it looks at its abort signal last.                 *)
PipeEnds ==
    /\ Piping("pipe") /\ at["pipe"] = "over"
    /\ genInfo' = TRUE /\ listening' = FALSE
    /\ at' = [at EXCEPT !["pipe"] = IF taskAborted THEN "aborted" ELSE "returned"]
    /\ UNCHANGED <<handleVars, promiseVars, given, seen, taskAborted, wireVars, serverVars>>

-----------------------------------------------------------------------------
(* Cancellation.                                                           *)

(* The listener of the cancel event.                                       *)
SendCancel == toServer' = IF finished \/ channel # "connected" THEN toServer
                          ELSE Append(toServer, "cancel")

(* Emitting the BufferedEvent of a model handle: the first emission counts. *)
EmitBuffered ==
    /\ handle # "generator"
    /\ cancelEvent' = IF cancelEvent = "no" THEN "queued" ELSE cancelEvent
    /\ UNCHANGED <<thrown, toServer>>

(* Canceling the CancelEvent of a generator: the second time, it throws.   *)
CancelOnce ==
    /\ handle = "generator"
    /\ \/ cancelEvent = "no" /\ cancelEvent' = "heard" /\ SendCancel /\ UNCHANGED thrown
       \/ /\ cancelEvent # "no"
          /\ thrown' = thrown \cup {"Already canceled"}
          /\ UNCHANGED <<cancelEvent, toServer>>

EmitCancel == EmitBuffered \/ CancelOnce

(* cancel() is called, or the signal of the method aborts.                 *)
Cancel ==
    /\ EmitCancel
    /\ UNCHANGED <<handle, finished, currentCallId, receivedEagerToolNameReporting,
                   receivedToolArgumentsStreaming, told, promiseVars, loopVars, pipeVars,
                   channel, toClient, serverVars>>

(* The event reaches its listener in the next microtask.                   *)
CancelHeard ==
    /\ cancelEvent = "queued"
    /\ cancelEvent' = "heard"
    /\ SendCancel
    /\ UNCHANGED <<handle, finished, currentCallId, receivedEagerToolNameReporting,
                   receivedToolArgumentsStreaming, told, thrown, promiseVars, loopVars, pipeVars,
                   channel, toClient, serverVars>>

(* The controller is aborted: pipeFrom cancels the prediction.             *)
TaskAborts ==
    /\ ~taskAborted /\ Piping("pipe")
    /\ taskAborted' = TRUE
    /\ IF listening THEN EmitCancel ELSE UNCHANGED <<cancelEvent, thrown, toServer>>
    /\ UNCHANGED <<handle, finished, currentCallId, receivedEagerToolNameReporting,
                   receivedToolArgumentsStreaming, told, promiseVars, loopVars, listening, genInfo,
                   channel, toClient, serverVars>>

-----------------------------------------------------------------------------
(* The channel's messages.                                                 *)

ReceiveFragment(msg) ==
    /\ msg.type = "fragment"
    /\ Push(msg.fragment)
    /\ UNCHANGED <<handleVars, status, final>>

Tell(events) == told' = [told EXCEPT ![currentCallId] = @ \o events]

(* Mutant: what was received of the call before is not forgotten. *)
CallStartsStale ==
    /\ currentCallId' = currentCallId + 1
    /\ told' = [told EXCEPT ![currentCallId + 1] = Append(@, "start")]
    /\ UNCHANGED <<receivedEagerToolNameReporting, receivedToolArgumentsStreaming>>

CallStarts ==
    /\ currentCallId' = currentCallId + 1
    /\ told' = [told EXCEPT ![currentCallId + 1] = Append(@, "start")]
    /\ receivedEagerToolNameReporting' = FALSE
    /\ receivedToolArgumentsStreaming' = FALSE

(* A report of a tool call, to the callbacks of a model's prediction: the  *)
(* name and the arguments that were not streamed are told when it ends.    *)
ReceiveCallEvent(msg) ==
    /\ msg.type \in CallEvents
    /\ \/ handle # "respond"
          /\ UNCHANGED <<currentCallId, receivedEagerToolNameReporting,
                         receivedToolArgumentsStreaming, told>>
       \/ handle = "respond" /\ msg.type = "start" /\ CallStarts
       \/ /\ handle = "respond" /\ msg.type \in {"name", "arguments"}
          /\ Tell(<<msg.type>>)
          /\ receivedEagerToolNameReporting' = (receivedEagerToolNameReporting \/ msg.type = "name")
          /\ receivedToolArgumentsStreaming' = (receivedToolArgumentsStreaming \/ msg.type = "arguments")
          /\ UNCHANGED currentCallId
       \/ /\ handle = "respond" /\ msg.type = "end"
          /\ Tell((IF receivedEagerToolNameReporting THEN <<>> ELSE <<"name">>)
                  \o (IF receivedToolArgumentsStreaming THEN <<>> ELSE <<"arguments">>) \o <<"end">>)
          /\ UNCHANGED <<currentCallId, receivedEagerToolNameReporting, receivedToolArgumentsStreaming>>
       \/ /\ handle = "respond" /\ msg.type = "failed"
          /\ Tell(<<"failed">>)
          /\ UNCHANGED <<currentCallId, receivedEagerToolNameReporting, receivedToolArgumentsStreaming>>
    /\ UNCHANGED <<handle, finished, cancelEvent, thrown, buffer, given,
                   nextFragmentPromiseBundle, status, final>>

ReceiveSuccess(msg) ==
    /\ msg.type = "success"
    /\ finished' = TRUE
    /\ Resolves
    /\ UNCHANGED <<handle, currentCallId, receivedEagerToolNameReporting,
                   receivedToolArgumentsStreaming, told, cancelEvent, buffer, nextFragmentPromiseBundle>>

Receive ==
    /\ channel = "connected" /\ toClient # <<>>
    /\ toClient' = Tail(toClient)
    /\ LET msg == Head(toClient) IN
       \/ /\ ReceiveFragment(msg) \/ ReceiveCallEvent(msg) \/ ReceiveSuccess(msg)
          /\ UNCHANGED channel
       \/ /\ msg.type = "close" /\ channel' = "closed"
          /\ UNCHANGED <<handleVars, buffer, given, nextFragmentPromiseBundle, status, final>>
    /\ UNCHANGED <<result, reactions, onMessage, at, seen, pipeVars, toServer, serverVars>>

(* onError of a model handle, whatever became of the prediction.           *)
ModelErrors == handle # "generator" /\ Rejects /\ UNCHANGED finished

(* onError of a generator, unless the prediction has finished.             *)
GeneratorErrors ==
    /\ handle = "generator"
    /\ finished' = TRUE
    /\ IF finished THEN UNCHANGED <<status, final, given, thrown>> ELSE Rejects

(* The connection is lost, or LM Studio reports an error on the channel.   *)
ChannelErrors ==
    /\ channel = "connected"
    /\ channel' = "errored" /\ toClient' = <<>> /\ toServer' = <<>>
    /\ ModelErrors \/ GeneratorErrors
    /\ UNCHANGED <<handle, currentCallId, receivedEagerToolNameReporting,
                   receivedToolArgumentsStreaming, told, cancelEvent, buffer, result,
                   nextFragmentPromiseBundle, reactions, onMessage, at, seen, pipeVars, serverVars>>

-----------------------------------------------------------------------------
(* LM Studio.                                                              *)

SendsToClient(msg) == toClient' = Append(toClient, msg)

(* At most one message is under way at a time, which loses no order. *)
ServerMaySend == channel = "connected" /\ toClient = <<>> /\ predicting # "succeeded"

ServerGenerates ==
    /\ ServerMaySend /\ Len(generated) < MaxFragments
    /\ currentCallId = -1 /\ ~generating
    /\ LET number == Len(generated) + 1
           fragment == [number |-> number,
                        kind |-> <<"structural", "reasoning", "none">>[1 + ((number - 1) % 3)]]
       IN
         /\ generated' = Append(generated, fragment)
         /\ SendsToClient([type |-> "fragment", fragment |-> fragment])
    /\ UNCHANGED <<handleVars, promiseVars, loopVars, pipeVars, channel, toServer, generating, predicting>>

(* The reports of a tool call: its start, perhaps its name, perhaps its    *)
(* arguments, its end or failure.                                          *)
ServerReportsCall(type) ==
    /\ ServerMaySend /\ handle = "respond"
    /\ \/ type = "start" /\ ~generating /\ Len(generated) + currentCallId + 1 < MaxCalls
       \/ type = "name" /\ generating /\ Last(told[currentCallId]) = "start"
       \/ type = "arguments" /\ generating /\ Last(told[currentCallId]) \in {"start", "name"}
       \/ type \in {"end", "failed"} /\ generating
    /\ generating' = (type \notin {"end", "failed"})
    /\ SendsToClient([type |-> type])
    /\ UNCHANGED <<handleVars, promiseVars, loopVars, pipeVars, channel, toServer, generated, predicting>>

ServerSucceeds ==
    /\ ServerMaySend /\ ~generating
    /\ predicting' = "succeeded"
    /\ SendsToClient([type |-> "success"])
    /\ UNCHANGED <<handleVars, promiseVars, loopVars, pipeVars, channel, toServer, generated, generating>>

ServerCloses ==
    /\ channel = "connected" /\ predicting = "succeeded" /\ toClient = <<>> /\ finished
    /\ SendsToClient([type |-> "close"])
    /\ UNCHANGED <<handleVars, promiseVars, loopVars, pipeVars, channel, toServer, serverVars>>

ServerHearsCancel ==
    /\ toServer # <<>>
    /\ toServer' = Tail(toServer)
    /\ predicting' = IF predicting = "predicting" THEN "canceled" ELSE predicting
    /\ UNCHANGED <<handleVars, promiseVars, loopVars, pipeVars, channel, toClient, generated, generating>>

LoopStep(l) == LoopYields(l) \/ LoopWaits(l) \/ LoopResumes(l) \/ LoopLeft(l)

ServerStep == \/ ServerGenerates \/ ServerSucceeds \/ ServerCloses \/ ServerHearsCancel
              \/ \E type \in CallEvents : ServerReportsCall(type)

Next == \/ Collect \/ Reacts \/ PipeEnds
        \/ Cancel \/ CancelHeard \/ TaskAborts
        \/ Receive \/ ChannelErrors
        \/ \E l \in Loops : LoopStarts(l) \/ LoopStep(l)
        \/ ServerStep

Spec == Init /\ [][Next]_vars

(* Microtasks run and messages arrive; LM Studio comes to an end.          *)
Progress ==
    \/ Collect \/ Reacts \/ PipeEnds \/ CancelHeard \/ Receive
    \/ \E l \in Loops : LoopStep(l)
    \/ ServerStep

-----------------------------------------------------------------------------
(* Properties.                                                             *)

(* A loop yields the fragments that came, each once and in order, and ends *)
(* only when it has yielded all of them and the promise has its value      *)
(* (StreamablePromise's buffer and fragment promise).                      *)
LoopsSeeAll ==
    \A l \in Loops :
        /\ IsPrefix(seen[l], buffer)
        /\ at[l] \in {"over", "returned", "aborted"} => seen[l] = buffer /\ final = "value"

(* "by the time async loop is terminated, the onMessage handler is already *)
(* triggered" (StreamablePromise[Symbol.asyncIterator], respond).          *)
MessageBeforeLoopEnds ==
    \A l \in Loops : at[l] \in {"over", "returned", "aborted"} /\ handle # "complete" => onMessage

(* The result has all that was generated, canceled or not, and its         *)
(* reasoning and its other content are its unstructural fragments          *)
(* (internalPredict, collect).                                             *)
ResultIsWhole ==
    final = "value" =>
        /\ result.content = generated
        /\ ToSet(result.reasoningContent) \cup ToSet(result.nonReasoningContent)
               = {f \in ToSet(generated) : f.kind # "structural"}

(* The callbacks of a tool call request hear of its start, then once of    *)
(* its name, of its arguments, and of its end, streamed or not, and of no  *)
(* other call (callbacks of internalPredict).                              *)
CallsToldInFull ==
    \A c \in CallIds :
        "end" \in ToSet(told[c]) =>
            /\ told[c] \in {<<"start", "name", "arguments", "end">>, <<"start", "arguments", "name", "end">>}
            /\ c >= 0

(* A cancellation that was heard before the prediction ended, asked for    *)
(* before there was a channel or after, is on its way to LM Studio or has  *)
(* arrived (cancelEvent of complete, respond and the generator).           *)
CancelSent ==
    cancelEvent = "heard" /\ channel = "connected" /\ ~finished
        => toServer # <<>> \/ predicting # "predicting"

(* The promise settles and every loop over it ends, with the fragments it  *)
(* had when it failed.                                                     *)
Settled ==
    /\ final # "pending"
    /\ \A l \in Loops : at[l] \in {"none", "over", "threw", "returned", "aborted"}

=============================================================================
