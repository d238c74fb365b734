---------------------------- MODULE ActLoopProofs ----------------------------
(***************************************************************************)
(* Theorems about ActLoop: for any number of calls and rounds, the queue   *)
(* runs one tool at a time in the order of the requests, no tool starts    *)
(* after an abort or a failure, the chat agrees with the calls and their   *)
(* results, and implements ActContract.                                    *)
(***************************************************************************)
EXTENDS ActLoop, FiniteSetTheorems, TLAPS

USE DEF options

States == {"none", "generating", "dropped", "handling", "handlingUnparsed", "queued", "guarding",
           "executing", "answered", "done", "failed"}

(* The types the argument needs. *)
QueueTypeOK ==
    /\ calls \in [Call -> States]
    /\ queue \in Seq(Call)
    /\ currentCallId \in Call \cup {-1}
    /\ act \in {"running", "resolved", "rejected"}
    /\ {aborted, executing, poisoned, isGeneratingToolCall} \subseteq BOOLEAN

(* Calls are numbered as they are generated. *)
NumberedInv ==
    /\ \A c \in Call : c > currentCallId => calls[c] = "none"
    /\ isGeneratingToolCall => currentCallId \in Call /\ calls[currentCallId] = "generating"
    /\ prediction = "none" => currentCallId = -1

(* The queue holds calls that wait, in order, and those that run come      *)
(* before them.                                                            *)
QueueInv ==
    /\ \A i \in DOMAIN queue : calls[queue[i]] = "queued"
    /\ \A i, j \in DOMAIN queue : i < j => queue[i] < queue[j]
    /\ ~allowParallelToolExecution =>
         /\ \A c, d \in Running : c = d
         /\ \A c \in Running, i \in DOMAIN queue : c < queue[i]
         /\ ~executing => Running = {}

(* A call fails only together with act(), and then nothing waits and       *)
(* nothing may start.                                                      *)
FailureInv ==
    /\ aborted \/ poisoned => queue = <<>>
    /\ Failed # {} => act # "running"
    /\ Failed # {} /\ ~allowParallelToolExecution => aborted \/ poisoned

IInv == QueueTypeOK /\ NumberedInv /\ QueueInv /\ FailureInv

(* What NothingStartsAfterFailure says of a step. *)
StartsNothingWrong ==
    aborted \/ (~allowParallelToolExecution /\ Failed' # {}) => Running' \subseteq Running

LEMMA CallType == Call \subseteq Int /\ -1 \notin Call
BY ActLoopAssumption DEF Call

(* An abort only makes calls fail that wait, in the queue or for the       *)
(* handler of an invalid request.                                          *)
LEMMA AbortKeeps ==
    ASSUME IInv, NEW failing \in SUBSET Call, Abort(failing),
           \A c \in failing : calls[c] \in {"handling", "handlingUnparsed"},
           UNCHANGED <<options, currentCallId, executing, poisoned, isGeneratingToolCall, prediction>>
    PROVE  IInv' /\ StartsNothingWrong
<1> USE DEF IInv
<1>1. calls' = [c \in Call |-> IF c \in failing \cup ToSet(queue) THEN "failed" ELSE calls[c]]
      /\ queue' = <<>> /\ aborted' = TRUE
      /\ act' \in {act, "rejected"}
  BY DEF Abort, ActRejects
<1>2. \A c \in failing \cup ToSet(queue) : c \in Call /\ calls[c] \in {"handling", "handlingUnparsed", "queued"}
  BY DEF ToSet, QueueInv, QueueTypeOK
<1>3. QueueTypeOK'
  BY <1>1 DEF QueueTypeOK, States
<1>4. NumberedInv'
  BY <1>1, <1>2, CallType DEF NumberedInv, QueueTypeOK
<1>5. Running' \subseteq Running
  BY <1>1, <1>2 DEF Running, QueueTypeOK
<1>6. QueueInv'
  BY <1>1, <1>5 DEF QueueInv
<1>7. Failed' # {} => act' # "running"
  <2>1. CASE failing \cup ToSet(queue) # {}
    BY <2>1 DEF Abort, ActRejects, QueueTypeOK
  <2>2. CASE failing \cup ToSet(queue) = {}
    <3>1. Failed' = Failed /\ act' = act
      BY <1>1, <2>2 DEF Failed, Abort, QueueTypeOK
    <3>2. QED
      BY <3>1 DEF FailureInv
  <2>3. QED
    BY <2>1, <2>2
<1>8. FailureInv'
  BY <1>1, <1>7 DEF FailureInv
<1>9. QED
  BY <1>3, <1>4, <1>5, <1>6, <1>8 DEF StartsNothingWrong

(* A call handed to the queue starts only when none runs or waits. *)
LEMMA RunInQueueKeeps ==
    ASSUME IInv, isGeneratingToolCall, ~isGeneratingToolCall', isGeneratingToolCall' \in BOOLEAN,
           prediction = "generating", RunInQueue(currentCallId),
           UNCHANGED <<options, aborted, currentCallId, prediction>>
    PROVE  IInv' /\ StartsNothingWrong
<1> DEFINE n == currentCallId
<1> USE DEF IInv
<1>1. n \in Call /\ calls[n] = "generating" /\ \A c \in Call : c > n => calls[c] = "none"
  BY DEF NumberedInv
<1>2. \A i \in DOMAIN queue : queue[i] \in Call /\ queue[i] < n
  BY <1>1, CallType DEF QueueInv, QueueTypeOK
<1>3. CASE /\ aborted \/ poisoned
           /\ calls' = [calls EXCEPT ![n] = "failed"]
           /\ ActRejects
           /\ UNCHANGED queueVars
  <2>1. Running' = Running /\ act' # "running"
    BY <1>1, <1>3 DEF Running, ActRejects, QueueTypeOK
  <2>2. QueueTypeOK' /\ NumberedInv'
    BY <1>1, <1>3, CallType DEF QueueTypeOK, NumberedInv, States, ActRejects, queueVars
  <2>3. QueueInv'
    BY <1>1, <1>3, <2>1 DEF QueueInv, QueueTypeOK, queueVars
  <2>4. FailureInv'
    BY <1>3, <2>1 DEF FailureInv, queueVars
  <2>5. QED
    BY <2>1, <2>2, <2>3, <2>4 DEF StartsNothingWrong
<1>4. CASE /\ ~aborted /\ ~poisoned
           /\ allowParallelToolExecution \/ ~needsQueueing
           /\ calls' = [calls EXCEPT ![n] = Started]
           /\ executing' = ~allowParallelToolExecution
           /\ UNCHANGED <<act, queue, poisoned>>
  <2>1. Started \in {"guarding", "executing"}
    BY DEF Started
  <2>2. QueueTypeOK' /\ NumberedInv'
    BY <1>1, <1>4, <2>1, CallType, ActLoopAssumption DEF QueueTypeOK, NumberedInv, States
  <2>3. Running' = Running \cup {n} /\ Failed' = Failed
    BY <1>1, <1>4, <2>1 DEF Running, Failed, QueueTypeOK
  <2>4. QueueInv'
    <3>1. \A i \in DOMAIN queue : calls'[queue[i]] = "queued"
      BY <1>1, <1>2, <1>4 DEF QueueInv, QueueTypeOK
    <3>2. CASE allowParallelToolExecution
      BY <1>4, <3>1, <3>2 DEF QueueInv
    <3>3. CASE ~allowParallelToolExecution
      <4>1. queue = <<>> /\ Running = {} /\ executing'
        BY <1>4, <3>3 DEF QueueInv, QueueTypeOK, needsQueueing
      <4>2. Running' = {n}
        BY <2>3, <4>1
      <4>3. queue' = <<>> /\ DOMAIN queue' = {}
        BY <1>4, <4>1
      <4>4. QED
        BY <4>1, <4>2, <4>3 DEF QueueInv
    <3>4. QED
      BY <3>2, <3>3
  <2>5. FailureInv' /\ StartsNothingWrong
    BY <1>4, <2>3 DEF FailureInv, StartsNothingWrong
  <2>6. QED
    BY <2>2, <2>4, <2>5
<1>5. CASE /\ ~aborted /\ ~poisoned
           /\ ~allowParallelToolExecution /\ needsQueueing
           /\ calls' = [calls EXCEPT ![n] = "queued"]
           /\ queue' = Append(queue, n)
           /\ UNCHANGED <<act, executing, poisoned>>
  <2>1. QueueTypeOK' /\ NumberedInv'
    BY <1>1, <1>5, CallType DEF QueueTypeOK, NumberedInv, States
  <2>2. Running' = Running /\ Failed' = Failed
    BY <1>1, <1>5 DEF Running, Failed, QueueTypeOK
  <2>3. \A c \in Running : c < n
    BY <1>1, CallType DEF Running, QueueTypeOK
  <2>4. /\ Len(queue') = Len(queue) + 1 /\ queue'[Len(queue) + 1] = n
        /\ \A i \in DOMAIN queue : queue'[i] = queue[i]
        /\ DOMAIN queue' = DOMAIN queue \cup {Len(queue) + 1}
        /\ DOMAIN queue = 1..Len(queue) /\ Len(queue) \in Nat
    BY <1>1, <1>5 DEF QueueTypeOK
  <2>5. \A i \in DOMAIN queue' : calls'[queue'[i]] = "queued"
    BY <1>1, <1>2, <1>5, <2>4 DEF QueueInv, QueueTypeOK
  <2>6. \A i, j \in DOMAIN queue' : i < j => queue'[i] < queue'[j]
    BY <1>2, <2>4 DEF QueueInv
  <2>7. QueueInv'
    BY <1>2, <1>5, <2>2, <2>3, <2>4, <2>5, <2>6 DEF QueueInv
  <2>8. FailureInv' /\ StartsNothingWrong
    BY <1>5, <2>2 DEF FailureInv, StartsNothingWrong
  <2>9. QED
    BY <2>1, <2>7, <2>8
<1>6. QED
  BY <1>3, <1>4, <1>5 DEF RunInQueue

(* A task ends well: the first call that waits takes its place. *)
LEMMA TaskEndsKeeps ==
    ASSUME IInv, NEW c \in Running, NEW state \in {"answered", "done"}, TaskEnds(c, state),
           UNCHANGED <<options, act, aborted, currentCallId, isGeneratingToolCall, prediction>>
    PROVE  IInv' /\ StartsNothingWrong
<1> USE DEF IInv
<1>1. c \in Call /\ calls[c] \in {"guarding", "executing"}
  BY DEF Running
<1>2. CASE /\ queue = <<>>
           /\ calls' = [calls EXCEPT ![c] = state]
           /\ executing' = FALSE
           /\ UNCHANGED <<queue, poisoned>>
  <2>1. Running' = Running \ {c} /\ Failed' = Failed
    BY <1>1, <1>2 DEF Running, Failed, QueueTypeOK
  <2>2. QueueTypeOK' /\ NumberedInv'
    BY <1>1, <1>2, CallType DEF QueueTypeOK, NumberedInv, States
  <2>3. ~allowParallelToolExecution => Running' = {}
    BY <2>1 DEF QueueInv
  <2>4. queue' = <<>> /\ DOMAIN queue' = {}
    BY <1>2
  <2>5. QueueInv'
    BY <2>3, <2>4 DEF QueueInv
  <2>6. FailureInv' /\ StartsNothingWrong
    BY <1>2, <2>1 DEF FailureInv, StartsNothingWrong
  <2>7. QED
    BY <2>2, <2>5, <2>6
<1>3. CASE /\ queue # <<>>
           /\ calls' = [calls EXCEPT ![c] = state, ![Head(queue)] = Started]
           /\ queue' = Tail(queue)
           /\ UNCHANGED <<executing, poisoned>>
  <2> DEFINE h == Head(queue)
  <2>1. /\ queue \in Seq(Call) /\ Len(queue) \in Nat /\ DOMAIN queue = 1..Len(queue)
        /\ h = queue[1] /\ 1 \in DOMAIN queue
        /\ Len(queue') = Len(queue) - 1 /\ DOMAIN queue' = 1..(Len(queue) - 1)
        /\ \A i \in DOMAIN queue' : queue'[i] = queue[i + 1] /\ i + 1 \in DOMAIN queue
    BY <1>3 DEF QueueTypeOK
  <2>2. h \in Call /\ calls[h] = "queued" /\ h # c
    BY <1>1, <2>1 DEF QueueInv
  <2>3. Started \in {"guarding", "executing"}
    BY DEF Started
  <2>4. Running' = (Running \ {c}) \cup {h} /\ Failed' = Failed
    BY <1>1, <1>3, <2>2, <2>3 DEF Running, Failed, QueueTypeOK
  <2>5. QueueTypeOK' /\ NumberedInv'
    <3>1. queue' \in Seq(Call)
      BY <1>3, <2>1
    <3>2. calls' \in [Call -> States]
      BY <1>3, <2>2, <2>3 DEF QueueTypeOK, States
    <3>3. \A d \in Call : d > currentCallId => d # c /\ d # h
      BY <1>1, <2>2 DEF NumberedInv
    <3>4. NumberedInv'
      BY <1>1, <1>3, <2>2, <3>3 DEF NumberedInv, QueueTypeOK
    <3>5. QED
      BY <1>3, <3>1, <3>2, <3>4 DEF QueueTypeOK
  <2>6. \A i \in DOMAIN queue' : h < queue'[i] /\ queue'[i] \in Call /\ calls[queue'[i]] = "queued"
    BY <2>1 DEF QueueInv
  <2>7. \A i \in DOMAIN queue' : calls'[queue'[i]] = "queued"
    <3>1. \A i \in DOMAIN queue' : queue'[i] # h /\ queue'[i] # c
      <4>1. h \in Int
        BY <2>2, CallType
      <4> HIDE DEF h
      <4>2. QED
        BY <1>1, <2>6, <4>1
    <3>2. \A d \in Call : d # c /\ d # h => calls'[d] = calls[d]
      BY <1>3 DEF QueueTypeOK
    <3>3. QED
      BY <2>6, <3>1, <3>2
  <2>8. \A i, j \in DOMAIN queue' : i < j => queue'[i] < queue'[j]
    BY <2>1 DEF QueueInv
  <2>9. ~allowParallelToolExecution => Running' = {h} /\ executing'
    BY <1>3, <2>4 DEF QueueInv, QueueTypeOK
  <2>10. QueueInv'
    BY <2>6, <2>7, <2>8, <2>9 DEF QueueInv
  <2>11. FailureInv' /\ StartsNothingWrong
    BY <1>3, <2>4 DEF FailureInv, StartsNothingWrong
  <2>12. QED
    BY <2>5, <2>10, <2>11
<1>4. QED
  BY <1>2, <1>3 DEF TaskEnds

(* A task throws: those that wait fail with it. *)
LEMMA TaskThrowsKeeps ==
    ASSUME IInv, NEW c \in Running, TaskThrows(c),
           UNCHANGED <<options, aborted, currentCallId, isGeneratingToolCall, prediction>>
    PROVE  IInv' /\ StartsNothingWrong
<1> USE DEF IInv
<1>1. /\ calls' = [d \in Call |-> IF d = c \/ d \in ToSet(queue) THEN "failed" ELSE calls[d]]
      /\ queue' = <<>> /\ executing' = FALSE /\ poisoned' = ~allowParallelToolExecution
      /\ act' \in {act, "rejected"} /\ act' # "running"
  BY DEF TaskThrows, ActRejects
<1>2. \A d \in ToSet(queue) \cup {c} : d \in Call /\ calls[d] \in {"queued", "guarding", "executing"}
  BY DEF ToSet, QueueInv, QueueTypeOK, Running
<1>3. QueueTypeOK'
  <2>1. calls' \in [Call -> States]
    BY <1>1 DEF QueueTypeOK, States
  <2>2. queue' \in Seq(Call)
    BY <1>1
  <2>3. executing' \in BOOLEAN /\ poisoned' \in BOOLEAN
    BY <1>1
  <2>4. QED
    BY <1>1, <2>1, <2>2, <2>3 DEF QueueTypeOK
<1>4. NumberedInv'
  BY <1>1, <1>2, CallType DEF NumberedInv, QueueTypeOK
<1>5. Running' \subseteq Running \ {c}
  BY <1>1 DEF Running, QueueTypeOK
<1>6. QueueInv'
  BY <1>1, <1>5 DEF QueueInv
<1>7. FailureInv'
  BY <1>1 DEF FailureInv
<1>8. QED
  BY <1>3, <1>4, <1>5, <1>6, <1>7 DEF StartsNothingWrong

(* A round starts when no call runs or waits. *)
LEMMA StartRoundKeeps ==
    ASSUME IInv, Failed = {}, queue = <<>>, Running = {}, StartRound, prediction' # "none",
           UNCHANGED <<options, aborted, calls, currentCallId>>,
           isGeneratingToolCall' => isGeneratingToolCall
    PROVE  IInv' /\ StartsNothingWrong
<1> USE DEF IInv
<1>1. Running' = {} /\ Failed' = {}
  BY DEF Running, Failed
<1>2. queue' = <<>> /\ DOMAIN queue' = {}
  BY DEF StartRound, queueVars
<1>3. QueueTypeOK' /\ NumberedInv'
  BY <1>2 DEF QueueTypeOK, NumberedInv, StartRound, queueVars
<1>4. QueueInv' /\ FailureInv' /\ StartsNothingWrong
  BY <1>1, <1>2 DEF QueueInv, FailureInv, StartsNothingWrong
<1>5. QED
  BY <1>3, <1>4

(* A call that is not in the queue moves between two states in which it    *)
(* does not run, or goes on running.                                       *)
LEMMA CallMoves ==
    ASSUME IInv, NEW c \in Call, NEW from \in States, NEW to \in States \ {"none", "queued", "failed"},
           calls[c] = from, from \notin {"none", "generating", "queued"},
           to \in {"guarding", "executing"} <=> from \in {"guarding", "executing"},
           from # "failed", calls' = [calls EXCEPT ![c] = to],
           UNCHANGED <<options, act, aborted, currentCallId, isGeneratingToolCall, prediction, queueVars>>
    PROVE  IInv' /\ StartsNothingWrong
<1> USE DEF IInv
<1>1. Running' = Running /\ Failed' = Failed
  BY DEF Running, Failed, QueueTypeOK
<1>2. QueueTypeOK' /\ NumberedInv'
  BY CallType DEF QueueTypeOK, NumberedInv, queueVars
<1>3. \A i \in DOMAIN queue : queue[i] # c
  BY DEF QueueInv
<1>4. QueueInv'
  BY <1>1, <1>3 DEF QueueInv, QueueTypeOK, queueVars
<1>5. FailureInv' /\ StartsNothingWrong
  BY <1>1 DEF FailureInv, StartsNothingWrong, queueVars
<1>6. QED
  BY <1>2, <1>4, <1>5

(* IInv holds at the start. *)
LEMMA InitIInv == Init => IInv
<1> SUFFICES ASSUME Init PROVE IInv
  OBVIOUS
<1>1. Running = {} /\ Failed = {} /\ DOMAIN queue = {}
  BY DEF Init, Running, Failed
<1>2. QueueTypeOK
  <2>1. calls \in [Call -> States] /\ queue \in Seq(Call)
    BY DEF Init, States
  <2>2. QED
    BY <2>1 DEF Init, QueueTypeOK
<1>3. NumberedInv
  BY DEF Init, NumberedInv
<1>4. QED
  BY <1>1, <1>2, <1>3 DEF Init, IInv, QueueInv, FailureInv

(* The steps of the loop between predictions. *)
LEMMA LoopStepKeeps ==
    ASSUME IInv, LoopStep
    PROVE  IInv' /\ StartsNothingWrong
<1> USE DEF IInv
<1> UNCHANGED options
  BY DEF LoopStep, Begin, AppendAssistantMessage, RoundEnds
<1>1. CASE Begin
  <2>1. Running = {} /\ Failed = {} /\ queue = <<>> /\ UNCHANGED <<aborted, calls, currentCallId>>
    <3>1. \A c \in Call : calls[c] = "none"
      BY <1>1, CallType, ActLoopAssumption DEF Begin, NumberedInv, Call
    <3>2. queue = <<>>
      <4>1. DOMAIN queue = {}
        BY <3>1 DEF QueueInv, QueueTypeOK
      <4>2. QED
        BY <4>1 DEF QueueTypeOK
    <3>3. QED
      BY <1>1, <3>1, <3>2 DEF Begin, Running, Failed
  <2>2. prediction' # "none" /\ (isGeneratingToolCall' => isGeneratingToolCall)
    BY <1>1 DEF Begin, StartRound
  <2>3. QED
    BY <1>1, <2>1, <2>2, StartRoundKeeps DEF Begin
<1>2. CASE AppendAssistantMessage
  <2>1. /\ UNCHANGED <<act, aborted, calls, currentCallId, isGeneratingToolCall, queueVars>>
        /\ prediction' # "none"
    BY <1>2 DEF AppendAssistantMessage
  <2>2. Running' = Running /\ Failed' = Failed
    BY <2>1 DEF Running, Failed
  <2>3. QueueTypeOK' /\ NumberedInv' /\ QueueInv' /\ FailureInv'
    BY <2>1, <2>2 DEF QueueTypeOK, NumberedInv, QueueInv, FailureInv, queueVars
  <2>4. QED
    BY <2>2, <2>3 DEF StartsNothingWrong
<1>3. CASE RoundEnds
  <2>1. act = "running" /\ Pending = {} /\ UNCHANGED <<aborted, calls, currentCallId>>
    BY <1>3 DEF RoundEnds
  <2>2. Running = {} /\ Failed = {}
    BY <2>1 DEF Running, Pending, FailureInv
  <2>3. queue = <<>>
    <3>1. \A i \in DOMAIN queue : queue[i] \in Pending
      BY DEF QueueInv, QueueTypeOK, Pending
    <3>2. DOMAIN queue = {}
      BY <2>1, <3>1
    <3>3. QED
      BY <3>2 DEF QueueTypeOK
  <2>4. CASE StartRound
    <3>1. prediction' # "none" /\ (isGeneratingToolCall' => isGeneratingToolCall)
      BY <2>4 DEF StartRound
    <3>2. QED
      BY <2>1, <2>2, <2>3, <2>4, <3>1, StartRoundKeeps
  <2>5. CASE act' = "resolved" /\ prediction' = "over" /\ UNCHANGED <<isGeneratingToolCall, queueVars>>
    <3>1. Running' = Running /\ Failed' = Failed
      BY <2>1 DEF Running, Failed
    <3>2. QueueTypeOK' /\ NumberedInv' /\ QueueInv' /\ FailureInv'
      BY <2>1, <2>5, <3>1 DEF QueueTypeOK, NumberedInv, QueueInv, FailureInv, queueVars
    <3>3. QED
      BY <3>1, <3>2 DEF StartsNothingWrong
  <2>6. QED
    BY <1>3, <2>4, <2>5 DEF RoundEnds
<1>4. QED
  BY <1>1, <1>2, <1>3 DEF LoopStep

(* The steps of the model: the calls it starts and requests. *)
LEMMA ModelStepKeeps ==
    ASSUME IInv, ModelStep
    PROVE  IInv' /\ StartsNothingWrong
<1> USE DEF IInv
<1> UNCHANGED options
  BY DEF ModelStep, ToolCallGenerationStart, ToolCallGenerationEnd, ToolCallGenerationFailed,
         PredictionFails, PredictionEnds, actVars
<1>1. CASE ToolCallGenerationStart
  <2> DEFINE n == currentCallId + 1
  <2>1. n \in Call /\ currentCallId \in Int /\ calls[n] = "none" /\ currentCallId < n
    BY <1>1, CallType, ActLoopAssumption DEF ToolCallGenerationStart, QueueTypeOK, NumberedInv, Call
  <2>2. /\ currentCallId' = n /\ isGeneratingToolCall' = TRUE
        /\ calls' = [calls EXCEPT ![n] = "generating"]
        /\ UNCHANGED <<act, aborted, prediction, queue, executing, poisoned>>
        /\ prediction # "none"
    BY <1>1 DEF ToolCallGenerationStart, queueVars
  <2> HIDE DEF n
  <2>3. Running' = Running /\ Failed' = Failed
    BY <2>1, <2>2 DEF Running, Failed, QueueTypeOK
  <2>4. calls' \in [Call -> States]
    BY <2>1, <2>2 DEF QueueTypeOK, States
  <2>5. QueueTypeOK'
    BY <2>1, <2>2, <2>4 DEF QueueTypeOK
  <2>6. NumberedInv'
    BY <2>1, <2>2, CallType DEF NumberedInv, QueueTypeOK
  <2>7. QueueInv'
    BY <2>1, <2>2, <2>3 DEF QueueInv, QueueTypeOK
  <2>8. FailureInv' /\ StartsNothingWrong
    BY <2>2, <2>3 DEF FailureInv, StartsNothingWrong
  <2>9. QED
    BY <2>5, <2>6, <2>7, <2>8
<1>2. ASSUME NEW to \in {"handling", "handlingUnparsed", "dropped"}, isGeneratingToolCall,
             ~isGeneratingToolCall', isGeneratingToolCall' \in BOOLEAN,
             prediction' # "none", act' \in {act, "rejected"},
             calls' = [calls EXCEPT ![currentCallId] = to],
             UNCHANGED <<aborted, currentCallId, queueVars>>
      PROVE  IInv' /\ StartsNothingWrong
  <2>1. currentCallId \in Call /\ calls[currentCallId] = "generating"
    BY <1>2 DEF NumberedInv
  <2>2. Running' = Running /\ Failed' = Failed
    BY <1>2, <2>1 DEF Running, Failed, QueueTypeOK
  <2>3. calls' \in [Call -> States]
    BY <1>2, <2>1 DEF QueueTypeOK, States
  <2>4. QueueTypeOK' /\ NumberedInv'
    BY <1>2, <2>1, <2>3, CallType DEF QueueTypeOK, NumberedInv, queueVars
  <2>5. QueueInv'
    BY <1>2, <2>1, <2>2 DEF QueueInv, QueueTypeOK, queueVars
  <2>6. FailureInv' /\ StartsNothingWrong
    BY <1>2, <2>2 DEF FailureInv, StartsNothingWrong, queueVars
  <2>7. QED
    BY <2>4, <2>5, <2>6
<1>3. CASE ToolCallGenerationEnd
  <2>1. CASE RunInQueue(currentCallId)
    BY <1>3, <2>1, RunInQueueKeeps DEF ToolCallGenerationEnd
  <2>2. CASE calls' = [calls EXCEPT ![currentCallId] = "handling"] /\ UNCHANGED <<act, queueVars>>
    BY <1>2, <1>3, <2>2 DEF ToolCallGenerationEnd
  <2>3. QED
    BY <1>3, <2>1, <2>2 DEF ToolCallGenerationEnd
<1>4. CASE ToolCallGenerationFailed
  BY <1>2, <1>4 DEF ToolCallGenerationFailed, actVars
<1>5. ASSUME ~isGeneratingToolCall, ~isGeneratingToolCall', isGeneratingToolCall' \in BOOLEAN,
             prediction' # "none", act' \in {act, "rejected"},
             UNCHANGED <<aborted, calls, currentCallId, queueVars>>
      PROVE  IInv' /\ StartsNothingWrong
  <2>1. Running' = Running /\ Failed' = Failed
    BY <1>5 DEF Running, Failed
  <2>2. QueueTypeOK' /\ NumberedInv'
    BY <1>5 DEF QueueTypeOK, NumberedInv, queueVars
  <2>3. QueueInv' /\ FailureInv' /\ StartsNothingWrong
    BY <1>5, <2>1 DEF QueueInv, FailureInv, StartsNothingWrong, queueVars
  <2>4. QED
    BY <2>2, <2>3
<1>6. CASE PredictionFails
  <2>1. /\ ~isGeneratingToolCall' /\ isGeneratingToolCall' \in BOOLEAN /\ prediction' # "none"
        /\ act' \in {act, "rejected"} /\ UNCHANGED <<aborted, currentCallId, queueVars>>
    BY <1>6 DEF PredictionFails, ActRejects
  <2>2. CASE isGeneratingToolCall
    BY <1>2, <1>6, <2>1, <2>2 DEF PredictionFails
  <2>3. CASE ~isGeneratingToolCall
    BY <1>5, <1>6, <2>1, <2>3 DEF PredictionFails
  <2>4. QED
    BY <2>2, <2>3
<1>7. CASE PredictionEnds
  BY <1>5, <1>7 DEF PredictionEnds, actVars, QueueTypeOK
<1>8. QED
  BY <1>1, <1>3, <1>4, <1>6, <1>7 DEF ModelStep

(* The steps of the application's callbacks. *)
LEMMA CallStepKeeps ==
    ASSUME IInv, NEW c \in Call, HandlerStep(c) \/ TaskStep(c)
    PROVE  IInv' /\ StartsNothingWrong
<1>1. CASE HandlerReplies(c)
  BY <1>1, CallMoves DEF HandlerReplies, actVars, requestVars, States
<1>2. CASE HandlerDeclines(c)
  BY <1>2, CallMoves DEF HandlerDeclines, actVars, roundVars, requestVars, States
<1>3. CASE HandlerThrows(c)
  BY <1>3, AbortKeeps DEF HandlerThrows, requestVars
<1>4. CASE GuardAllows(c)
  BY <1>4, CallMoves DEF GuardAllows, actVars, roundVars, requestVars, States
<1>5. CASE CallAnswered(c)
  BY <1>5, TaskEndsKeeps DEF CallAnswered, Running, actVars, requestVars
<1>6. CASE ToolUnimplemented(c)
  BY <1>6, TaskEndsKeeps DEF ToolUnimplemented, Running, requestVars
<1>7. CASE CallThrows(c)
  BY <1>7, TaskThrowsKeeps DEF CallThrows, Running, requestVars
<1>8. QED
  BY <1>1, <1>2, <1>3, <1>4, <1>5, <1>6, <1>7 DEF HandlerStep, TaskStep

(* Every step keeps IInv and starts nothing it may not. *)
LEMMA NextKeeps == IInv /\ [Next]_vars => IInv' /\ StartsNothingWrong
<1> SUFFICES ASSUME IInv, [Next]_vars PROVE IInv' /\ StartsNothingWrong
  OBVIOUS
<1>1. CASE UserAborts
  BY <1>1, AbortKeeps DEF UserAborts, requestVars
<1>2. CASE UNCHANGED vars
  <2>1. UNCHANGED <<options, act, aborted, calls, currentCallId, isGeneratingToolCall, prediction,
                    queueVars>>
    BY <1>2 DEF vars, actVars, roundVars, requestVars
  <2>2. Running' = Running /\ Failed' = Failed
    BY <2>1 DEF Running, Failed
  <2>3. QED
    BY <2>1, <2>2 DEF IInv, QueueTypeOK, NumberedInv, QueueInv, FailureInv, StartsNothingWrong, queueVars
<1>3. QED
  BY <1>1, <1>2, ModelStepKeeps, LoopStepKeeps, CallStepKeeps DEF Next

LEMMA IInvHolds == Spec => []IInv
<1>1. Init => IInv
  BY InitIInv
<1>2. IInv /\ [Next]_vars => IInv'
  BY NextKeeps
<1>3. QED
  BY <1>1, <1>2, PTL DEF Spec

(* Without parallel execution at most one tool runs, and before all that   *)
(* wait (FIFOQueue).                                                       *)
THEOREM OneAtATimeInOrderHolds == Spec => []OneAtATimeInOrder
<1>1. IInv => OneAtATimeInOrder
  <2> SUFFICES ASSUME IInv, ~allowParallelToolExecution
               PROVE  /\ Cardinality(Running) <= 1
                      /\ \A c \in Running, d \in ToSet(queue) : c < d
    BY DEF OneAtATimeInOrder
  <2>1. Cardinality(Running) <= 1
    <3>1. CASE Running = {}
      BY <3>1, FS_EmptySet
    <3>2. CASE Running # {}
      <4>1. PICK c \in Running : TRUE
        BY <3>2
      <4>2. Running = {c}
        BY <4>1 DEF IInv, QueueInv
      <4>3. QED
        BY <4>2, FS_Singleton
    <3>3. QED
      BY <3>1, <3>2
  <2>2. \A c \in Running, d \in ToSet(queue) : c < d
    BY DEF IInv, QueueInv, ToSet
  <2>3. QED
    BY <2>1, <2>2
<1>2. QED
  BY <1>1, IInvHolds, PTL

(* No tool starts after an abort, nor after a failed one in the queue      *)
(* (runInQueue's listener, clearQueue).                                    *)
THEOREM NothingStartsAfterFailureHolds == Spec => NothingStartsAfterFailure
<1>1. IInv /\ [Next]_vars
        => [aborted \/ (~allowParallelToolExecution /\ Failed' # {}) => Running' \subseteq Running]_vars
  BY NextKeeps DEF StartsNothingWrong
<1>2. QED
  BY <1>1, IInvHolds, PTL DEF Spec, NothingStartsAfterFailure

-----------------------------------------------------------------------------
(* What the chat says of the calls.                                        *)

AnyMessage == [role : {"assistant", "tool"}, calls : Seq(Call)]

ActTypeOK ==
    /\ toolCallRequests \in Seq(Call) /\ toolCallResults \in Seq(Call)
    /\ nextToolCallIndex \in Nat /\ index \in [Call -> Nat]
    /\ predictionsPerformed \in Nat
    /\ chat \in Seq(AnyMessage)
    /\ announced \in [Call -> Nat]

(* A call that was requested and is not settled, and one that is. *)
Waiting == {"handling", "queued", "guarding", "executing"}
Final == {"answered", "done", "failed"}

(* The requests of a round, their numbers and the index each captured go   *)
(* up together.                                                            *)
RequestsInv ==
    /\ isGeneratingToolCall => prediction = "generating"
    /\ \A i, j \in DOMAIN toolCallRequests : i < j => toolCallRequests[i] < toolCallRequests[j]
    /\ \A c \in ToSet(toolCallRequests) :
         /\ c <= currentCallId /\ (isGeneratingToolCall => c < currentCallId)
         /\ index[c] < nextToolCallIndex
    /\ \A c, d \in ToSet(toolCallRequests) : c < d => index[c] < index[d]

(* The results of a round are those of its requests, each once. *)
ResultsInv ==
    /\ \A c \in ToSet(toolCallRequests) : calls[c] \in Waiting \cup Final
    /\ \A c \in Call : calls[c] \in Waiting => c \in ToSet(toolCallRequests)
    /\ \A c \in Call : c \in ToSet(toolCallResults)
                        <=> c \in ToSet(toolCallRequests) /\ calls[c] = "answered"
    /\ \A i, j \in DOMAIN toolCallResults : toolCallResults[i] = toolCallResults[j] => i = j

(* Where the chat is in each phase of a round. *)
PhaseInv ==
    /\ prediction \in {"none", "generating", "failed", "ended"} =>
         /\ chat # <<>> => Last(chat).role = "tool"
         /\ \A c \in ToSet(toolCallRequests), d \in Contract!Requested : c > d
         /\ Contract!Rounds = predictionsPerformed
    /\ prediction = "appended" =>
         /\ chat # <<>> /\ Last(chat) = [role |-> "assistant", calls |-> toolCallRequests]
         /\ Contract!Rounds = predictionsPerformed + 1
    /\ \A d \in Contract!Requested : d <= currentCallId /\ (isGeneratingToolCall => d < currentCallId)
    /\ prediction # "over" =>
         /\ MaxPredictionRounds # 0 => predictionsPerformed < MaxPredictionRounds
         /\ ~allowTools => toolCallRequests = <<>> /\ ~isGeneratingToolCall
    /\ act = "resolved" => prediction = "over"

(* What was answered in the chat stays as it is. *)
AnswersInv ==
    \A i \in DOMAIN chat : chat[i].role = "assistant" =>
        /\ i < Len(chat) \/ act = "resolved" => \A c \in ToSet(chat[i].calls) : calls[c] \in Final
        /\ i < Len(chat) => \A c \in Call : c \in ToSet(chat[i + 1].calls)
                              <=> c \in ToSet(chat[i].calls) /\ calls[c] = "answered"
        /\ i = Len(chat) /\ act = "resolved" => \A c \in ToSet(chat[i].calls) : calls[c] # "answered"

(* Every call that was announced was announced once. *)
PairedInv ==
    \A c \in Call : announced[c] =
        IF c < currentCallId \/ (c = currentCallId /\ ~isGeneratingToolCall) THEN 1 ELSE 0

ActInv ==
    /\ IInv /\ ActTypeOK
    /\ RequestsInv /\ ResultsInv /\ PhaseInv /\ AnswersInv /\ PairedInv /\ EndsWithAnswer

(* What one more element does to a sequence and to the set of its elements. *)
LEMMA AppendFacts ==
    ASSUME NEW S, NEW q \in Seq(S), NEW m \in S
    PROVE  /\ Append(q, m) \in Seq(S)
           /\ Len(q) \in Nat /\ DOMAIN q = 1..Len(q) /\ DOMAIN Append(q, m) = 1..(Len(q) + 1)
           /\ Len(Append(q, m)) = Len(q) + 1
           /\ \A i \in 1..Len(q) : Append(q, m)[i] = q[i]
           /\ Append(q, m)[Len(q) + 1] = m
           /\ ToSet(Append(q, m)) = ToSet(q) \cup {m}
<1>1. /\ Append(q, m) \in Seq(S)
      /\ Len(q) \in Nat /\ DOMAIN q = 1..Len(q) /\ DOMAIN Append(q, m) = 1..(Len(q) + 1)
      /\ Len(Append(q, m)) = Len(q) + 1
      /\ \A i \in 1..Len(q) : Append(q, m)[i] = q[i]
      /\ Append(q, m)[Len(q) + 1] = m
  OBVIOUS
<1> DEFINE r == Append(q, m)
<1>2. /\ \A i \in DOMAIN r : i \in DOMAIN q \/ i = Len(q) + 1
      /\ \A i \in DOMAIN q : i \in DOMAIN r /\ r[i] = q[i]
      /\ Len(q) + 1 \in DOMAIN r /\ r[Len(q) + 1] = m
  BY <1>1
<1> HIDE DEF r
<1>3. ToSet(r) = ToSet(q) \cup {m}
  BY <1>2 DEF ToSet
<1>4. QED
  BY <1>1, <1>3 DEF r

LEMMA ToSetType ==
    ASSUME NEW S, NEW q \in Seq(S)
    PROVE  ToSet(q) \subseteq S /\ (ToSet(q) = {} <=> q = <<>>)
<1>1. \A i \in DOMAIN q : q[i] \in S
  OBVIOUS
<1>2. DOMAIN q = {} <=> q = <<>>
  OBVIOUS
<1>3. QED
  BY <1>1, <1>2 DEF ToSet

LEMMA EmptyToSet == ToSet(<<>>) = {} /\ DOMAIN <<>> = {}
BY DEF ToSet

-----------------------------------------------------------------------------
(* The calls and the results: what the steps of the application's          *)
(* callbacks do to them.                                                   *)

CallEffect ==
    /\ \A d \in Call :
         \/ calls'[d] = calls[d]
         \/ calls[d] \in Waiting /\ calls'[d] \in Waiting \cup Final
         \/ calls[d] = "handlingUnparsed" /\ calls'[d] \in {"done", "failed"}
    /\ \/ /\ toolCallResults' = toolCallResults
          /\ \A d \in Call : calls'[d] = "answered" <=> calls[d] = "answered"
       \/ \E c \in Call :
            /\ calls[c] \in Waiting /\ toolCallResults' = Append(toolCallResults, c)
            /\ \A d \in Call : calls'[d] = "answered" <=> calls[d] = "answered" \/ d = c
    /\ nextToolCallIndex' \in {nextToolCallIndex, nextToolCallIndex + 1}
    /\ act' = act \/ (act = "running" /\ act' = "rejected")
    /\ hasCalledUnimplementedTool => hasCalledUnimplementedTool'
    /\ UNCHANGED <<predictionsPerformed, currentCallId, chat, index, requestVars, announced>>

LEMMA QueuedCalls == IInv => ToSet(queue) \subseteq Call /\ \A d \in ToSet(queue) : calls[d] = "queued"
BY DEF IInv, QueueInv, QueueTypeOK, ToSet

LEMMA AbortEffect ==
    ASSUME IInv, NEW failing \in SUBSET Call, Abort(failing),
           \A c \in failing : calls[c] \in {"handling", "handlingUnparsed"},
           UNCHANGED <<predictionsPerformed, currentCallId, hasCalledUnimplementedTool, chat, index,
                       requestVars, resultVars, seenVars>>
    PROVE  CallEffect
<1>1. calls' = [c \in Call |-> IF c \in failing \cup ToSet(queue) THEN "failed" ELSE calls[c]]
      /\ (act' = act \/ (act = "running" /\ act' = "rejected"))
  BY DEF Abort, ActRejects
<1>2. \A d \in Call : \/ calls'[d] = calls[d]
                      \/ /\ calls[d] \in {"handling", "handlingUnparsed", "queued"}
                         /\ calls'[d] = "failed"
  BY <1>1, QueuedCalls
<1>3. QED
  BY <1>1, <1>2 DEF CallEffect, Waiting, Final, resultVars, seenVars

LEMMA TaskEndsEffect ==
    ASSUME IInv, NEW c \in Running, NEW state \in {"answered", "done"}, TaskEnds(c, state)
    PROVE  /\ calls'[c] = state
           /\ \A d \in Call : d # c =>
                \/ calls'[d] = calls[d]
                \/ calls[d] = "queued" /\ calls'[d] \in {"guarding", "executing"}
<1>1. c \in Call /\ calls[c] \in {"guarding", "executing"} /\ calls \in [Call -> States]
  BY DEF Running, IInv, QueueTypeOK
<1>2. CASE calls' = [calls EXCEPT ![c] = state]
  BY <1>1, <1>2
<1>3. CASE queue # <<>> /\ calls' = [calls EXCEPT ![c] = state, ![Head(queue)] = Started]
  <2>1. Head(queue) \in Call /\ calls[Head(queue)] = "queued"
    <3>1. 1 \in DOMAIN queue /\ Head(queue) = queue[1] /\ queue[1] \in Call
      BY <1>3 DEF IInv, QueueTypeOK
    <3>2. QED
      BY <3>1 DEF IInv, QueueInv
  <2> DEFINE h == Head(queue)
  <2> HIDE DEF h
  <2>2. h \in Call /\ calls[h] = "queued" /\ calls' = [calls EXCEPT ![c] = state, ![h] = Started]
    BY <1>3, <2>1 DEF h
  <2>3. h # c /\ Started \in {"guarding", "executing"}
    BY <1>1, <2>2 DEF Started
  <2>4. QED
    BY <1>1, <2>2, <2>3
<1>4. QED
  BY <1>2, <1>3 DEF TaskEnds

LEMMA CallStepEffect ==
    ASSUME IInv, NEW c \in Call, HandlerStep(c) \/ TaskStep(c)
    PROVE  CallEffect
<1> calls \in [Call -> States]
  BY DEF IInv, QueueTypeOK
<1> USE DEF Waiting, Final
<1>1. CASE HandlerReplies(c)
  <2>1. calls[c] = "handling" /\ calls' = [calls EXCEPT ![c] = "answered"]
    BY <1>1 DEF HandlerReplies
  <2>2. \A d \in Call : calls'[d] = IF d = c THEN "answered" ELSE calls[d]
    BY <2>1
  <2>3. QED
    BY <1>1, <2>1, <2>2 DEF HandlerReplies, CallEffect, actVars, requestVars
<1>2. CASE HandlerDeclines(c)
  <2>1. \A d \in Call : calls'[d] = IF d = c THEN "done" ELSE calls[d]
    BY <1>2 DEF HandlerDeclines
  <2>2. QED
    BY <1>2, <2>1 DEF HandlerDeclines, CallEffect, actVars, roundVars, requestVars, resultVars, seenVars
<1>3. CASE HandlerThrows(c)
  BY <1>3, AbortEffect DEF HandlerThrows
<1>4. CASE GuardAllows(c)
  <2>1. \A d \in Call : calls'[d] = IF d = c THEN "executing" ELSE calls[d]
    BY <1>4 DEF GuardAllows
  <2>2. QED
    BY <1>4, <2>1 DEF GuardAllows, CallEffect, actVars, roundVars, requestVars, resultVars, seenVars
<1>5. CASE CallAnswered(c)
  <2>1. c \in Running /\ calls[c] \in {"guarding", "executing"} /\ TaskEnds(c, "answered")
    BY <1>5 DEF CallAnswered, Running
  <2>2. /\ calls'[c] = "answered"
        /\ \A d \in Call : d # c =>
              \/ calls'[d] = calls[d]
              \/ calls[d] = "queued" /\ calls'[d] \in {"guarding", "executing"}
    BY <2>1, TaskEndsEffect
  <2>3. /\ toolCallResults' = Append(toolCallResults, c)
        /\ UNCHANGED <<nextToolCallIndex, act, hasCalledUnimplementedTool, predictionsPerformed,
                       currentCallId, chat, index, requestVars, announced>>
    BY <1>5 DEF CallAnswered, actVars
  <2>4. QED
    BY <2>1, <2>2, <2>3 DEF CallEffect
<1>6. CASE ToolUnimplemented(c)
  <2>1. c \in Running /\ calls[c] = "executing" /\ TaskEnds(c, "done")
    BY <1>6 DEF ToolUnimplemented, Running
  <2>2. /\ calls'[c] = "done"
        /\ \A d \in Call : d # c =>
              \/ calls'[d] = calls[d]
              \/ calls[d] = "queued" /\ calls'[d] \in {"guarding", "executing"}
    BY <2>1, TaskEndsEffect
  <2>3. QED
    BY <1>6, <2>1, <2>2 DEF ToolUnimplemented, CallEffect, resultVars, seenVars
<1>7. CASE CallThrows(c)
  <2>1. \A d \in Call : \/ calls'[d] = calls[d]
                        \/ calls[d] \in {"queued", "guarding", "executing"} /\ calls'[d] = "failed"
    BY <1>7, QueuedCalls DEF CallThrows, TaskThrows
  <2>2. act' = act \/ (act = "running" /\ act' = "rejected")
    BY <1>7 DEF CallThrows, TaskThrows, ActRejects
  <2>3. QED
    BY <1>7, <2>1, <2>2 DEF CallThrows, CallEffect, resultVars, seenVars
<1>8. QED
  BY <1>1, <1>2, <1>3, <1>4, <1>5, <1>6, <1>7 DEF HandlerStep, TaskStep

LEMMA UserAbortsEffect == IInv /\ UserAborts => CallEffect
BY AbortEffect DEF UserAborts

-----------------------------------------------------------------------------
(* The steps that leave the chat as it is.                                 *)

LEMMA MessageCalls ==
    ASSUME NEW q \in Seq(AnyMessage)
    PROVE  \A i \in DOMAIN q : q[i].calls \in Seq(Call) /\ ToSet(q[i].calls) \subseteq Call
<1>1. \A i \in DOMAIN q : q[i] \in AnyMessage
  OBVIOUS
<1>2. \A i \in DOMAIN q : q[i].calls \in Seq(Call)
  BY <1>1 DEF AnyMessage
<1>3. QED
  BY <1>2, ToSetType

LEMMA RequestedCalls == chat \in Seq(AnyMessage) => Contract!Requested \subseteq Call
<1> SUFFICES ASSUME chat \in Seq(AnyMessage) PROVE Contract!Requested \subseteq Call
  OBVIOUS
<1>1. \A i \in DOMAIN chat : ToSet(chat[i].calls) \subseteq Call
  BY MessageCalls
<1>2. QED
  BY <1>1 DEF Contract!Requested, Contract!ToSet, ToSet

(* A settled call stays settled, so what was answered stays so. *)
LEMMA ChatStays ==
    ASSUME AnswersInv, EndsWithAnswer, UNCHANGED chat, chat \in Seq(AnyMessage),
           \A d \in Call : calls[d] \in Final => calls'[d] = calls[d],
           act' = "resolved" => act = "resolved",
           hasCalledUnimplementedTool => hasCalledUnimplementedTool'
    PROVE  AnswersInv' /\ EndsWithAnswer'
<1>1. \A i \in DOMAIN chat : ToSet(chat[i].calls) \subseteq Call
  BY MessageCalls
<1>2. AnswersInv'
  <2> SUFFICES ASSUME NEW i \in DOMAIN chat, chat[i].role = "assistant"
               PROVE  /\ i < Len(chat) \/ act' = "resolved" =>
                            \A c \in ToSet(chat[i].calls) : calls'[c] \in Final
                      /\ i < Len(chat) => \A c \in Call : c \in ToSet(chat[i + 1].calls)
                            <=> c \in ToSet(chat[i].calls) /\ calls'[c] = "answered"
                      /\ i = Len(chat) /\ act' = "resolved" =>
                            \A c \in ToSet(chat[i].calls) : calls'[c] # "answered"
    BY DEF AnswersInv
  <2>1. i < Len(chat) \/ act' = "resolved" =>
           \A c \in ToSet(chat[i].calls) : calls[c] \in Final /\ calls'[c] = calls[c]
    BY <1>1 DEF AnswersInv
  <2>2. QED
    BY <2>1 DEF AnswersInv
<1>3. EndsWithAnswer'
  BY DEF EndsWithAnswer
<1>4. QED
  BY <1>2, <1>3

LEMMA CallEffectKeeps ==
    ASSUME ActInv, CallEffect, IInv'
    PROVE  ActInv'
<1> USE DEF ActInv
<1>1. ActTypeOK'
  <2>1. toolCallResults' \in Seq(Call)
    <3>1. toolCallResults \in Seq(Call)
      BY DEF ActTypeOK
    <3>2. \A c \in Call : Append(toolCallResults, c) \in Seq(Call)
      BY <3>1, AppendFacts
    <3>3. QED
      BY <3>1, <3>2 DEF CallEffect
  <2>2. nextToolCallIndex' \in Nat
    BY DEF CallEffect, ActTypeOK
  <2>3. QED
    BY <2>1, <2>2 DEF CallEffect, ActTypeOK, requestVars
<1>2. RequestsInv'
  <2>1. ToSet(toolCallRequests) \subseteq Call
    BY ToSetType DEF ActTypeOK
  <2>2. \A c \in ToSet(toolCallRequests) : index[c] < nextToolCallIndex => index[c] < nextToolCallIndex'
    BY <2>1 DEF CallEffect, ActTypeOK
  <2>3. UNCHANGED <<currentCallId, index, prediction, isGeneratingToolCall, toolCallRequests>>
    BY DEF CallEffect, requestVars
  <2>4. QED
    BY <2>2, <2>3 DEF RequestsInv
<1>3. ResultsInv'
  <2> DEFINE R == ToSet(toolCallRequests)
  <2>1. R \subseteq Call /\ ToSet(toolCallRequests') = R
    BY ToSetType DEF ActTypeOK, CallEffect, requestVars
  <2>2. /\ \A c \in R : calls[c] \in Waiting \cup Final
        /\ \A c \in Call : calls[c] \in Waiting => c \in R
        /\ \A c \in Call : c \in ToSet(toolCallResults) <=> c \in R /\ calls[c] = "answered"
        /\ \A i, j \in DOMAIN toolCallResults : toolCallResults[i] = toolCallResults[j] => i = j
    BY DEF ResultsInv
  <2> HIDE DEF R
  <2>3. /\ \A c \in R : calls'[c] \in Waiting \cup Final
        /\ \A c \in Call : calls'[c] \in Waiting => c \in R
    BY <2>1, <2>2 DEF CallEffect, Waiting, Final
  <2>4. /\ \A c \in Call : c \in ToSet(toolCallResults') <=> c \in R /\ calls'[c] = "answered"
        /\ \A i, j \in DOMAIN toolCallResults' : toolCallResults'[i] = toolCallResults'[j] => i = j
    <3>1. CASE /\ toolCallResults' = toolCallResults
               /\ \A d \in Call : calls'[d] = "answered" <=> calls[d] = "answered"
      BY <2>2, <3>1
    <3>2. ASSUME NEW c \in Call, calls[c] \in Waiting, toolCallResults' = Append(toolCallResults, c),
                 \A d \in Call : calls'[d] = "answered" <=> calls[d] = "answered" \/ d = c
          PROVE  /\ \A d \in Call : d \in ToSet(toolCallResults') <=> d \in R /\ calls'[d] = "answered"
                 /\ \A i, j \in DOMAIN toolCallResults' : toolCallResults'[i] = toolCallResults'[j] => i = j
      <4>1. /\ DOMAIN toolCallResults = 1..Len(toolCallResults) /\ Len(toolCallResults) \in Nat
            /\ DOMAIN toolCallResults' = 1..(Len(toolCallResults) + 1)
            /\ \A i \in 1..Len(toolCallResults) : toolCallResults'[i] = toolCallResults[i]
            /\ toolCallResults'[Len(toolCallResults) + 1] = c
            /\ ToSet(toolCallResults') = ToSet(toolCallResults) \cup {c}
        BY <3>2, AppendFacts DEF ActTypeOK
      <4>2. c \in R /\ c \notin ToSet(toolCallResults)
        BY <2>2, <3>2 DEF Waiting
      <4>3. \A i \in DOMAIN toolCallResults : toolCallResults[i] # c
        BY <4>2 DEF ToSet
      <4>4. \A d \in Call : d \in ToSet(toolCallResults') <=> d \in R /\ calls'[d] = "answered"
        BY <2>2, <3>2, <4>1, <4>2
      <4>5. \A i, j \in DOMAIN toolCallResults' : toolCallResults'[i] = toolCallResults'[j] => i = j
        BY <2>2, <4>1, <4>3
      <4>6. QED
        BY <4>4, <4>5
    <3>3. QED
      BY <3>1, <3>2 DEF CallEffect
  <2>5. QED
    BY <2>1, <2>3, <2>4 DEF ResultsInv
<1>4. PhaseInv'
  <2>1. UNCHANGED <<predictionsPerformed, currentCallId, chat, prediction, isGeneratingToolCall,
                    toolCallRequests>>
    BY DEF CallEffect, requestVars
  <2>2. UNCHANGED <<Contract!Requested, Contract!Rounds, allowTools>> /\ (act' = "resolved" => act = "resolved")
    BY <2>1 DEF Contract!Requested, Contract!Rounds, allowTools, CallEffect
  <2>3. QED
    BY <2>1, <2>2 DEF PhaseInv
<1>5. AnswersInv' /\ EndsWithAnswer'
  <2>1. \A d \in Call : calls[d] \in Final => calls'[d] = calls[d]
    BY DEF CallEffect, Waiting, Final
  <2>2. QED
    BY <2>1, ChatStays DEF CallEffect, ActTypeOK
<1>6. PairedInv'
  BY DEF PairedInv, CallEffect, requestVars
<1>7. QED
  BY <1>1, <1>2, <1>3, <1>4, <1>5, <1>6

(* The model starts a call, with the next number. *)
LEMMA StartKeeps ==
    ASSUME ActInv, ToolCallGenerationStart, IInv'
    PROVE  ActInv'
<1> USE DEF ActInv
<1> DEFINE n == currentCallId + 1
<1>1. /\ n \in Call /\ currentCallId \in Int /\ calls \in [Call -> States]
      /\ calls[n] = "none" /\ ~isGeneratingToolCall
  BY CallType, ActLoopAssumption
     DEF ToolCallGenerationStart, IInv, QueueTypeOK, NumberedInv, Call
<1>2. /\ currentCallId' = n /\ isGeneratingToolCall' = TRUE
      /\ calls' = [calls EXCEPT ![n] = "generating"]
      /\ prediction = "generating" /\ allowTools
      /\ UNCHANGED <<options, act, predictionsPerformed, hasCalledUnimplementedTool, chat, index,
                     prediction, toolCallRequests, nextToolCallIndex, toolCallResults, announced>>
  BY DEF ToolCallGenerationStart, resultVars, seenVars
<1> HIDE DEF n
<1>3. /\ \A d \in Call : calls'[d] = IF d = n THEN "generating" ELSE calls[d]
      /\ ToSet(toolCallRequests) \subseteq Call
  BY <1>1, <1>2, ToSetType DEF ActTypeOK
<1>4. ActTypeOK'
  BY <1>2 DEF ActTypeOK
<1>5. RequestsInv'
  <2>1. \A c \in Call : c <= currentCallId => c < n
    BY <1>1, CallType DEF n
  <2>2. \A c \in ToSet(toolCallRequests) : c < n /\ c <= n /\ index[c] < nextToolCallIndex
    <3>1. \A c \in ToSet(toolCallRequests) : c \in Call /\ c <= currentCallId /\ index[c] < nextToolCallIndex
      BY <1>3 DEF RequestsInv
    <3>2. \A c \in Call : c < n => c <= n
      BY <1>1, CallType
    <3>3. QED
      BY <2>1, <3>1, <3>2
  <2>3. QED
    BY <1>2, <2>2 DEF RequestsInv
<1>6. ResultsInv'
  BY <1>1, <1>2, <1>3 DEF ResultsInv, Waiting, Final
<1>7. PhaseInv'
  <2>1. UNCHANGED <<Contract!Requested, Contract!Rounds, allowTools>>
    BY <1>2 DEF Contract!Requested, Contract!Rounds, allowTools
  <2>2. \A d \in Contract!Requested : d <= n /\ d < n
    <3>1. Contract!Requested \subseteq Call
      BY RequestedCalls DEF ActTypeOK
    <3>2. QED
      BY <1>1, <3>1, CallType DEF PhaseInv, n
  <2>3. QED
    BY <1>2, <2>1, <2>2 DEF PhaseInv
<1>8. AnswersInv' /\ EndsWithAnswer'
  <2>1. \A d \in Call : calls[d] \in Final => calls'[d] = calls[d]
    BY <1>1, <1>3 DEF Final
  <2>2. QED
    BY <1>2, <2>1, ChatStays DEF ActTypeOK
<1>9. PairedInv'
  <2>1. \A c \in Call : c < n <=> c < currentCallId \/ c = currentCallId
    BY <1>1, CallType DEF n
  <2>2. QED
    BY <1>1, <1>2, <2>1, CallType DEF PairedInv
<1>10. QED
  BY <1>4, <1>5, <1>6, <1>7, <1>8, <1>9

(* The call that was generated is handed to the queue or to the handler of *)
(* invalid requests.                                                       *)
LEMMA EndKeeps ==
    ASSUME ActInv, ToolCallGenerationEnd, IInv'
    PROVE  ActInv'
<1> USE DEF ActInv
<1> DEFINE n == currentCallId
<1>1. n \in Call /\ calls \in [Call -> States] /\ calls[n] = "generating" /\ isGeneratingToolCall
  BY DEF ToolCallGenerationEnd, IInv, QueueTypeOK, NumberedInv
<1>2. PICK to \in {"handling", "queued", "guarding", "executing", "failed"} :
          calls' = [calls EXCEPT ![n] = to] /\ act' \in {act, "rejected"}
  BY DEF ToolCallGenerationEnd, RunInQueue, ActRejects, Started
<1>3. /\ isGeneratingToolCall' = FALSE /\ prediction = "generating"
      /\ toolCallRequests' = Append(toolCallRequests, n)
      /\ index' = [index EXCEPT ![n] = nextToolCallIndex]
      /\ nextToolCallIndex' = nextToolCallIndex + 1
      /\ announced' = [announced EXCEPT ![n] = @ + 1]
      /\ UNCHANGED <<options, predictionsPerformed, currentCallId, hasCalledUnimplementedTool, chat,
                     prediction, toolCallResults>>
  BY DEF ToolCallGenerationEnd
<1> DEFINE q == toolCallRequests
           R == ToSet(toolCallRequests)
<1> HIDE DEF n
<1>4. /\ q' \in Seq(Call) /\ Len(q) \in Nat /\ DOMAIN q = 1..Len(q) /\ DOMAIN q' = 1..(Len(q) + 1)
      /\ \A i \in 1..Len(q) : q'[i] = q[i]
      /\ q'[Len(q) + 1] = n
      /\ R' = R \cup {n}
  BY <1>1, <1>3, AppendFacts DEF ActTypeOK
<1>5. /\ \A d \in Call : calls'[d] = IF d = n THEN to ELSE calls[d]
      /\ \A d \in Call : index'[d] = IF d = n THEN nextToolCallIndex ELSE index[d]
      /\ \A d \in Call : announced'[d] = IF d = n THEN announced[d] + 1 ELSE announced[d]
      /\ R \subseteq Call /\ \A i \in DOMAIN q : q[i] \in R
  BY <1>1, <1>2, <1>3, ToSetType DEF ActTypeOK, ToSet
<1>6. \A c \in R : c < n /\ index[c] < nextToolCallIndex /\ calls[c] \in Waiting \cup Final
  BY <1>1 DEF RequestsInv, ResultsInv, n
<1>7. ActTypeOK'
  <2>1. index' \in [Call -> Nat] /\ announced' \in [Call -> Nat] /\ nextToolCallIndex' \in Nat
    BY <1>1, <1>3 DEF ActTypeOK
  <2>2. QED
    BY <1>3, <1>4, <2>1 DEF ActTypeOK
<1>8. \A c \in R : c \in Int /\ index[c] \in Int /\ c # n /\ ~(n < c) /\ index'[c] = index[c]
  <2>1. n \in Int /\ R \subseteq Int
    BY <1>1, <1>5, CallType
  <2>2. \A c \in R : c # n /\ ~(n < c)
    BY <1>6, <2>1
  <2>3. \A c \in R : index[c] \in Nat
    BY <1>5 DEF ActTypeOK
  <2>4. QED
    BY <1>5, <2>1, <2>2, <2>3
<1>9. RequestsInv'
  <2>1. \A i, j \in DOMAIN q' : i < j => q'[i] < q'[j]
    BY <1>4, <1>5, <1>6 DEF RequestsInv
  <2>2. \A c \in R' : c <= n /\ index'[c] < nextToolCallIndex'
    <3>1. \A c \in R : c # n /\ index'[c] = index[c]
      BY <1>8
    <3>2. index'[n] = nextToolCallIndex /\ nextToolCallIndex \in Nat
      BY <1>1, <1>5 DEF ActTypeOK
    <3>3. \A c \in R : c <= n /\ index[c] < nextToolCallIndex + 1
      <4>1. \A c \in R : c \in Int /\ n \in Int /\ index[c] \in Int
        BY <1>1, <1>8, CallType
      <4>2. QED
        BY <1>6, <3>2, <4>1
    <3>4. n <= n
      BY <1>1, CallType
    <3>5. QED
      BY <1>3, <1>4, <3>1, <3>2, <3>3, <3>4
  <2>3. \A c, d \in R' : c < d => index'[c] < index'[d]
    <3>1. \A c \in R : c # n /\ index'[c] = index[c] /\ ~(n < c)
      BY <1>8
    <3>2. index'[n] = nextToolCallIndex /\ ~(n < n)
      BY <1>1, <1>5, CallType
    <3>3. \A c, d \in R : c < d => index[c] < index[d]
      BY DEF RequestsInv
    <3>4. QED
      BY <1>4, <1>6, <3>1, <3>2, <3>3
  <2>4. QED
    BY <1>3, <2>1, <2>2, <2>3 DEF RequestsInv, n
<1>10. ResultsInv'
  <2>1. n \notin R /\ n \notin ToSet(toolCallResults) /\ to \in Waiting \cup Final /\ to # "answered"
    BY <1>1, <1>6 DEF ResultsInv, Waiting, Final
  <2>2. \A c \in R' : calls'[c] \in Waiting \cup Final
    BY <1>1, <1>4, <1>5, <1>6, <2>1
  <2>3. \A c \in Call : calls'[c] \in Waiting => c \in R'
    BY <1>4, <1>5 DEF ResultsInv
  <2>4. \A c \in Call : c \in ToSet(toolCallResults) <=> c \in R' /\ calls'[c] = "answered"
    BY <1>1, <1>4, <1>5, <2>1 DEF ResultsInv
  <2>5. QED
    BY <1>3, <2>2, <2>3, <2>4 DEF ResultsInv
<1>11. PhaseInv'
  <2>1. UNCHANGED <<Contract!Requested, Contract!Rounds, allowTools>>
    BY <1>3 DEF Contract!Requested, Contract!Rounds, allowTools
  <2>2. \A d \in Contract!Requested : d < n
    BY <1>1 DEF PhaseInv, n
  <2>3. \A c \in R', d \in Contract!Requested : c > d
    <3>1. Contract!Requested \subseteq Call
      BY RequestedCalls DEF ActTypeOK
    <3>2. \A c \in R, d \in Contract!Requested : c > d
      BY <1>3 DEF PhaseInv
    <3>3. QED
      BY <1>1, <1>4, <2>2, <3>1, <3>2, CallType
  <2>4. allowTools /\ act # "resolved"
    BY <1>1, <1>3 DEF PhaseInv
  <2>5. QED
    BY <1>2, <1>3, <2>1, <2>3, <2>4 DEF PhaseInv
<1>12. AnswersInv' /\ EndsWithAnswer'
  <2>1. \A d \in Call : calls[d] \in Final => calls'[d] = calls[d]
    BY <1>1, <1>5 DEF Final
  <2>2. QED
    BY <1>2, <1>3, <2>1, ChatStays DEF ActTypeOK
<1>13. PairedInv'
  <2>1. announced[n] = 0 /\ 0 + 1 = 1
    BY <1>1, CallType DEF PairedInv, n
  <2>2. QED
    BY <1>1, <1>3, <1>5, <2>1, CallType DEF PairedInv, n
<1>14. QED
  BY <1>7, <1>9, <1>10, <1>11, <1>12, <1>13

(* The call that is generated comes to nothing. *)
LEMMA NoRequestKeeps ==
    ASSUME ActInv, IInv', isGeneratingToolCall, isGeneratingToolCall' = FALSE,
           NEW to \in {"handlingUnparsed", "dropped"},
           calls' = [calls EXCEPT ![currentCallId] = to],
           announced' = [announced EXCEPT ![currentCallId] = @ + 1],
           act' \in {act, "rejected"}, prediction = "generating",
           prediction' \in {"generating", "failed"},
           UNCHANGED <<options, predictionsPerformed, currentCallId, hasCalledUnimplementedTool, chat,
                       index, toolCallRequests, resultVars>>
    PROVE  ActInv'
<1> USE DEF ActInv
<1> DEFINE n == currentCallId
<1>1. n \in Call /\ calls \in [Call -> States] /\ calls[n] = "generating"
  BY DEF IInv, QueueTypeOK, NumberedInv
<1>2. /\ \A d \in Call : calls'[d] = IF d = n THEN to ELSE calls[d]
      /\ \A d \in Call : announced'[d] = IF d = n THEN announced[d] + 1 ELSE announced[d]
      /\ ToSet(toolCallRequests) \subseteq Call
  BY <1>1, ToSetType DEF ActTypeOK
<1> HIDE DEF n
<1>3. ActTypeOK'
  <2>1. announced' \in [Call -> Nat]
    BY <1>1 DEF ActTypeOK, n
  <2>2. QED
    BY <2>1 DEF ActTypeOK, resultVars
<1>4. RequestsInv'
  BY DEF RequestsInv, resultVars
<1>5. ResultsInv'
  <2>1. /\ \A d \in Call : calls'[d] \in Waiting <=> calls[d] \in Waiting
        /\ \A d \in Call : calls'[d] \in Final <=> calls[d] \in Final
        /\ \A d \in Call : calls'[d] = "answered" <=> calls[d] = "answered"
    BY <1>1, <1>2 DEF Waiting, Final
  <2>2. QED
    BY <1>2, <2>1 DEF ResultsInv, resultVars
<1>6. PhaseInv'
  <2>1. UNCHANGED <<Contract!Requested, Contract!Rounds, allowTools>>
    BY DEF Contract!Requested, Contract!Rounds, allowTools
  <2>2. act # "resolved"
    BY DEF PhaseInv
  <2>3. QED
    BY <2>1, <2>2 DEF PhaseInv
<1>7. AnswersInv' /\ EndsWithAnswer'
  <2>1. \A d \in Call : calls[d] \in Final => calls'[d] = calls[d]
    BY <1>1, <1>2 DEF Final
  <2>2. QED
    BY <2>1, ChatStays DEF ActTypeOK
<1>8. PairedInv'
  <2>1. announced[n] = 0 /\ 0 + 1 = 1
    BY <1>1, CallType DEF PairedInv, n
  <2>2. QED
    BY <1>1, <1>2, <2>1, CallType DEF PairedInv, n
<1>9. QED
  BY <1>3, <1>4, <1>5, <1>6, <1>7, <1>8

(* The prediction is over, with no call being generated. *)
LEMMA PredictionOverKeeps ==
    ASSUME ActInv, IInv', ~isGeneratingToolCall, isGeneratingToolCall' = FALSE,
           act' \in {act, "rejected"}, prediction = "generating", prediction' \in {"ended", "failed"},
           UNCHANGED <<options, predictionsPerformed, currentCallId, hasCalledUnimplementedTool, chat,
                       calls, index, toolCallRequests, resultVars, announced>>
    PROVE  ActInv'
<1> USE DEF ActInv
<1>1. ActTypeOK' /\ RequestsInv' /\ ResultsInv'
  BY DEF ActTypeOK, RequestsInv, ResultsInv, resultVars
<1>2. PhaseInv'
  <2>1. UNCHANGED <<Contract!Requested, Contract!Rounds, allowTools>>
    BY DEF Contract!Requested, Contract!Rounds, allowTools
  <2>2. act # "resolved"
    BY DEF PhaseInv
  <2>3. QED
    BY <2>1, <2>2 DEF PhaseInv
<1>3. AnswersInv' /\ EndsWithAnswer'
  BY ChatStays DEF ActTypeOK
<1>4. PairedInv'
  BY DEF PairedInv
<1>5. QED
  BY <1>1, <1>2, <1>3, <1>4

LEMMA ModelStepKeepsChat ==
    ASSUME ActInv, ModelStep, IInv'
    PROVE  ActInv'
<1>1. CASE ToolCallGenerationStart
  BY <1>1, StartKeeps
<1>2. CASE ToolCallGenerationEnd
  BY <1>2, EndKeeps
<1>3. CASE ToolCallGenerationFailed
  BY <1>3, NoRequestKeeps DEF ToolCallGenerationFailed, actVars
<1>4. CASE PredictionFails
  <2>1. act' \in {act, "rejected"}
    BY <1>4 DEF PredictionFails, ActRejects
  <2>2. CASE isGeneratingToolCall
    BY <1>4, <2>1, <2>2, NoRequestKeeps DEF PredictionFails
  <2>3. CASE ~isGeneratingToolCall
    BY <1>4, <2>1, <2>3, PredictionOverKeeps DEF PredictionFails
  <2>4. QED
    BY <2>2, <2>3
<1>5. CASE PredictionEnds
  <2>1. isGeneratingToolCall' = FALSE
    BY <1>5 DEF PredictionEnds, ActInv, IInv, QueueTypeOK
  <2>2. QED
    BY <1>5, <2>1, PredictionOverKeeps DEF PredictionEnds, actVars, seenVars
<1>6. QED
  BY <1>1, <1>2, <1>3, <1>4, <1>5 DEF ModelStep

-----------------------------------------------------------------------------
(* The sort of the results.                                                *)

(* Different numbers can be sorted: the place of each is how many are not  *)
(* above it.                                                               *)
LEMMA SortExists ==
    ASSUME NEW n \in Nat, NEW v \in [1..n -> Int], \A i, j \in 1..n : v[i] = v[j] => i = j
    PROVE  \E p \in [1..n -> 1..n] :
             /\ \A i, j \in 1..n : p[i] = p[j] => i = j
             /\ \A i, j \in 1..n : i < j => v[p[i]] < v[p[j]]
<1> DEFINE D == 1..n
           UpTo(k) == {j \in D : v[j] <= v[k]}
           place == [k \in D |-> Cardinality(UpTo(k))]
<1>1. IsFiniteSet(D) /\ Cardinality(D) = n
  BY FS_Interval
<1>2. \A k \in D : /\ IsFiniteSet(UpTo(k)) /\ Cardinality(UpTo(k)) \in Nat
                   /\ Cardinality(UpTo(k)) <= n /\ k \in UpTo(k)
  <2> SUFFICES ASSUME NEW k \in D
               PROVE  /\ IsFiniteSet(UpTo(k)) /\ Cardinality(UpTo(k)) \in Nat
                      /\ Cardinality(UpTo(k)) <= n /\ k \in UpTo(k)
    OBVIOUS
  <2>1. UpTo(k) \in SUBSET D /\ k \in UpTo(k)
    OBVIOUS
  <2> HIDE DEF UpTo, D
  <2>2. IsFiniteSet(UpTo(k)) /\ Cardinality(UpTo(k)) <= Cardinality(D)
    BY <1>1, <2>1, FS_Subset
  <2>3. QED
    BY <1>1, <2>1, <2>2, FS_CardinalityType
<1>3. \A k \in D : Cardinality(UpTo(k)) \in D
  <2> SUFFICES ASSUME NEW k \in D PROVE Cardinality(UpTo(k)) \in D
    OBVIOUS
  <2>1. /\ IsFiniteSet(UpTo(k)) /\ k \in UpTo(k)
        /\ Cardinality(UpTo(k)) \in Nat /\ Cardinality(UpTo(k)) <= n
    BY <1>2
  <2> HIDE DEF UpTo
  <2>2. Cardinality(UpTo(k)) # 0
    BY <2>1, FS_EmptySet
  <2>3. QED
    BY <2>1, <2>2
<1>4. place \in [D -> D]
  <2> HIDE DEF UpTo
  <2>1. QED
    BY <1>3
<1>5. \A k, l \in D : v[k] < v[l] => place[k] < place[l]
  <2> SUFFICES ASSUME NEW k \in D, NEW l \in D, v[k] < v[l] PROVE place[k] < place[l]
    OBVIOUS
  <2>1. UpTo(k) \in SUBSET UpTo(l) /\ l \in UpTo(l) /\ l \notin UpTo(k)
    OBVIOUS
  <2>2. /\ IsFiniteSet(UpTo(l)) /\ Cardinality(UpTo(l)) \in Nat /\ Cardinality(UpTo(k)) \in Nat
        /\ place[k] = Cardinality(UpTo(k)) /\ place[l] = Cardinality(UpTo(l))
    BY <1>2
  <2> HIDE DEF UpTo, D, place
  <2>3. /\ Cardinality(UpTo(k)) <= Cardinality(UpTo(l))
        /\ Cardinality(UpTo(l)) = Cardinality(UpTo(k)) => UpTo(l) = UpTo(k)
    BY <2>1, <2>2, FS_Subset
  <2>4. QED
    BY <2>1, <2>2, <2>3
<1>6. \A k, l \in D : place[k] = place[l] => k = l
  <2> SUFFICES ASSUME NEW k \in D, NEW l \in D, place[k] = place[l] PROVE k = l
    OBVIOUS
  <2>1. place[k] \in Int /\ v[k] \in Int /\ v[l] \in Int
    BY <1>4
  <2> HIDE DEF place
  <2>2. ~(v[k] < v[l]) /\ ~(v[l] < v[k])
    BY <1>5, <2>1
  <2>3. QED
    BY <2>1, <2>2
<1> HIDE DEF place, UpTo
<1>7. \A i \in D : \E k \in D : place[k] = i
  <2>1. place \in Injection(D, D)
    BY <1>4, <1>6 DEF Injection, IsInjective
  <2> HIDE DEF D
  <2>2. place \in Surjection(D, D)
    BY <1>1, <2>1, FS_Injection
  <2>3. QED
    BY <2>2 DEF Surjection
<1> DEFINE p == [i \in D |-> CHOOSE k \in D : place[k] = i]
<1>8. p \in [D -> D] /\ \A i \in D : place[p[i]] = i
  BY <1>7
<1> HIDE DEF p
<1>9. \A i, j \in D : p[i] = p[j] => i = j
  BY <1>8
<1>10. \A i, j \in D : i < j => v[p[i]] < v[p[j]]
  <2> SUFFICES ASSUME NEW i \in D, NEW j \in D, i < j PROVE v[p[i]] < v[p[j]]
    OBVIOUS
  <2>1. p[i] \in D /\ p[j] \in D /\ p[i] # p[j] /\ place[p[i]] = i /\ place[p[j]] = j
    BY <1>8, <1>9
  <2>2. ~(v[p[j]] < v[p[i]])
    BY <1>5, <2>1
  <2>3. v[p[i]] \in Int /\ v[p[j]] \in Int /\ v[p[i]] # v[p[j]]
    BY <2>1
  <2>4. QED
    BY <2>2, <2>3
<1>11. QED
  BY <1>8, <1>9, <1>10

(* The results sorted by index are all of the results, in the order of     *)
(* their numbers.                                                          *)
LEMMA ResultsSorted ==
    ASSUME ActInv
    PROVE  /\ ResultsInOrder \in Seq(Call) /\ Len(ResultsInOrder) = Len(toolCallResults)
           /\ ToSet(ResultsInOrder) = ToSet(toolCallResults)
           /\ \A i, j \in DOMAIN ResultsInOrder : i < j => ResultsInOrder[i] < ResultsInOrder[j]
<1> DEFINE r == toolCallResults
           n == Len(r)
           D == 1..n
           v == [i \in D |-> index[r[i]]]
           Sorts(p) == \A i, j \in DOMAIN p : i < j => index[r[p[i]]] <= index[r[p[j]]]
           order == CHOOSE p \in SetToSeqs(DOMAIN r) : Sorts(p)
<1>1. /\ r \in Seq(Call) /\ n \in Nat /\ DOMAIN r = D /\ \A i \in D : r[i] \in Call
      /\ \A i \in D : index[r[i]] \in Nat
  BY DEF ActInv, ActTypeOK
<1>2. \A i, j \in D : i # j => r[i] # r[j] /\ (r[i] < r[j] => index[r[i]] < index[r[j]])
  <2>1. \A i \in D : r[i] \in ToSet(r)
    BY <1>1 DEF ToSet
  <2>2. \A i \in D : r[i] \in ToSet(toolCallRequests)
    BY <1>1, <2>1 DEF ActInv, ResultsInv
  <2>3. QED
    BY <1>1, <2>2 DEF ActInv, ResultsInv, RequestsInv
<1> HIDE DEF r, n
<1>3. \A i, j \in D : v[i] = v[j] => i = j
  <2> SUFFICES ASSUME NEW i \in D, NEW j \in D, v[i] = v[j], i # j PROVE FALSE
    OBVIOUS
  <2>1. r[i] \in Int /\ r[j] \in Int /\ index[r[i]] \in Nat /\ index[r[i]] = index[r[j]]
    BY <1>1, CallType
  <2>2. r[i] # r[j] /\ ~(r[i] < r[j]) /\ ~(r[j] < r[i])
    BY <1>2, <2>1
  <2>3. QED
    BY <2>1, <2>2
<1>4. v \in [D -> Int]
  BY <1>1
<1>5. \E p \in [D -> D] : /\ \A i, j \in D : p[i] = p[j] => i = j
                          /\ \A i, j \in D : i < j => v[p[i]] < v[p[j]]
  <2> HIDE DEF v
  <2>1. QED
    BY <1>1, <1>3, <1>4, SortExists
<1>6. Cardinality(D) = n /\ IsFiniteSet(D)
  BY <1>1, FS_Interval
<1>7. SetToSeqs(D) = {p \in [D -> D] : \A i, j \in D : i # j => p[i] # p[j]}
  BY <1>6 DEF SetToSeqs
<1>8. \E p \in SetToSeqs(D) : Sorts(p)
  <2>1. PICK p \in [D -> D] : /\ \A i, j \in D : p[i] = p[j] => i = j
                              /\ \A i, j \in D : i < j => v[p[i]] < v[p[j]]
    BY <1>5
  <2>2. p \in SetToSeqs(D)
    BY <1>7, <2>1
  <2>3. Sorts(p)
    <3> SUFFICES ASSUME NEW i \in D, NEW j \in D, i < j
                 PROVE  index[r[p[i]]] <= index[r[p[j]]]
      BY <2>1
    <3>1. p[i] \in D /\ p[j] \in D /\ v[p[i]] < v[p[j]]
      BY <2>1
    <3>2. v[p[i]] = index[r[p[i]]] /\ v[p[j]] = index[r[p[j]]]
      BY <3>1
    <3>3. index[r[p[i]]] \in Nat /\ index[r[p[j]]] \in Nat
      BY <1>1, <3>1
    <3>4. QED
      BY <3>1, <3>2, <3>3
  <2>4. QED
    BY <2>2, <2>3
<1>9. order \in SetToSeqs(D) /\ Sorts(order)
  <2> HIDE DEF Sorts
  <2>1. QED
    BY <1>1, <1>8
<1>10. ResultsInOrder = [i \in D |-> r[order[i]]]
  BY <1>1 DEF ResultsInOrder, r
<1> HIDE DEF order
<1>11. order \in [D -> D] /\ \A i, j \in D : order[i] = order[j] => i = j
  BY <1>7, <1>9
<1>12. \A k \in D : \E i \in D : order[i] = k
  <2>1. order \in Injection(D, D)
    BY <1>11 DEF Injection, IsInjective
  <2> HIDE DEF D
  <2>2. order \in Surjection(D, D)
    BY <1>6, <2>1, FS_Injection
  <2>3. QED
    BY <2>2 DEF Surjection
<1> DEFINE s == [i \in D |-> r[order[i]]]
<1>13. s \in Seq(Call) /\ Len(s) = n /\ DOMAIN s = D
  BY <1>1, <1>11
<1>14. ToSet(s) = ToSet(r)
  <2>1. \A i \in D : s[i] = r[order[i]] /\ order[i] \in D
    BY <1>11
  <2>2. DOMAIN s = D /\ DOMAIN r = D
    BY <1>1, <1>13
  <2> HIDE DEF s, D
  <2>3. ASSUME NEW k \in D PROVE \E i \in D : s[i] = r[k]
    <3>1. PICK i \in D : order[i] = k
      BY <1>12
    <3>2. QED
      BY <2>1, <3>1
  <2>4. \A x \in ToSet(s) : x \in ToSet(r)
    BY <2>1, <2>2 DEF ToSet
  <2>5. \A x \in ToSet(r) : x \in ToSet(s)
    BY <2>2, <2>3 DEF ToSet
  <2>6. QED
    BY <2>4, <2>5
<1>15. \A i, j \in D : i < j => s[i] < s[j]
  <2> SUFFICES ASSUME NEW i \in D, NEW j \in D, i < j
               PROVE  r[order[i]] < r[order[j]]
    OBVIOUS
  <2>1. order[i] \in D /\ order[j] \in D /\ order[i] # order[j]
    BY <1>11
  <2>2. index[r[order[i]]] <= index[r[order[j]]]
    BY <1>9, <1>11
  <2>3. /\ r[order[i]] \in Int /\ r[order[j]] \in Int /\ r[order[i]] # r[order[j]]
        /\ index[r[order[i]]] \in Nat /\ index[r[order[j]]] \in Nat
        /\ r[order[j]] < r[order[i]] => index[r[order[j]]] < index[r[order[i]]]
    BY <1>1, <1>2, <2>1, CallType
  <2>4. QED
    BY <2>2, <2>3
<1>16. QED
  BY <1>10, <1>13, <1>14, <1>15 DEF r, n

-----------------------------------------------------------------------------
(* The steps that write to the chat.                                       *)

LEMMA ChatAppends ==
    ASSUME NEW m \in AnyMessage, chat \in Seq(AnyMessage), chat' = Append(chat, m)
    PROVE  /\ chat' \in Seq(AnyMessage) /\ Len(chat') = Len(chat) + 1 /\ Len(chat) \in Nat
           /\ DOMAIN chat = 1..Len(chat) /\ DOMAIN chat' = 1..(Len(chat) + 1)
           /\ \A i \in 1..Len(chat) : chat'[i] = chat[i]
           /\ chat'[Len(chat) + 1] = m /\ Last(chat') = m /\ chat' # <<>>
           /\ Contract!Requested' = Contract!Requested \cup ToSet(m.calls)
           /\ Contract!Rounds' =
                IF m.role = "assistant" THEN Contract!Rounds + 1 ELSE Contract!Rounds
<1>1. /\ chat' \in Seq(AnyMessage) /\ Len(chat') = Len(chat) + 1 /\ Len(chat) \in Nat
      /\ DOMAIN chat = 1..Len(chat) /\ DOMAIN chat' = 1..(Len(chat) + 1)
      /\ \A i \in 1..Len(chat) : chat'[i] = chat[i]
      /\ chat'[Len(chat) + 1] = m
  BY AppendFacts
<1>2. Last(chat') = m /\ chat' # <<>>
  BY <1>1 DEF Last
<1>3. Contract!Requested' = Contract!Requested \cup ToSet(m.calls)
  BY <1>1 DEF Contract!Requested, Contract!ToSet, ToSet
<1> DEFINE A == {i \in DOMAIN chat : chat[i].role = "assistant"}
<1>4. IsFiniteSet(A)
  <2>1. IsFiniteSet(DOMAIN chat)
    BY <1>1, FS_Interval
  <2>2. QED
    BY <2>1, FS_Subset
<1>5. A' = IF m.role = "assistant" THEN A \cup {Len(chat) + 1} ELSE A
  BY <1>1
<1>6. Len(chat) + 1 \notin A
  BY <1>1
<1>7. Contract!Rounds = Cardinality(A)
  BY DEF Contract!Rounds, Contract!Cardinality, Cardinality
<1>8. Contract!Rounds' = Cardinality(A')
  BY DEF Contract!Rounds, Contract!Cardinality, Cardinality
<1> HIDE DEF A
<1>9. Cardinality(A \cup {Len(chat) + 1}) = Cardinality(A) + 1
  BY <1>4, <1>6, FS_AddElement
<1>10. QED
  BY <1>1, <1>2, <1>3, <1>5, <1>7, <1>8, <1>9

LEMMA AppendKeeps ==
    ASSUME ActInv, AppendAssistantMessage, IInv'
    PROVE  ActInv'
<1> USE DEF ActInv
<1> DEFINE m == [role |-> "assistant", calls |-> toolCallRequests]
<1>1. /\ prediction = "ended" /\ prediction' = "appended" /\ chat' = Append(chat, m)
      /\ UNCHANGED <<act, predictionsPerformed, currentCallId, hasCalledUnimplementedTool, calls, index,
                     isGeneratingToolCall, toolCallRequests, nextToolCallIndex, toolCallResults, announced>>
  BY DEF AppendAssistantMessage, resultVars, seenVars
<1>2. /\ m \in AnyMessage /\ chat \in Seq(AnyMessage)
      /\ m.role = "assistant" /\ m.calls = toolCallRequests
  BY DEF ActTypeOK, AnyMessage
<1>3. /\ chat' \in Seq(AnyMessage) /\ Len(chat') = Len(chat) + 1 /\ Len(chat) \in Nat
      /\ DOMAIN chat = 1..Len(chat) /\ DOMAIN chat' = 1..(Len(chat) + 1)
      /\ \A i \in 1..Len(chat) : chat'[i] = chat[i]
      /\ chat'[Len(chat) + 1] = m /\ Last(chat') = m /\ chat' # <<>>
      /\ Contract!Requested' = Contract!Requested \cup ToSet(toolCallRequests)
      /\ Contract!Rounds' = Contract!Rounds + 1
  BY <1>1, <1>2, ChatAppends
<1>4. ~isGeneratingToolCall /\ act # "resolved"
  BY <1>1 DEF RequestsInv, PhaseInv, IInv, QueueTypeOK
<1>5. ActTypeOK' /\ RequestsInv' /\ ResultsInv' /\ PairedInv' /\ EndsWithAnswer'
  BY <1>1, <1>3, <1>4 DEF ActTypeOK, RequestsInv, ResultsInv, PairedInv, EndsWithAnswer
<1>6. PhaseInv'
  <2>1. \A d \in Contract!Requested' : d <= currentCallId
    BY <1>3 DEF PhaseInv, RequestsInv
  <2>2. Contract!Rounds' = predictionsPerformed + 1
    BY <1>1, <1>3 DEF PhaseInv
  <2>3. UNCHANGED allowTools
    BY <1>1 DEF allowTools
  <2>4. QED
    BY <1>1, <1>3, <1>4, <2>1, <2>2, <2>3 DEF PhaseInv
<1>7. AnswersInv'
  <2> SUFFICES ASSUME NEW i \in DOMAIN chat', chat'[i].role = "assistant"
               PROVE  /\ i < Len(chat') => \A c \in ToSet(chat'[i].calls) : calls'[c] \in Final
                      /\ i < Len(chat') => \A c \in Call : c \in ToSet(chat'[i + 1].calls)
                            <=> c \in ToSet(chat'[i].calls) /\ calls'[c] = "answered"
    BY <1>1, <1>4 DEF AnswersInv
  <2>1. CASE i = Len(chat) + 1
    BY <1>3, <2>1
  <2>2. CASE i \in 1..Len(chat)
    <3>1. chat'[i] = chat[i] /\ chat # <<>> /\ Last(chat) = chat[Len(chat)] /\ Last(chat).role = "tool"
      BY <1>1, <1>3, <2>2 DEF PhaseInv, Last
    <3>2. i # Len(chat)
      BY <3>1
    <3>3. i < Len(chat) /\ i + 1 \in 1..Len(chat)
      BY <1>3, <2>2, <3>2
    <3>4. chat'[i + 1] = chat[i + 1]
      BY <1>3, <3>3
    <3>5. QED
      BY <1>1, <1>3, <2>2, <3>1, <3>3, <3>4 DEF AnswersInv
  <2>3. QED
    BY <1>3, <2>1, <2>2
<1>8. QED
  BY <1>5, <1>6, <1>7

(* A round that starts has no request and no result. *)
LEMMA StartRoundEffect ==
    ASSUME ActInv, StartRound, ~isGeneratingToolCall, Pending = {},
           UNCHANGED <<currentCallId, calls, index, announced>>
    PROVE  /\ toolCallRequests' \in Seq(Call) /\ toolCallResults' \in Seq(Call) /\ nextToolCallIndex' \in Nat
           /\ RequestsInv' /\ ResultsInv' /\ PairedInv' /\ ~isGeneratingToolCall'
           /\ \/ /\ prediction' = "generating" /\ toolCallRequests' = <<>> /\ act' = act
              \/ prediction' = "over" /\ act' = "rejected"
<1> USE DEF ActInv
<1>1. \A c \in Call : calls[c] \notin Waiting
  BY DEF Pending, Waiting
<1>2. CASE /\ prediction' = "generating" /\ isGeneratingToolCall' = FALSE
           /\ toolCallRequests' = <<>> /\ toolCallResults' = <<>> /\ nextToolCallIndex' = 0
           /\ UNCHANGED act
  <2>1. <<>> \in Seq(Call)
    OBVIOUS
  <2>2. RequestsInv' /\ ResultsInv'
    BY <1>1, <1>2, EmptyToSet DEF RequestsInv, ResultsInv
  <2>3. PairedInv'
    BY <1>2 DEF PairedInv
  <2>4. QED
    BY <1>2, <2>1, <2>2, <2>3
<1>3. CASE /\ prediction' = "over" /\ act' = "rejected"
           /\ UNCHANGED <<isGeneratingToolCall, toolCallRequests, resultVars>>
  <2>1. RequestsInv' /\ ResultsInv' /\ PairedInv'
    BY <1>1, <1>3 DEF RequestsInv, ResultsInv, PairedInv, resultVars
  <2>2. QED
    BY <1>3, <2>1 DEF ActTypeOK, resultVars
<1>4. QED
  BY <1>2, <1>3 DEF StartRound

LEMMA BeginKeeps ==
    ASSUME ActInv, Begin, IInv'
    PROVE  ActInv'
<1> USE DEF ActInv
<1>1. /\ prediction = "none" /\ StartRound
      /\ UNCHANGED <<predictionsPerformed, currentCallId, hasCalledUnimplementedTool, chat, calls, index,
                     announced>>
  BY DEF Begin, seenVars
<1>2. ~isGeneratingToolCall /\ act # "resolved"
  BY <1>1 DEF RequestsInv, PhaseInv
<1>3. Pending = {}
  <2>1. \A c \in Call : calls[c] = "none"
    BY <1>1, CallType, ActLoopAssumption DEF IInv, NumberedInv, Call
  <2>2. QED
    BY <2>1 DEF Pending
<1>4. /\ toolCallRequests' \in Seq(Call) /\ toolCallResults' \in Seq(Call) /\ nextToolCallIndex' \in Nat
      /\ RequestsInv' /\ ResultsInv' /\ PairedInv' /\ ~isGeneratingToolCall'
      /\ \/ prediction' = "generating" /\ toolCallRequests' = <<>> /\ act' = act
         \/ prediction' = "over" /\ act' = "rejected"
  BY <1>1, <1>2, <1>3, StartRoundEffect
<1>5. ActTypeOK'
  BY <1>1, <1>4 DEF ActTypeOK
<1>6. PhaseInv'
  <2>1. UNCHANGED <<Contract!Requested, Contract!Rounds, allowTools>>
    BY <1>1 DEF Contract!Requested, Contract!Rounds, allowTools
  <2>2. QED
    BY <1>1, <1>2, <1>4, <2>1, EmptyToSet DEF PhaseInv
<1>7. AnswersInv' /\ EndsWithAnswer'
  BY <1>1, <1>2, <1>4, ChatStays DEF ActTypeOK
<1>8. QED
  BY <1>4, <1>5, <1>6, <1>7

(* The calls of a round that ends are settled, and its results answer its  *)
(* requests.                                                               *)
LEMMA RoundFacts ==
    ASSUME ActInv, RoundEnds
    PROVE  /\ prediction = "appended" /\ act = "running" /\ Pending = {} /\ ~isGeneratingToolCall
           /\ chat # <<>> /\ Last(chat) = [role |-> "assistant", calls |-> toolCallRequests]
           /\ Contract!Rounds = predictionsPerformed + 1
           /\ \A c \in ToSet(toolCallRequests) : calls[c] \in Final
           /\ ~allowTools => toolCallRequests = <<>> /\ toolCallResults = <<>>
           /\ ToSet(toolCallResults) \subseteq ToSet(toolCallRequests)
           /\ toolCallResults # <<>> => ToSet(toolCallResults) # {}
<1> USE DEF ActInv
<1>1. prediction = "appended" /\ act = "running" /\ Pending = {}
  BY DEF RoundEnds
<1>2. /\ ~isGeneratingToolCall
      /\ chat # <<>> /\ Last(chat) = [role |-> "assistant", calls |-> toolCallRequests]
      /\ Contract!Rounds = predictionsPerformed + 1
      /\ ~allowTools => toolCallRequests = <<>>
  BY <1>1 DEF RequestsInv, PhaseInv
<1>3. /\ ToSet(toolCallRequests) \subseteq Call /\ ToSet(toolCallResults) \subseteq Call
      /\ ToSet(toolCallResults) = {} <=> toolCallResults = <<>>
  BY ToSetType DEF ActTypeOK
<1>4. \A c \in ToSet(toolCallRequests) : calls[c] \in Final
  BY <1>1, <1>3 DEF ResultsInv, Pending, Waiting
<1>5. ToSet(toolCallResults) \subseteq ToSet(toolCallRequests)
  BY <1>3 DEF ResultsInv
<1>6. toolCallRequests = <<>> => toolCallResults = <<>>
  BY <1>3, <1>5, EmptyToSet
<1>7. QED
  BY <1>1, <1>2, <1>3, <1>4, <1>5, <1>6

(* The act ends with the message the model wrote last. *)
LEMMA LastRoundKeeps ==
    ASSUME ActInv, RoundEnds, toolCallResults = <<>>, IInv'
    PROVE  ActInv' /\ Contract!End
<1> USE DEF ActInv
<1>1. /\ act' = "resolved" /\ prediction' = "over" /\ chat' = chat
      /\ predictionsPerformed' = predictionsPerformed + 1
      /\ UNCHANGED <<currentCallId, hasCalledUnimplementedTool, calls, index, isGeneratingToolCall,
                     toolCallRequests, toolCallResults, nextToolCallIndex, announced>>
  BY DEF RoundEnds, resultVars, seenVars
<1>2. /\ act = "running" /\ Pending = {} /\ ~isGeneratingToolCall
      /\ chat # <<>> /\ Last(chat) = [role |-> "assistant", calls |-> toolCallRequests]
      /\ \A c \in ToSet(toolCallRequests) : calls[c] \in Final
  BY RoundFacts
<1>3. ActTypeOK' /\ RequestsInv' /\ ResultsInv' /\ PairedInv'
  BY <1>1, <1>2 DEF ActTypeOK, RequestsInv, ResultsInv, PairedInv
<1>4. PhaseInv'
  <2>1. UNCHANGED Contract!Requested
    BY <1>1 DEF Contract!Requested
  <2>2. QED
    BY <1>1, <1>2, <2>1 DEF PhaseInv
<1>5. AnswersInv'
  <2>1. \A c \in ToSet(toolCallRequests) : calls[c] # "answered"
    <3>1. ToSet(toolCallRequests) \subseteq Call
      BY ToSetType DEF ActTypeOK
    <3>2. QED
      BY <3>1, EmptyToSet DEF ResultsInv
  <2>2. chat[Len(chat)].calls = toolCallRequests
    BY <1>2 DEF Last
  <2>3. Len(chat) \in Nat /\ DOMAIN chat = 1..Len(chat)
    BY DEF ActTypeOK
  <2>4. QED
    BY <1>1, <1>2, <2>1, <2>2, <2>3 DEF AnswersInv
<1>6. EndsWithAnswer'
  BY <1>1, <1>2 DEF EndsWithAnswer
<1>7. Contract!End
  BY <1>1, <1>2 DEF Contract!End, Contract!Last, Last
<1>8. QED
  BY <1>3, <1>4, <1>5, <1>6, <1>7

(* A round with results answers them all, and another one starts or the    *)
(* act ends.                                                               *)
LEMMA RoundWithResultsKeeps ==
    ASSUME ActInv, RoundEnds, toolCallResults # <<>>, IInv'
    PROVE  ActInv'
<1> USE DEF ActInv
<1> DEFINE m == [role |-> "tool", calls |-> ResultsInOrder]
<1>1. /\ chat' = Append(chat, m) /\ predictionsPerformed' = predictionsPerformed + 1
      /\ UNCHANGED <<currentCallId, hasCalledUnimplementedTool, calls, index, announced>>
  BY DEF RoundEnds, seenVars
<1>2. /\ prediction = "appended" /\ act = "running" /\ Pending = {} /\ ~isGeneratingToolCall
      /\ chat # <<>> /\ Last(chat) = [role |-> "assistant", calls |-> toolCallRequests]
      /\ Contract!Rounds = predictionsPerformed + 1
      /\ \A c \in ToSet(toolCallRequests) : calls[c] \in Final
      /\ allowTools /\ ToSet(toolCallResults) \subseteq ToSet(toolCallRequests)
  BY RoundFacts
<1>3. /\ m \in AnyMessage /\ m.role = "tool" /\ m.calls = ResultsInOrder
      /\ ToSet(m.calls) = ToSet(toolCallResults)
  BY ResultsSorted DEF AnyMessage
<1> HIDE DEF m
<1>4. /\ chat' \in Seq(AnyMessage) /\ Len(chat') = Len(chat) + 1 /\ Len(chat) \in Nat
      /\ DOMAIN chat = 1..Len(chat) /\ DOMAIN chat' = 1..(Len(chat) + 1)
      /\ \A i \in 1..Len(chat) : chat'[i] = chat[i]
      /\ chat'[Len(chat) + 1] = m /\ Last(chat') = m /\ chat' # <<>>
      /\ Contract!Requested' = Contract!Requested \cup ToSet(toolCallResults)
      /\ Contract!Rounds' = Contract!Rounds
  BY <1>1, <1>3, ChatAppends DEF ActTypeOK
<1>5. /\ toolCallRequests' \in Seq(Call) /\ toolCallResults' \in Seq(Call) /\ nextToolCallIndex' \in Nat
      /\ RequestsInv' /\ ResultsInv' /\ PairedInv' /\ ~isGeneratingToolCall'
      /\ \/ /\ MaxPredictionRounds = 0 \/ predictionsPerformed' < MaxPredictionRounds
            /\ prediction' = "generating" /\ toolCallRequests' = <<>> /\ act' = act
         \/ prediction' = "over" /\ act' = "rejected"
         \/ prediction' = "over" /\ act' = "resolved" /\ hasCalledUnimplementedTool
  <2>1. CASE StartRound /\ (MaxPredictionRounds = 0 \/ predictionsPerformed' < MaxPredictionRounds)
    BY <1>1, <1>2, <2>1, StartRoundEffect
  <2>2. CASE /\ ~(MaxPredictionRounds = 0 \/ predictionsPerformed' < MaxPredictionRounds)
                  \/ hasCalledUnimplementedTool
             /\ act' = "resolved" /\ prediction' = "over"
             /\ UNCHANGED <<isGeneratingToolCall, toolCallRequests, resultVars>>
    <3>1. hasCalledUnimplementedTool
      BY <1>1, <1>2, <2>2 DEF allowTools
    <3>2. RequestsInv' /\ ResultsInv' /\ PairedInv'
      BY <1>1, <1>2, <2>2 DEF RequestsInv, ResultsInv, PairedInv, resultVars
    <3>3. QED
      BY <1>2, <2>2, <3>1, <3>2 DEF ActTypeOK, resultVars
  <2>3. QED
    BY <2>1, <2>2 DEF RoundEnds
<1>6. ActTypeOK'
  BY <1>1, <1>4, <1>5 DEF ActTypeOK
<1>7. PhaseInv'
  <2>1. \A d \in Contract!Requested' : d <= currentCallId
    BY <1>2, <1>4 DEF PhaseInv, RequestsInv
  <2>2. Contract!Rounds' = predictionsPerformed'
    BY <1>1, <1>2, <1>4
  <2>3. QED
    BY <1>1, <1>2, <1>3, <1>4, <1>5, <2>1, <2>2, EmptyToSet DEF PhaseInv
<1>8. AnswersInv'
  <2> SUFFICES ASSUME NEW i \in DOMAIN chat', chat'[i].role = "assistant"
               PROVE  /\ i < Len(chat') \/ act' = "resolved" =>
                            \A c \in ToSet(chat'[i].calls) : calls'[c] \in Final
                      /\ i < Len(chat') => \A c \in Call : c \in ToSet(chat'[i + 1].calls)
                            <=> c \in ToSet(chat'[i].calls) /\ calls'[c] = "answered"
                      /\ i = Len(chat') /\ act' = "resolved" =>
                            \A c \in ToSet(chat'[i].calls) : calls'[c] # "answered"
    BY DEF AnswersInv
  <2>1. i \in 1..Len(chat) /\ chat'[i] = chat[i] /\ i < Len(chat') /\ i # Len(chat')
    <3>1. i # Len(chat) + 1
      BY <1>3, <1>4
    <3>2. QED
      BY <1>4, <3>1
  <2>2. CASE i = Len(chat)
    <3>1. chat[i].calls = toolCallRequests
      BY <1>2, <2>2 DEF Last
    <3>2. chat'[i + 1].calls = ResultsInOrder
      BY <1>3, <1>4, <2>2
    <3>3. \A c \in Call : c \in ToSet(ResultsInOrder)
             <=> c \in ToSet(toolCallRequests) /\ calls[c] = "answered"
      BY ResultsSorted DEF ResultsInv
    <3>4. QED
      BY <1>1, <1>2, <2>1, <3>1, <3>2, <3>3
  <2>3. CASE i < Len(chat)
    <3>1. i + 1 \in 1..Len(chat) /\ chat'[i + 1] = chat[i + 1] /\ i \in DOMAIN chat
      BY <1>4, <2>1, <2>3
    <3>2. QED
      BY <1>1, <2>1, <2>3, <3>1 DEF AnswersInv
  <2>4. QED
    BY <1>4, <2>1, <2>2, <2>3
<1>9. EndsWithAnswer'
  BY <1>1, <1>2, <1>5 DEF EndsWithAnswer
<1>10. QED
  BY <1>5, <1>6, <1>7, <1>8, <1>9

LEMMA ActNextKeeps == ActInv /\ [Next]_vars => ActInv'
<1> SUFFICES ASSUME ActInv, [Next]_vars PROVE ActInv'
  OBVIOUS
<1>1. IInv /\ IInv'
  BY NextKeeps DEF ActInv
<1>2. CASE ModelStep
  BY <1>1, <1>2, ModelStepKeepsChat
<1>3. CASE LoopStep
  BY <1>1, <1>3, BeginKeeps, AppendKeeps, LastRoundKeeps, RoundWithResultsKeeps DEF LoopStep
<1>4. CASE UserAborts
  BY <1>1, <1>4, UserAbortsEffect, CallEffectKeeps
<1>5. ASSUME NEW c \in Call, HandlerStep(c) \/ TaskStep(c) PROVE ActInv'
  BY <1>1, <1>5, CallStepEffect, CallEffectKeeps
<1>6. CASE UNCHANGED vars
  <2>1. /\ ActTypeOK' /\ RequestsInv' /\ ResultsInv' /\ PairedInv' /\ EndsWithAnswer' /\ AnswersInv'
    BY <1>6 DEF ActInv, ActTypeOK, RequestsInv, ResultsInv, PairedInv, EndsWithAnswer, AnswersInv,
       vars, actVars, roundVars, requestVars, resultVars, seenVars
  <2>2. UNCHANGED <<Contract!Requested, Contract!Rounds, allowTools>>
    BY <1>6 DEF Contract!Requested, Contract!Rounds, allowTools, vars, actVars
  <2>3. PhaseInv'
    BY <1>6, <2>2 DEF ActInv, PhaseInv, vars, actVars, roundVars, requestVars
  <2>4. QED
    BY <1>1, <2>1, <2>3 DEF ActInv
<1>7. QED
  BY <1>2, <1>3, <1>4, <1>5, <1>6 DEF Next

-----------------------------------------------------------------------------
(* The refinement: every step of the loop is a step of the contract.       *)

LEMMA AscendingCalls ==
    ASSUME NEW s \in Seq(Call), \A i, j \in DOMAIN s : i < j => s[i] < s[j]
    PROVE  s \in Contract!Ascending
<1> DEFINE n == Len(s)
           D == 1..n
<1>1. n \in Nat /\ DOMAIN s = D /\ s \in [D -> Call]
  OBVIOUS
<1>2. \A i, j \in D : s[i] = s[j] => i = j
  <2> SUFFICES ASSUME NEW i \in D, NEW j \in D, s[i] = s[j] PROVE i = j
    OBVIOUS
  <2>1. s[i] \in Int /\ s[j] \in Int
    BY <1>1, CallType
  <2>2. ~(i < j) /\ ~(j < i)
    BY <1>1, <2>1
  <2>3. QED
    BY <1>1, <2>2
<1>3. IsFiniteSet(Call) /\ Cardinality(Call) \in Nat
  <2>1. MaxCalls - 1 \in Int
    BY ActLoopAssumption
  <2>2. QED
    BY <2>1, FS_Interval, FS_CardinalityType DEF Call
<1>4. n <= Cardinality(Call)
  <2>1. s \in Injection(D, Call)
    BY <1>1, <1>2 DEF Injection, IsInjective
  <2>2. Cardinality(D) = n
    BY <1>1, FS_Interval
  <2> HIDE DEF D, n
  <2>3. QED
    BY <1>3, <2>1, <2>2, FS_Injection
<1>5. s \in SeqOf(Call, Cardinality(Call))
  <2>1. n \in 0..Cardinality(Call) /\ s \in [1..n -> Call]
    BY <1>1, <1>3, <1>4
  <2> HIDE DEF n
  <2>2. QED
    BY <2>1 DEF SeqOf
<1>6. Contract!SeqOf(Call, Contract!Cardinality(Call)) = SeqOf(Call, Cardinality(Call))
  BY DEF Contract!SeqOf, SeqOf, Contract!Cardinality, Cardinality
<1>7. QED
  BY <1>5, <1>6 DEF Contract!Ascending

(* A step that leaves the chat may make the act fail, and nothing else.    *)
LEMMA ActFails ==
    ASSUME UNCHANGED chat, act' = act \/ (act = "running" /\ act' = "rejected")
    PROVE  [Contract!Next]_<<chat, act>>
BY DEF Contract!Next, Contract!End

LEMMA RefinementStep ==
    ASSUME ActInv, ActInv', [Next]_vars
    PROVE  [Contract!Next]_<<chat, act>>
<1> act \in {"running", "resolved", "rejected"}
  BY DEF ActInv, IInv, QueueTypeOK
<1>1. CASE ModelStep
  <2>1. UNCHANGED chat
    BY <1>1 DEF ModelStep, ToolCallGenerationStart, ToolCallGenerationEnd, ToolCallGenerationFailed,
       PredictionFails, PredictionEnds, actVars
  <2>2. act' = act \/ (act = "running" /\ act' = "rejected")
    BY <1>1 DEF ModelStep, ToolCallGenerationStart, ToolCallGenerationEnd, ToolCallGenerationFailed,
       PredictionFails, PredictionEnds, actVars, RunInQueue, ActRejects
  <2>3. QED
    BY <2>1, <2>2, ActFails
<1>2. CASE Begin
  <2>1. UNCHANGED chat /\ (act' = act \/ act' = "rejected") /\ act # "resolved"
    BY <1>2 DEF Begin, StartRound, ActInv, PhaseInv
  <2>2. QED
    BY <2>1, ActFails
<1>3. CASE AppendAssistantMessage
  <2>1. /\ chat' = Append(chat, [role |-> "assistant", calls |-> toolCallRequests])
        /\ UNCHANGED act /\ act # "resolved" /\ (chat # <<>> => Last(chat).role = "tool")
        /\ \A c \in ToSet(toolCallRequests), d \in Contract!Requested : c > d
        /\ Contract!Rounds = predictionsPerformed
        /\ MaxPredictionRounds # 0 => predictionsPerformed < MaxPredictionRounds
        /\ ~allowTools => toolCallRequests = <<>>
    BY <1>3 DEF AppendAssistantMessage, ActInv, PhaseInv
  <2>2. toolCallRequests \in Contract!Ascending
    BY AscendingCalls DEF ActInv, ActTypeOK, RequestsInv
  <2>3. MaxPredictionRounds # 0 /\ Contract!Rounds + 1 = MaxPredictionRounds => toolCallRequests = <<>>
    BY <2>1, ActLoopAssumption DEF allowTools, ActInv, ActTypeOK
  <2>4. Contract!Predict(toolCallRequests)
    BY <2>1, <2>3 DEF Contract!Predict, Contract!Wrote, Contract!Last, Last, Contract!ToSet, ToSet
  <2>5. QED
    BY <2>2, <2>4 DEF Contract!Next
<1>4. CASE RoundEnds /\ toolCallResults = <<>>
  BY <1>4, LastRoundKeeps DEF ActInv, Contract!Next
<1>5. CASE RoundEnds /\ toolCallResults # <<>>
  <2>1. /\ chat' = Append(chat, [role |-> "tool", calls |-> ResultsInOrder])
        /\ act = "running" /\ act' \in {"running", "resolved", "rejected"}
    BY <1>5 DEF RoundEnds, ActInv, IInv, QueueTypeOK
  <2>2. /\ chat # <<>> /\ Last(chat) = [role |-> "assistant", calls |-> toolCallRequests]
        /\ ToSet(toolCallResults) \subseteq ToSet(toolCallRequests)
        /\ ToSet(toolCallResults) # {}
    BY <1>5, RoundFacts
  <2>3. ToSet(ResultsInOrder) = ToSet(toolCallResults) /\ ResultsInOrder \in Contract!Ascending
    BY ResultsSorted, AscendingCalls
  <2>4. ResultsInOrder # <<>>
    BY <2>2, <2>3, EmptyToSet
  <2>5. Last(chat).role = "assistant" /\ Last(chat).calls = toolCallRequests
    BY <2>2
  <2>6. Contract!Answer(ResultsInOrder)
    BY <2>1, <2>2, <2>3, <2>4, <2>5
       DEF Contract!Answer, Contract!Wrote, Contract!Last, Last, Contract!ToSet, ToSet
  <2>7. QED
    BY <2>3, <2>6 DEF Contract!Next
<1>6. CASE CallEffect
  BY <1>6, ActFails DEF CallEffect
<1>7. CASE UNCHANGED vars
  BY <1>7 DEF vars, actVars
<1>8. QED
  BY <1>1, <1>2, <1>3, <1>4, <1>5, <1>6, <1>7, UserAbortsEffect, CallStepEffect
     DEF Next, LoopStep, ActInv

LEMMA InitActInv == Init => ActInv
<1> SUFFICES ASSUME Init PROVE ActInv
  OBVIOUS
<1>1. IInv
  BY InitIInv
<1>2. /\ toolCallRequests = <<>> /\ toolCallResults = <<>> /\ chat = <<>> /\ prediction = "none"
      /\ currentCallId = -1 /\ isGeneratingToolCall = FALSE /\ predictionsPerformed = 0
      /\ calls = [c \in Call |-> "none"] /\ act = "running"
  BY DEF Init
<1>3. ActTypeOK
  <2>1. <<>> \in Seq(Call) /\ <<>> \in Seq(AnyMessage)
    OBVIOUS
  <2>2. QED
    BY <2>1 DEF Init, ActTypeOK
<1>4. RequestsInv /\ ResultsInv
  BY <1>2, EmptyToSet DEF RequestsInv, ResultsInv, Waiting
<1>5. PhaseInv
  <2>1. Contract!Requested = {}
    BY <1>2, EmptyToSet DEF Contract!Requested
  <2>2. Contract!Rounds = 0
    <3>1. {i \in DOMAIN chat : chat[i].role = "assistant"} = {}
      BY <1>2, EmptyToSet
    <3>2. Contract!Rounds = Cardinality({})
      BY <3>1 DEF Contract!Rounds, Contract!Cardinality, Cardinality
    <3>3. QED
      BY <3>2, FS_EmptySet
  <2>3. QED
    BY <1>2, <2>1, <2>2, EmptyToSet, ActLoopAssumption DEF PhaseInv
<1>6. AnswersInv /\ EndsWithAnswer
  BY <1>2, EmptyToSet DEF AnswersInv, EndsWithAnswer
<1>7. PairedInv
  BY <1>2, CallType, ActLoopAssumption DEF Init, PairedInv, Call
<1>8. QED
  BY <1>1, <1>3, <1>4, <1>5, <1>6, <1>7 DEF ActInv

LEMMA ActInvHolds == Spec => []ActInv
<1>1. Init => ActInv
  BY InitActInv
<1>2. ActInv /\ [Next]_vars => ActInv'
  BY ActNextKeeps
<1>3. QED
  BY <1>1, <1>2, PTL DEF Spec

(* What the chat, the callbacks and the calls say of each other: every     *)
(* request that got a result is answered, and no other, starts and ends    *)
(* are paired, and the act ends with an answer (internalAct).              *)
THEOREM ChatAgreesHolds == Spec => []ChatAgrees
<1>1. ActInv => ChatAgrees
  <2> SUFFICES ASSUME ActInv PROVE ChatAgrees
    OBVIOUS
  <2>1. AnswersInChat
    <3> SUFFICES ASSUME NEW i \in DOMAIN chat, chat[i].role = "assistant",
                        i < Len(chat) \/ act = "resolved"
                 PROVE  {c \in ToSet(chat[i].calls) : calls[c] = "answered"}
                           = IF i < Len(chat) THEN ToSet(chat[i + 1].calls) ELSE {}
      BY DEF AnswersInChat
    <3>1. chat \in Seq(AnyMessage) /\ Len(chat) \in Nat /\ DOMAIN chat = 1..Len(chat)
      BY DEF ActInv, ActTypeOK
    <3>2. ToSet(chat[i].calls) \subseteq Call
      BY <3>1, MessageCalls
    <3>3. CASE i < Len(chat)
      <4>1. i + 1 \in DOMAIN chat
        BY <3>1, <3>3
      <4>2. ToSet(chat[i + 1].calls) \subseteq Call
        BY <3>1, <4>1, MessageCalls
      <4>3. \A c \in Call : c \in ToSet(chat[i + 1].calls)
               <=> c \in ToSet(chat[i].calls) /\ calls[c] = "answered"
        BY <3>3 DEF ActInv, AnswersInv
      <4>4. QED
        BY <3>2, <3>3, <4>2, <4>3
    <3>4. CASE ~(i < Len(chat))
      <4>1. i = Len(chat) /\ act = "resolved"
        BY <3>1, <3>4
      <4>2. \A c \in ToSet(chat[i].calls) : calls[c] # "answered"
        BY <4>1 DEF ActInv, AnswersInv
      <4>3. QED
        BY <3>4, <4>2
    <3>5. QED
      BY <3>3, <3>4
  <2>2. Paired
    BY DEF ActInv, PairedInv, Paired
  <2>3. QED
    BY <2>1, <2>2 DEF ActInv, ChatAgrees
<1>2. QED
  BY <1>1, ActInvHolds, PTL

(* The chat keeps the contract of act(): requests and answers alternate,   *)
(* answers in the order of the requests although the calls end in any      *)
(* order, and no more rounds than allowed (internalAct's loop).            *)
THEOREM KeepsContractHolds == Spec => KeepsContract
<1>1. Init => Contract!Init
  BY DEF Init, Contract!Init
<1>2. ActInv /\ ActInv' /\ [Next]_vars => [Contract!Next]_<<chat, act>>
  BY RefinementStep
<1>3. QED
  BY <1>1, <1>2, ActInvHolds, PTL DEF Spec, KeepsContract, Contract!Spec
=============================================================================
