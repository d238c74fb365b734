------------------------ MODULE SessionsModelsProofs ------------------------
(***************************************************************************)
(* Proofs about MCSessions, laid out as those of SessionsProofs: the       *)
(* handles of models and the planner of their downloads.                   *)
(***************************************************************************)
EXTENDS MCSessions, FiniteSetTheorems, SequenceTheorems, TLAPS

-----------------------------------------------------------------------------
(* Model handles.                                                          *)

IsSpecific(h, inst) ==
    h.type = "instanceReference" /\ h.id \in Ids /\ h.ref \in DOMAIN inst /\ inst[h.ref] = h.id

HandleKind(h, inst) ==
    \/ IsSpecific(h, inst)
    \/ h = Handles!AnyModel
    \/ \E id \in Ids : h = Handles!DynamicHandle(id)

HandleRpcNames == {"getModelInfo", "getLoadConfig", "getBasePredictionConfig", "preloadDraftModel",
                   "getInstanceProcessingState", "applyPromptTemplate", "countTokens", "tokenize",
                   "embedString", "unloadModel"}
HandleOps == {"none", "info", "ask", "config", "handle", "unload"}
HandleOutcomes == {"none", "pending", "resolved", "rejected"}
HandleRpcs == [name : HandleRpcNames, answer : Int, heard : BOOLEAN]
HandleTypes == [type : {"instanceReference", "query"}, ref : Nat, id : Ids \cup {"any"}]
HandleCallTypes == [op : HandleOps, on : HandleTypes, rpcs : Seq(HandleRpcs),
                    outcome : HandleOutcomes]

(* What a call is on, and the rpcs it makes: two at once, or a second one  *)
(* when the first was heard, and one that unloads only for an identifier.  *)
HandleCallShape(r, inst) ==
    /\ HandleKind(r.on, inst)
    /\ DOMAIN r.rpcs \subseteq {1, 2} /\ (2 \in DOMAIN r.rpcs => 1 \in DOMAIN r.rpcs)
    /\ r.outcome = "none" => r = Handles!NotCalled
    /\ r.op = "unload" => /\ IsSpecific(r.on, inst) /\ 1 \in DOMAIN r.rpcs
                          /\ r.rpcs[1].name = "getModelInfo"
                          /\ 2 \in DOMAIN r.rpcs => r.rpcs[2].name = "unloadModel"
    /\ r.op \in {"unload", "config"} /\ 2 \in DOMAIN r.rpcs => r.rpcs[1].heard
    /\ \A j \in DOMAIN r.rpcs :
         /\ r.rpcs[j].heard => r.rpcs[j].answer # -1
         /\ r.rpcs[j].name = "unloadModel" =>
              /\ r.on.id \in Ids
              /\ \/ r.op = "unload" /\ j = 2
                 \/ r.op = "ask" /\ 2 \notin DOMAIN r.rpcs

(* Answers are instances there were.                                       *)
AnswersExist(r, inst) ==
    \A j \in DOMAIN r.rpcs : r.rpcs[j].answer \in {-1, 0} \cup DOMAIN inst

(* What a handle of an instance is answered.                               *)
SpecificAnswers(r, inst) ==
    IsSpecific(r.on, inst) =>
        \A j \in DOMAIN r.rpcs :
            r.rpcs[j].name # "unloadModel" => r.rpcs[j].answer \in {-1, 0, r.on.ref}

(* A call that has settled was answered of all, or of no model.            *)
SettledAnswers(r) ==
    /\ r.outcome # "pending" =>
         \A j, k \in DOMAIN r.rpcs :
             j # k /\ r.rpcs[j].answer = -1 => r.rpcs[k].answer = 0
    /\ r.outcome = "resolved" => \A j \in DOMAIN r.rpcs : r.rpcs[j].answer # -1

(* While nobody else loads or unloads, a query is answered of the model it *)
(* has, and the instance that is to be unloaded stays where it is.         *)
QuietAnswers(r, ms) ==
    /\ r.outcome = "pending" =>
         \A id \in Ids : r.on = Handles!DynamicHandle(id) /\ r.on # Handles!AnyModel =>
             \A j \in DOMAIN r.rpcs :
                 r.rpcs[j].name # "unloadModel" => r.rpcs[j].answer \in {-1, ms[id]}
    /\ r.on # Handles!AnyModel =>
         \A j, k \in DOMAIN r.rpcs :
             /\ r.rpcs[j].name # "unloadModel" /\ r.rpcs[j].answer \notin {-1, 0}
             /\ r.rpcs[k].name # "unloadModel" /\ r.rpcs[k].answer \notin {-1, 0}
             => r.rpcs[j].answer = r.rpcs[k].answer

QuietUnload(r, ms) ==
    r.op = "unload" =>
        /\ r.outcome = "pending" =>
             /\ 2 \notin DOMAIN r.rpcs /\ r.rpcs[1].answer \notin {-1, 0} => ms[r.on.id] = r.on.ref
             /\ 2 \in DOMAIN r.rpcs /\ r.rpcs[2].answer = -1 => ms[r.on.id] = r.on.ref
             /\ 2 \in DOMAIN r.rpcs /\ r.rpcs[2].answer # -1 => r.rpcs[2].answer = r.on.ref
        /\ r.outcome = "resolved" => 2 \in DOMAIN r.rpcs /\ r.rpcs[2].answer = r.on.ref

HandleCallInv(r, ms, inst, quiet) ==
    /\ r \in HandleCallTypes /\ AnswersExist(r, inst)
    /\ HandleCallShape(r, inst) /\ SpecificAnswers(r, inst) /\ SettledAnswers(r)
    /\ quiet => QuietAnswers(r, ms) /\ QuietUnload(r, ms)

(* The models under their identifiers are the instances of these.          *)
ModelsInv(ms, inst) ==
    /\ ms \in [Ids -> Nat] /\ inst \in Seq(Ids)
    /\ \A id \in Ids : ms[id] # 0 => ms[id] \in DOMAIN inst /\ inst[ms[id]] = id

(* Answers that are on their way, each once.                               *)
AnswersInv(answers, cs) ==
    /\ answers \in Seq(Callers \X Nat)
    /\ \A k \in DOMAIN answers :
         /\ answers[k][2] \in DOMAIN cs[answers[k][1]].rpcs
         /\ cs[answers[k][1]].rpcs[answers[k][2]].answer # -1
         /\ ~ cs[answers[k][1]].rpcs[answers[k][2]].heard
    /\ \A k, l \in DOMAIN answers : answers[k] = answers[l] => k = l

HandlesInv ==
    /\ ModelsInv(models, instances)
    /\ \A h \in handles : IsSpecific(h, instances) /\ h \in HandleTypes
    /\ handleCalls \in [Callers -> HandleCallTypes]
    /\ \A c \in Callers : HandleCallInv(handleCalls[c], models, instances, c \notin disturbed)
    /\ AnswersInv(wire, handleCalls)

(* What becomes of a call when one of its rpcs is answered, or heard, or   *)
(* when it makes its second one.                                           *)
SameOthers(r, r2, i) ==
    /\ r2 \in HandleCallTypes /\ r2.op = r.op /\ r2.on = r.on /\ DOMAIN r2.rpcs = DOMAIN r.rpcs
    /\ \A j \in DOMAIN r.rpcs : j # i => r2.rpcs[j] = r.rpcs[j]
    /\ r2.rpcs[i].name = r.rpcs[i].name

RpcAnswered(r, r2, i, ref) ==
    /\ SameOthers(r, r2, i) /\ r2.outcome = r.outcome
    /\ r2.rpcs[i].heard = r.rpcs[i].heard /\ r2.rpcs[i].answer = ref

RpcHeard(r, r2, i, outcome) ==
    /\ SameOthers(r, r2, i) /\ r2.outcome = outcome
    /\ r2.rpcs[i].heard /\ r2.rpcs[i].answer = r.rpcs[i].answer

RpcFollows(r, r2, name) ==
    /\ r2 \in HandleCallTypes /\ r2.op = r.op /\ r2.on = r.on /\ r2.outcome = r.outcome
    /\ DOMAIN r2.rpcs = {1, 2} /\ r2.rpcs[1].heard
    /\ r2.rpcs[1].answer = r.rpcs[1].answer /\ r2.rpcs[1].name = r.rpcs[1].name
    /\ r2.rpcs[2].name = name /\ r2.rpcs[2].answer = -1 /\ ~ r2.rpcs[2].heard

LEMMA RpcAnsweredIs ==
    ASSUME NEW cs \in [Callers -> HandleCallTypes], NEW c \in Callers, NEW i \in DOMAIN cs[c].rpcs,
           NEW ref \in Int
    PROVE  RpcAnswered(cs[c], [cs EXCEPT ![c].rpcs[i].answer = ref][c], i, ref)
<1> DEFINE r == cs[c]
           t == [r.rpcs EXCEPT ![i].answer = ref]
           r2 == [r EXCEPT !.rpcs = t]
<1>1. [cs EXCEPT ![c].rpcs[i].answer = ref][c] = r2
  OBVIOUS
<1>2. r \in HandleCallTypes /\ r.rpcs \in Seq(HandleRpcs)
  BY DEF HandleCallTypes
<1>3. /\ t \in Seq(HandleRpcs) /\ DOMAIN t = DOMAIN r.rpcs
      /\ t[i].heard = r.rpcs[i].heard /\ t[i].answer = ref /\ t[i].name = r.rpcs[i].name
      /\ \A j \in DOMAIN r.rpcs : j # i => t[j] = r.rpcs[j]
  <2>1. r.rpcs[i] \in HandleRpcs
    BY <1>2
  <2>2. [r.rpcs[i] EXCEPT !.answer = ref] \in HandleRpcs
    BY <2>1 DEF HandleRpcs
  <2> QED
    BY <1>2, <2>1, <2>2 DEF HandleRpcs
<1> HIDE DEF t, r
<1>4. /\ r2 \in HandleCallTypes /\ r2.op = r.op /\ r2.on = r.on /\ r2.rpcs = t
      /\ r2.outcome = r.outcome
  BY <1>2, <1>3 DEF HandleCallTypes
<1>5. RpcAnswered(r, r2, i, ref)
  BY <1>3, <1>4 DEF RpcAnswered, SameOthers
<1> QED
  BY <1>1, <1>5 DEF r

LEMMA RpcHeardIs ==
    ASSUME NEW cs \in [Callers -> HandleCallTypes], NEW c \in Callers, NEW i \in DOMAIN cs[c].rpcs,
           NEW outcome \in HandleOutcomes
    PROVE  RpcHeard(cs[c], [cs EXCEPT ![c].rpcs[i].heard = TRUE, ![c].outcome = outcome][c],
                    i, outcome)
<1> DEFINE r == cs[c]
           t == [r.rpcs EXCEPT ![i].heard = TRUE]
           r2 == [r EXCEPT !.rpcs = t, !.outcome = outcome]
<1>1. [cs EXCEPT ![c].rpcs[i].heard = TRUE, ![c].outcome = outcome][c] = r2
  OBVIOUS
<1>2. r \in HandleCallTypes /\ r.rpcs \in Seq(HandleRpcs)
  BY DEF HandleCallTypes
<1>3. /\ t \in Seq(HandleRpcs) /\ DOMAIN t = DOMAIN r.rpcs
      /\ t[i].heard /\ t[i].answer = r.rpcs[i].answer /\ t[i].name = r.rpcs[i].name
      /\ \A j \in DOMAIN r.rpcs : j # i => t[j] = r.rpcs[j]
  <2>1. r.rpcs[i] \in HandleRpcs
    BY <1>2
  <2>2. [r.rpcs[i] EXCEPT !.heard = TRUE] \in HandleRpcs
    BY <2>1 DEF HandleRpcs
  <2> QED
    BY <1>2, <2>1, <2>2 DEF HandleRpcs
<1> HIDE DEF t, r
<1>4. /\ r2 \in HandleCallTypes /\ r2.op = r.op /\ r2.on = r.on /\ r2.rpcs = t
      /\ r2.outcome = outcome
  BY <1>2, <1>3 DEF HandleCallTypes
<1>5. RpcHeard(r, r2, i, outcome)
  BY <1>3, <1>4 DEF RpcHeard, SameOthers
<1> QED
  BY <1>1, <1>5 DEF r

LEMMA RpcFollowsIs ==
    ASSUME NEW cs \in [Callers -> HandleCallTypes], NEW c \in Callers, 1 \in DOMAIN cs[c].rpcs,
           NEW name \in HandleRpcNames
    PROVE  RpcFollows(cs[c], [cs EXCEPT ![c].rpcs = <<[cs[c].rpcs[1] EXCEPT !.heard = TRUE],
                                                      Handles!Rpc(name)>>][c], name)
<1> DEFINE r == cs[c]
           a == [r.rpcs[1] EXCEPT !.heard = TRUE]
           b == Handles!Rpc(name)
           t == <<a, b>>
           r2 == [r EXCEPT !.rpcs = t]
<1>1. [cs EXCEPT ![c].rpcs = <<[cs[c].rpcs[1] EXCEPT !.heard = TRUE], Handles!Rpc(name)>>][c] = r2
  OBVIOUS
<1>2. r \in HandleCallTypes /\ r.rpcs \in Seq(HandleRpcs)
  BY DEF HandleCallTypes
<1>3. r.rpcs[1] \in HandleRpcs
  BY <1>2
<1>4. /\ a \in HandleRpcs /\ a.heard /\ a.answer = r.rpcs[1].answer /\ a.name = r.rpcs[1].name
  BY <1>3 DEF HandleRpcs
<1>5. /\ b \in HandleRpcs /\ b.name = name /\ b.answer = -1 /\ ~ b.heard
  BY DEF HandleRpcs, Handles!Rpc, Handles!Pending
<1> HIDE DEF a, b, r
<1>8. t \in Seq(HandleRpcs) /\ DOMAIN t = {1, 2} /\ t[1] = a /\ t[2] = b
  BY <1>4, <1>5
<1> HIDE DEF t
<1>6. /\ r2 \in HandleCallTypes /\ r2.op = r.op /\ r2.on = r.on /\ r2.outcome = r.outcome
      /\ r2.rpcs = t
  BY <1>2, <1>8 DEF HandleCallTypes
<1>7. RpcFollows(r, r2, name)
  BY <1>4, <1>5, <1>6, <1>8 DEF RpcFollows
<1> QED
  BY <1>1, <1>7 DEF r

LEMMA HandlesInitInv == Handles!Init => HandlesInv
<1> SUFFICES ASSUME Handles!Init PROVE HandlesInv
  OBVIOUS
<1> USE DEF Handles!Init
<1>1. ModelsInv(models, instances)
  BY DEF ModelsInv, Handles!None
<1>2. Handles!NotCalled \in HandleCallTypes
  <2>1. Handles!AnyModel \in HandleTypes
    BY DEF Handles!AnyModel, Handles!None, HandleTypes
  <2>2. <<>> \in Seq(HandleRpcs)
    OBVIOUS
  <2> QED
    BY <2>1, <2>2 DEF Handles!NotCalled, HandleCallTypes, HandleOps, HandleOutcomes
<1>3. ASSUME NEW q PROVE HandleCallInv(Handles!NotCalled, models, instances, q)
  <2> PICK r : r = Handles!NotCalled
    OBVIOUS
  <2>1. r.op = "none" /\ r.on = Handles!AnyModel /\ DOMAIN r.rpcs = {} /\ r.outcome = "none"
    BY DEF Handles!NotCalled
  <2>2. HandleCallShape(r, instances)
    BY <2>1 DEF HandleCallShape, HandleKind
  <2>3. SpecificAnswers(r, instances) /\ SettledAnswers(r) /\ QuietAnswers(r, models)
    BY <2>1 DEF SpecificAnswers, SettledAnswers, QuietAnswers
  <2>4. QuietUnload(r, models)
    BY <2>1 DEF QuietUnload
  <2> QED
    BY <1>2, <2>1, <2>2, <2>3, <2>4 DEF HandleCallInv, AnswersExist
<1>4. AnswersInv(wire, handleCalls)
  BY DEF AnswersInv
<1> QED
  BY <1>1, <1>2, <1>3, <1>4 DEF HandlesInv

LEMMA QueryIsNotSpecific ==
    ASSUME NEW inst
    PROVE  ~ IsSpecific(Handles!AnyModel, inst) /\ \A id : ~ IsSpecific(Handles!DynamicHandle(id), inst)
BY DEF IsSpecific, Handles!AnyModel, Handles!DynamicHandle

(* A call that was just made.                                              *)
FreshRpcs(rpcs) ==
    /\ rpcs \in Seq(HandleRpcs) /\ DOMAIN rpcs \in {{1}, {1, 2}}
    /\ \A j \in DOMAIN rpcs : rpcs[j].answer = -1 /\ ~ rpcs[j].heard

NewCall(op, h, rpcs, inst) ==
    /\ op \in HandleOps \ {"none"} /\ h \in HandleTypes /\ FreshRpcs(rpcs)
    /\ HandleKind(h, inst)
    /\ op \in {"unload", "config"} => 2 \notin DOMAIN rpcs /\ rpcs[1].name # "unloadModel"
    /\ op = "unload" => IsSpecific(h, inst) /\ rpcs[1].name = "getModelInfo"
    /\ \A j \in DOMAIN rpcs :
         rpcs[j].name = "unloadModel" => h.id \in Ids /\ op = "ask" /\ 2 \notin DOMAIN rpcs

LEMMA NewCallKeeps ==
    ASSUME NEW op, NEW h, NEW rpcs, NEW inst, NEW ms, NEW q \in BOOLEAN, NewCall(op, h, rpcs, inst)
    PROVE  HandleCallInv([op |-> op, on |-> h, rpcs |-> rpcs, outcome |-> "pending"], ms, inst, q)
<1> DEFINE new == [op |-> op, on |-> h, rpcs |-> rpcs, outcome |-> "pending"]
<1> PICK r : r = new
  OBVIOUS
<1>1. /\ r.op = op /\ r.on = h /\ r.rpcs = rpcs /\ r.outcome = "pending" /\ r \in HandleCallTypes
      /\ DOMAIN rpcs \in {{1}, {1, 2}}
  <2>1. /\ op \in HandleOps /\ h \in HandleTypes /\ rpcs \in Seq(HandleRpcs)
        /\ DOMAIN rpcs \in {{1}, {1, 2}}
    BY DEF NewCall, FreshRpcs
  <2> QED
    BY <2>1 DEF HandleCallTypes, HandleOutcomes
<1>2. \A j \in DOMAIN rpcs : rpcs[j].answer = -1 /\ ~ rpcs[j].heard
  BY DEF NewCall, FreshRpcs
<1>3. 1 \in DOMAIN rpcs /\ DOMAIN rpcs \subseteq {1, 2}
  BY <1>1
<1>4. HandleCallShape(r, inst)
  <2>1. /\ HandleKind(h, inst)
        /\ op \in {"unload", "config"} => 2 \notin DOMAIN rpcs /\ rpcs[1].name # "unloadModel"
        /\ op = "unload" => IsSpecific(h, inst) /\ rpcs[1].name = "getModelInfo"
        /\ \A j \in DOMAIN rpcs :
             rpcs[j].name = "unloadModel" => h.id \in Ids /\ op = "ask" /\ 2 \notin DOMAIN rpcs
    BY DEF NewCall
  <2> QED
    BY <1>1, <1>2, <1>3, <2>1 DEF HandleCallShape
<1>5. SpecificAnswers(r, inst) /\ SettledAnswers(r) /\ QuietAnswers(r, ms)
  BY <1>1, <1>2 DEF SpecificAnswers, SettledAnswers, QuietAnswers
<1>6. QuietUnload(r, ms)
  BY <1>1, <1>2, <1>3 DEF QuietUnload, NewCall
<1> QED
  BY <1>1, <1>2, <1>4, <1>5, <1>6 DEF HandleCallInv, AnswersExist

(* Models come and go: who is under way is no longer quiet.                *)
LEMMA OthersChangeModels ==
    ASSUME NEW r, NEW ms, NEW ms2, NEW inst, NEW inst2, NEW q \in BOOLEAN, NEW q2 \in BOOLEAN,
           HandleCallInv(r, ms, inst, q),
           \A h : IsSpecific(h, inst) => IsSpecific(h, inst2), DOMAIN inst \subseteq DOMAIN inst2,
           q2 => q /\ (ms2 = ms \/ r.outcome # "pending")
    PROVE  HandleCallInv(r, ms2, inst2, q2)
<1>1. r.on \in HandleTypes
  BY DEF HandleCallInv, HandleCallTypes
<1>5. IsSpecific(r.on, inst) <=> IsSpecific(r.on, inst2)
  BY QueryIsNotSpecific, Zenon DEF HandleCallInv, HandleCallShape, HandleKind
<1>2. HandleCallShape(r, inst2)
  <2>1. HandleCallShape(r, inst)
    BY DEF HandleCallInv
  <2>2. HandleKind(r.on, inst2)
    BY <1>5, <2>1 DEF HandleCallShape, HandleKind
  <2> QED
    BY <1>5, <2>1, <2>2, Zenon DEF HandleCallShape
<1>3. SpecificAnswers(r, inst2)
  BY <1>5 DEF HandleCallInv, SpecificAnswers
<1>4. q2 => QuietAnswers(r, ms2) /\ QuietUnload(r, ms2)
  BY DEF HandleCallInv, QuietAnswers, QuietUnload
<1> QED
  BY <1>2, <1>3, <1>4 DEF HandleCallInv, AnswersExist

(* The server answers an rpc that does not unload.                         *)
RightAnswer(r, ref, ms, inst) ==
    /\ IsSpecific(r.on, inst) =>
         ref \in {0, r.on.ref} /\ (ref # 0 => \E id \in Ids : ms[id] = ref)
    /\ \A id \in Ids : r.on = Handles!DynamicHandle(id) /\ r.on # Handles!AnyModel => ref = ms[id]
    /\ ref \in {0} \cup DOMAIN inst

AnswerTaken(r, r2, ms, inst, q, i, ref) ==
    /\ i \in DOMAIN r.rpcs /\ HandleCallInv(r, ms, inst, q) /\ ModelsInv(ms, inst)
    /\ r.rpcs[i].answer = -1 /\ r.rpcs[i].name # "unloadModel" /\ ref \in Int /\ ref # -1
    /\ RpcAnswered(r, r2, i, ref) /\ RightAnswer(r, ref, ms, inst)

LEMMA AnswerKeeps ==
    ASSUME NEW r, NEW r2, NEW ms, NEW inst, NEW q \in BOOLEAN, NEW i, NEW ref,
           AnswerTaken(r, r2, ms, inst, q, i, ref)
    PROVE  HandleCallInv(r2, ms, inst, q)
<1> USE DEF AnswerTaken, RightAnswer
<1>0. /\ r2.op = r.op /\ r2.on = r.on /\ r2.outcome = r.outcome /\ DOMAIN r2.rpcs = DOMAIN r.rpcs
      /\ \A j \in DOMAIN r.rpcs : r2.rpcs[j].name = r.rpcs[j].name /\ r2.rpcs[j].heard = r.rpcs[j].heard
      /\ \A j \in DOMAIN r.rpcs : r2.rpcs[j].answer = IF j = i THEN ref ELSE r.rpcs[j].answer
      /\ r2 \in HandleCallTypes
  BY DEF RpcAnswered, SameOthers
<1>1. /\ r \in HandleCallTypes /\ HandleCallShape(r, inst) /\ AnswersExist(r, inst)
      /\ SpecificAnswers(r, inst) /\ SettledAnswers(r)
      /\ q => QuietAnswers(r, ms) /\ QuietUnload(r, ms)
  BY DEF HandleCallInv
<1>2. DOMAIN r.rpcs \subseteq {1, 2} /\ (2 \in DOMAIN r.rpcs => 1 \in DOMAIN r.rpcs) /\ i \in {1, 2}
  BY <1>0, <1>1 DEF HandleCallShape
<1>3. r.outcome # "none"
  BY <1>0, <1>1 DEF HandleCallShape, Handles!NotCalled
<1>4. HandleCallShape(r2, inst)
  <2>1. \A j \in DOMAIN r2.rpcs :
         /\ r2.rpcs[j].heard => r2.rpcs[j].answer # -1
         /\ r2.rpcs[j].name = "unloadModel" =>
              /\ r2.on.id \in Ids
              /\ \/ r2.op = "unload" /\ j = 2
                 \/ r2.op = "ask" /\ 2 \notin DOMAIN r2.rpcs
    BY <1>0, <1>1 DEF HandleCallShape
  <2>2. r2.op = "unload" => /\ IsSpecific(r2.on, inst) /\ 1 \in DOMAIN r2.rpcs
                            /\ r2.rpcs[1].name = "getModelInfo"
                            /\ 2 \in DOMAIN r2.rpcs => r2.rpcs[2].name = "unloadModel"
    BY <1>0, <1>1, <1>2 DEF HandleCallShape
  <2>3. r2.op \in {"unload", "config"} /\ 2 \in DOMAIN r2.rpcs => r2.rpcs[1].heard
    BY <1>0, <1>1, <1>2 DEF HandleCallShape
  <2> QED
    BY <1>0, <1>1, <1>2, <1>3, <2>1, <2>2, <2>3 DEF HandleCallShape
<1>5. SpecificAnswers(r2, inst)
  BY <1>0, <1>1 DEF SpecificAnswers
<1>6. SettledAnswers(r2)
  BY <1>0, <1>1 DEF SettledAnswers
<1>7. ASSUME q PROVE QuietAnswers(r2, ms)
  <2>1. QuietAnswers(r, ms)
    BY <1>0, <1>1, <1>7
  <2>2. r2.outcome = "pending" =>
         \A id \in Ids : r2.on = Handles!DynamicHandle(id) /\ r2.on # Handles!AnyModel =>
             \A j \in DOMAIN r2.rpcs :
                 r2.rpcs[j].name # "unloadModel" => r2.rpcs[j].answer \in {-1, ms[id]}
    BY <1>0, <2>1 DEF QuietAnswers
  <2>3. ASSUME r.on # Handles!AnyModel,
               NEW j \in DOMAIN r.rpcs, j # i, r.rpcs[j].name # "unloadModel",
               r.rpcs[j].answer \notin {-1, 0}, ref # 0
        PROVE  r.rpcs[j].answer = ref
    <3>1. CASE IsSpecific(r.on, inst)
      BY <1>0, <1>1, <2>3, <3>1 DEF SpecificAnswers
    <3>2. CASE \E id \in Ids : r.on = Handles!DynamicHandle(id)
      <4>1. r.outcome = "pending"
        BY <1>0, <1>1, <2>3 DEF SettledAnswers
      <4> QED
        BY <2>1, <2>3, <3>2, <4>1 DEF QuietAnswers
    <3> QED
      BY <1>0, <1>1, <2>3, <3>1, <3>2 DEF HandleCallShape, HandleKind
  <2>4. ASSUME r2.on # Handles!AnyModel,
               NEW j \in DOMAIN r2.rpcs, NEW k \in DOMAIN r2.rpcs,
               r2.rpcs[j].name # "unloadModel", r2.rpcs[j].answer \notin {-1, 0},
               r2.rpcs[k].name # "unloadModel", r2.rpcs[k].answer \notin {-1, 0}
        PROVE  r2.rpcs[j].answer = r2.rpcs[k].answer
    <3>1. CASE j # i /\ k # i
      BY <1>0, <2>1, <2>4, <3>1 DEF QuietAnswers
    <3>2. CASE j = i /\ k # i
      BY <1>0, <2>3, <2>4, <3>2
    <3>3. CASE j # i /\ k = i
      BY <1>0, <2>3, <2>4, <3>3
    <3> QED
      BY <3>1, <3>2, <3>3
  <2> QED
    BY <2>2, <2>4 DEF QuietAnswers
<1>8. ASSUME q PROVE QuietUnload(r2, ms)
  <2> SUFFICES ASSUME r.op = "unload" PROVE QuietUnload(r2, ms)
    BY <1>0 DEF QuietUnload
  <2>1. QuietUnload(r, ms) /\ IsSpecific(r.on, inst) /\ 1 \in DOMAIN r.rpcs
    BY <1>0, <1>1, <1>8 DEF HandleCallShape
  <2>2. 2 \notin DOMAIN r.rpcs /\ i = 1
    BY <1>0, <1>1, <1>2, <2>1 DEF HandleCallShape
  <2>3. ref \notin {-1, 0} => ms[r.on.id] = r.on.ref
    BY <1>0, <2>1 DEF ModelsInv, IsSpecific
  <2>4. r.outcome # "resolved"
    BY <1>0, <1>1 DEF SettledAnswers
  <2> QED
    BY <1>0, <2>2, <2>3, <2>4 DEF QuietUnload
<1>9. AnswersExist(r2, inst)
  BY <1>0, <1>1 DEF AnswersExist
<1> QED
  BY <1>0, <1>1, <1>4, <1>5, <1>6, <1>7, <1>8, <1>9 DEF HandleCallInv

(* The server takes an rpc that unloads, of a call or of the second step   *)
(* of unload.                                                              *)
UnloadTaken(r, r2, ms, inst, q, i, ref) ==
    /\ i \in DOMAIN r.rpcs /\ HandleCallInv(r, ms, inst, q) /\ ModelsInv(ms, inst)
    /\ r.rpcs[i].answer = -1 /\ r.rpcs[i].name = "unloadModel"
    /\ RpcAnswered(r, r2, i, ref) /\ ref = ms[r.on.id]

LEMMA UnloadKeeps ==
    ASSUME NEW r, NEW r2, NEW ms, NEW ms2, NEW inst, NEW q \in BOOLEAN, NEW i, NEW ref,
           UnloadTaken(r, r2, ms, inst, q, i, ref)
    PROVE  HandleCallInv(r2, ms2, inst, q)
<1> USE DEF UnloadTaken
<1>1. /\ r \in HandleCallTypes /\ HandleCallShape(r, inst) /\ AnswersExist(r, inst)
      /\ SpecificAnswers(r, inst) /\ SettledAnswers(r)
      /\ q => QuietAnswers(r, ms) /\ QuietUnload(r, ms)
  BY DEF HandleCallInv
<1>2. /\ DOMAIN r.rpcs \subseteq {1, 2} /\ (2 \in DOMAIN r.rpcs => 1 \in DOMAIN r.rpcs) /\ i \in {1, 2}
      /\ r.on.id \in Ids /\ ((r.op = "unload" /\ i = 2) \/ (r.op = "ask" /\ 2 \notin DOMAIN r.rpcs))
  <2>1. DOMAIN r.rpcs \subseteq {1, 2} /\ (2 \in DOMAIN r.rpcs => 1 \in DOMAIN r.rpcs)
    BY <1>1 DEF HandleCallShape
  <2>2. \A j \in DOMAIN r.rpcs :
          r.rpcs[j].name = "unloadModel" =>
              /\ r.on.id \in Ids
              /\ \/ r.op = "unload" /\ j = 2
                 \/ r.op = "ask" /\ 2 \notin DOMAIN r.rpcs
    BY <1>1, Zenon DEF HandleCallShape
  <2>3. r.on.id \in Ids /\ ((r.op = "unload" /\ i = 2) \/ (r.op = "ask" /\ 2 \notin DOMAIN r.rpcs))
    BY <2>2
  <2> QED
    BY <2>1, <2>3
<1>10. ref \in Nat /\ ref # -1 /\ ref \in {0} \cup DOMAIN inst
  BY <1>2 DEF ModelsInv
<1>0. /\ r2.op = r.op /\ r2.on = r.on /\ r2.outcome = r.outcome /\ DOMAIN r2.rpcs = DOMAIN r.rpcs
      /\ \A j \in DOMAIN r.rpcs : r2.rpcs[j].name = r.rpcs[j].name /\ r2.rpcs[j].heard = r.rpcs[j].heard
      /\ \A j \in DOMAIN r.rpcs : r2.rpcs[j].answer = IF j = i THEN ref ELSE r.rpcs[j].answer
      /\ r2 \in HandleCallTypes
  BY DEF RpcAnswered, SameOthers
<1>3. r.outcome # "none"
  BY <1>1 DEF HandleCallShape, Handles!NotCalled
<1>4. HandleCallShape(r2, inst)
  <2>1. \A j \in DOMAIN r2.rpcs :
         /\ r2.rpcs[j].heard => r2.rpcs[j].answer # -1
         /\ r2.rpcs[j].name = "unloadModel" =>
              /\ r2.on.id \in Ids
              /\ \/ r2.op = "unload" /\ j = 2
                 \/ r2.op = "ask" /\ 2 \notin DOMAIN r2.rpcs
    BY <1>0, <1>1, <1>10 DEF HandleCallShape
  <2>2. r2.op = "unload" => /\ IsSpecific(r2.on, inst) /\ 1 \in DOMAIN r2.rpcs
                            /\ r2.rpcs[1].name = "getModelInfo"
                            /\ 2 \in DOMAIN r2.rpcs => r2.rpcs[2].name = "unloadModel"
    BY <1>0, <1>1, <1>2 DEF HandleCallShape
  <2>3. r2.op \in {"unload", "config"} /\ 2 \in DOMAIN r2.rpcs => r2.rpcs[1].heard
    BY <1>0, <1>1, <1>2 DEF HandleCallShape
  <2> QED
    BY <1>0, <1>1, <1>2, <1>3, <2>1, <2>2, <2>3 DEF HandleCallShape
<1>5. SpecificAnswers(r2, inst)
  BY <1>0, <1>1 DEF SpecificAnswers
<1>6. SettledAnswers(r2)
  BY <1>0, <1>1 DEF SettledAnswers
<1>7. ASSUME q PROVE QuietAnswers(r2, ms2)
  <2>1. QuietAnswers(r, ms)
    BY <1>1, <1>7
  <2>2. ASSUME r.outcome = "pending", NEW id \in Ids, r.on = Handles!DynamicHandle(id),
               NEW j \in DOMAIN r.rpcs, r.rpcs[j].name # "unloadModel"
        PROVE  FALSE
    <3>1. r.op # "unload"
      BY <1>1, <2>2, QueryIsNotSpecific DEF HandleCallShape
    <3> QED
      BY <1>2, <2>2, <3>1
  <2>3. \A j, k \in DOMAIN r2.rpcs :
             /\ r2.on # Handles!AnyModel
             /\ r2.rpcs[j].name # "unloadModel" /\ r2.rpcs[j].answer \notin {-1, 0}
             /\ r2.rpcs[k].name # "unloadModel" /\ r2.rpcs[k].answer \notin {-1, 0}
             => r2.rpcs[j].answer = r2.rpcs[k].answer
    BY <1>0, <2>1 DEF QuietAnswers
  <2> QED
    BY <1>0, <2>2, <2>3 DEF QuietAnswers
<1>8. ASSUME q PROVE QuietUnload(r2, ms2)
  <2> SUFFICES ASSUME r.op = "unload" PROVE QuietUnload(r2, ms2)
    BY <1>0 DEF QuietUnload
  <2>1. QuietUnload(r, ms) /\ i = 2 /\ 2 \in DOMAIN r.rpcs
    BY <1>1, <1>2, <1>8
  <2>2. r.outcome # "resolved"
    BY <1>1 DEF SettledAnswers
  <2>3. r.outcome = "pending" => ref = r.on.ref
    BY <2>1 DEF QuietUnload
  <2> QED
    BY <1>0, <1>10, <2>1, <2>2, <2>3 DEF QuietUnload
<1>9. AnswersExist(r2, inst)
  BY <1>0, <1>1, <1>10 DEF AnswersExist
<1> QED
  BY <1>0, <1>4, <1>5, <1>6, <1>7, <1>8, <1>9 DEF HandleCallInv

(* The client hears an answer.                                             *)
HeardOutcome(r, i, outcome) ==
    /\ outcome \in HandleOutcomes \ {"none"}
    /\ r.outcome # "pending" => outcome = r.outcome
    /\ outcome = "rejected" /\ r.outcome = "pending" => r.rpcs[i].answer = 0
    /\ outcome = "resolved" /\ r.outcome = "pending" =>
         \A j \in DOMAIN r.rpcs : j # i => r.rpcs[j].heard

LEMMA HearKeeps ==
    ASSUME NEW r, NEW r2, NEW ms, NEW inst, NEW q \in BOOLEAN, NEW i \in DOMAIN r.rpcs, NEW outcome,
           HandleCallInv(r, ms, inst, q), RpcHeard(r, r2, i, outcome), HeardOutcome(r, i, outcome),
           r.rpcs[i].answer # -1,
           r.op = "unload" /\ r.outcome = "pending" /\ outcome # "rejected" => i = 2
    PROVE  HandleCallInv(r2, ms, inst, q)
<1>1. /\ r \in HandleCallTypes /\ HandleCallShape(r, inst) /\ AnswersExist(r, inst)
      /\ SpecificAnswers(r, inst) /\ SettledAnswers(r)
      /\ q => QuietAnswers(r, ms) /\ QuietUnload(r, ms)
  BY DEF HandleCallInv
<1>2. /\ DOMAIN r.rpcs \subseteq {1, 2} /\ (2 \in DOMAIN r.rpcs => 1 \in DOMAIN r.rpcs) /\ i \in {1, 2}
  BY <1>1 DEF HandleCallShape
<1>0. /\ r2.op = r.op /\ r2.on = r.on /\ r2.outcome = outcome /\ DOMAIN r2.rpcs = DOMAIN r.rpcs
      /\ \A j \in DOMAIN r.rpcs : r2.rpcs[j].name = r.rpcs[j].name /\ r2.rpcs[j].answer = r.rpcs[j].answer
      /\ \A j \in DOMAIN r.rpcs : r2.rpcs[j].heard = IF j = i THEN TRUE ELSE r.rpcs[j].heard
      /\ r2 \in HandleCallTypes
  BY DEF RpcHeard, SameOthers
<1>4. HandleCallShape(r2, inst)
  <2>1. \A j \in DOMAIN r2.rpcs :
         /\ r2.rpcs[j].heard => r2.rpcs[j].answer # -1
         /\ r2.rpcs[j].name = "unloadModel" =>
              /\ r2.on.id \in Ids
              /\ \/ r2.op = "unload" /\ j = 2
                 \/ r2.op = "ask" /\ 2 \notin DOMAIN r2.rpcs
    BY <1>0, <1>1 DEF HandleCallShape
  <2>2. r2.op = "unload" => /\ IsSpecific(r2.on, inst) /\ 1 \in DOMAIN r2.rpcs
                            /\ r2.rpcs[1].name = "getModelInfo"
                            /\ 2 \in DOMAIN r2.rpcs => r2.rpcs[2].name = "unloadModel"
    BY <1>0, <1>1, <1>2 DEF HandleCallShape
  <2>3. r2.op \in {"unload", "config"} /\ 2 \in DOMAIN r2.rpcs => r2.rpcs[1].heard
    BY <1>0, <1>1, <1>2 DEF HandleCallShape
  <2>4. r2.outcome # "none"
    BY <1>0 DEF HeardOutcome
  <2> QED
    BY <1>0, <1>1, <1>2, <2>1, <2>2, <2>3, <2>4 DEF HandleCallShape
<1>5. SpecificAnswers(r2, inst)
  BY <1>0, <1>1 DEF SpecificAnswers
<1>6. SettledAnswers(r2)
  <2>1. CASE r.outcome # "pending"
    BY <1>0, <1>1, <2>1 DEF SettledAnswers, HeardOutcome
  <2>2. CASE r.outcome = "pending" /\ outcome = "resolved"
    <3>1. \A j \in DOMAIN r.rpcs : r.rpcs[j].answer # -1
      BY <1>1, <2>2 DEF HeardOutcome, HandleCallShape
    <3> QED
      BY <1>0, <3>1 DEF SettledAnswers
  <2>3. CASE r.outcome = "pending" /\ outcome = "rejected"
    <3>1. r.rpcs[i].answer = 0
      BY <2>3 DEF HeardOutcome
    <3>2. \A j, k \in DOMAIN r.rpcs : j # k /\ r.rpcs[j].answer = -1 => k = i
      BY <1>2
    <3> QED
      BY <1>0, <2>3, <3>1, <3>2 DEF SettledAnswers
  <2>4. CASE r.outcome = "pending" /\ outcome = "pending"
    BY <1>0, <2>4 DEF SettledAnswers
  <2> QED
    BY <2>1, <2>2, <2>3, <2>4 DEF HeardOutcome, HandleOutcomes
<1>7. ASSUME q PROVE QuietAnswers(r2, ms)
  <2>1. QuietAnswers(r, ms) /\ (r2.outcome = "pending" => r.outcome = "pending")
    BY <1>0, <1>1, <1>7 DEF HeardOutcome
  <2> QED
    BY <1>0, <2>1 DEF QuietAnswers
<1>8. ASSUME q PROVE QuietUnload(r2, ms)
  <2> SUFFICES ASSUME r.op = "unload" PROVE QuietUnload(r2, ms)
    BY <1>0 DEF QuietUnload
  <2>1. QuietUnload(r, ms) /\ (r2.outcome = "pending" => r.outcome = "pending")
    BY <1>0, <1>1, <1>8 DEF HeardOutcome
  <2>2. 1 \in DOMAIN r.rpcs
    BY <1>1 DEF HandleCallShape
  <2>3. r.outcome = "pending" /\ outcome = "resolved" => i = 2
    OBVIOUS
  <2>4. outcome = "resolved" => r.outcome \in {"pending", "resolved"}
    BY DEF HeardOutcome
  <2> QED
    BY <1>0, <1>2, <2>1, <2>2, <2>3, <2>4 DEF QuietUnload
<1>9. AnswersExist(r2, inst)
  BY <1>0, <1>1 DEF AnswersExist
<1> QED
  BY <1>0, <1>4, <1>5, <1>6, <1>7, <1>8, <1>9 DEF HandleCallInv

(* A call makes its second rpc.                                            *)
LEMMA FollowKeeps ==
    ASSUME NEW r, NEW r2, NEW ms, NEW inst, NEW q \in BOOLEAN, NEW name,
           HandleCallInv(r, ms, inst, q), RpcFollows(r, r2, name), r.outcome = "pending",
           1 \in DOMAIN r.rpcs, 2 \notin DOMAIN r.rpcs, r.rpcs[1].answer \notin {-1, 0},
           \/ r.op = "unload" /\ name = "unloadModel"
           \/ r.op = "config" /\ name = "getModelInfo"
    PROVE  HandleCallInv(r2, ms, inst, q)
<1>1. /\ r \in HandleCallTypes /\ HandleCallShape(r, inst) /\ AnswersExist(r, inst)
      /\ SpecificAnswers(r, inst) /\ SettledAnswers(r)
      /\ q => QuietAnswers(r, ms) /\ QuietUnload(r, ms)
  BY DEF HandleCallInv
<1>0. /\ r2.op = r.op /\ r2.on = r.on /\ r2.outcome = "pending" /\ DOMAIN r2.rpcs = {1, 2}
      /\ r2.rpcs[1].name = r.rpcs[1].name /\ r2.rpcs[1].answer = r.rpcs[1].answer /\ r2.rpcs[1].heard
      /\ r2.rpcs[2].name = name /\ r2.rpcs[2].answer = -1 /\ ~ r2.rpcs[2].heard
      /\ r2 \in HandleCallTypes
  BY DEF RpcFollows
<1>2. r.rpcs[1].name # "unloadModel"
  BY <1>1 DEF HandleCallShape
<1>3. r.op = "unload" => r.on.id \in Ids
  BY <1>1 DEF HandleCallShape, IsSpecific
<1>4. HandleCallShape(r2, inst)
  <2>1. HandleKind(r2.on, inst) /\ (r2.op = "unload" => IsSpecific(r2.on, inst))
    BY <1>0, <1>1 DEF HandleCallShape
  <2>2. r2.op = "unload" => r2.rpcs[1].name = "getModelInfo" /\ r2.rpcs[2].name = "unloadModel"
    BY <1>0, <1>1 DEF HandleCallShape
  <2>3. ASSUME NEW j \in DOMAIN r2.rpcs
        PROVE  /\ r2.rpcs[j].heard => r2.rpcs[j].answer # -1
               /\ r2.rpcs[j].name = "unloadModel" => r2.on.id \in Ids /\ r2.op = "unload" /\ j = 2
    BY <1>0, <1>2, <1>3
  <2> QED
    BY <1>0, <2>1, <2>2, <2>3 DEF HandleCallShape
<1>5. SpecificAnswers(r2, inst)
  BY <1>0, <1>1, <1>2 DEF SpecificAnswers
<1>6. SettledAnswers(r2)
  BY <1>0 DEF SettledAnswers
<1>7. ASSUME q PROVE QuietAnswers(r2, ms)
  <2>1. QuietAnswers(r, ms)
    BY <1>1, <1>7
  <2> QED
    BY <1>0, <1>2, <2>1 DEF QuietAnswers
<1>8. ASSUME q PROVE QuietUnload(r2, ms)
  <2>1. QuietUnload(r, ms)
    BY <1>1, <1>8
  <2> QED
    BY <1>0, <2>1 DEF QuietUnload
<1>9. AnswersExist(r2, inst)
  BY <1>0, <1>1 DEF AnswersExist
<1> QED
  BY <1>0, <1>4, <1>5, <1>6, <1>7, <1>8, <1>9 DEF HandleCallInv

(* The answers on their way, after an rpc was answered, heard or followed. *)
OthersSame(cs, cs2, c) == \A d \in Callers : d # c => cs2[d] = cs[d]

LEMMA AnswersWhenAnswered ==
    ASSUME NEW w, NEW cs, NEW cs2, NEW c \in Callers, NEW i \in DOMAIN cs[c].rpcs, NEW ref, i \in Nat,
           AnswersInv(w, cs), cs[c].rpcs[i].answer = -1, ~ cs[c].rpcs[i].heard,
           RpcAnswered(cs[c], cs2[c], i, ref), ref # -1,
           OthersSame(cs, cs2, c)
    PROVE  AnswersInv(Append(w, <<c, i>>), cs2)
<1> USE DEF OthersSame
<1> DEFINE w2 == Append(w, <<c, i>>)
           n == Len(w)
<1>1. /\ w2 \in Seq(Callers \X Nat) /\ DOMAIN w2 = 1..(n + 1) /\ DOMAIN w = 1..n /\ n \in Nat
      /\ \A k \in 1..n : w2[k] = w[k]
      /\ w2[n + 1] = <<c, i>>
  BY DEF AnswersInv
<1> HIDE DEF w2, n
<1>2. \A k \in DOMAIN w2 : (k \in DOMAIN w /\ w2[k] = w[k]) \/ (k = n + 1 /\ w2[k] = <<c, i>>)
  <2>1. \A k \in 1..(n + 1) : k \in 1..n \/ k = n + 1
    BY <1>1
  <2> TAKE k \in DOMAIN w2
  <2>2. k \in 1..n \/ k = n + 1
    BY <1>1, <2>1
  <2>3. CASE k \in 1..n
    BY <1>1, <2>3
  <2>4. CASE k = n + 1
    BY <1>1, <2>4
  <2> QED
    BY <2>2, <2>3, <2>4
<1>3. \A j \in DOMAIN cs[c].rpcs : j # i => cs2[c].rpcs[j] = cs[c].rpcs[j]
  BY DEF RpcAnswered, SameOthers
<1>4. /\ DOMAIN cs2[c].rpcs = DOMAIN cs[c].rpcs /\ cs2[c].rpcs[i].answer # -1
      /\ ~ cs2[c].rpcs[i].heard
  BY DEF RpcAnswered, SameOthers
<1>5. ASSUME NEW k \in DOMAIN w
      PROVE  /\ w[k][2] \in DOMAIN cs2[w[k][1]].rpcs /\ w[k] # <<c, i>>
             /\ cs2[w[k][1]].rpcs[w[k][2]].answer # -1 /\ ~ cs2[w[k][1]].rpcs[w[k][2]].heard
  <2>1. w[k][1] \in Callers /\ w[k] = <<w[k][1], w[k][2]>>
    BY DEF AnswersInv
  <2>2. /\ w[k][2] \in DOMAIN cs[w[k][1]].rpcs
        /\ cs[w[k][1]].rpcs[w[k][2]].answer # -1 /\ ~ cs[w[k][1]].rpcs[w[k][2]].heard
    BY DEF AnswersInv
  <2>3. w[k] # <<c, i>>
    BY <2>2
  <2>4. CASE w[k][1] # c
    BY <2>1, <2>2, <2>3, <2>4
  <2>5. CASE w[k][1] = c /\ w[k][2] # i
    BY <1>3, <1>4, <2>2, <2>3, <2>5
  <2> QED
    BY <2>1, <2>3, <2>4, <2>5
<1>6. \A k \in DOMAIN w2 :
         /\ w2[k][2] \in DOMAIN cs2[w2[k][1]].rpcs
         /\ cs2[w2[k][1]].rpcs[w2[k][2]].answer # -1
         /\ ~ cs2[w2[k][1]].rpcs[w2[k][2]].heard
  <2> TAKE k \in DOMAIN w2
  <2>1. CASE k \in DOMAIN w /\ w2[k] = w[k]
    BY <1>5, <2>1
  <2>2. CASE w2[k] = <<c, i>>
    <3>1. w2[k][1] = c /\ w2[k][2] = i
      BY <2>2
    <3> QED
      BY <1>4, <3>1
  <2> QED
    BY <1>2, <2>1, <2>2
<1>7. \A k, l \in DOMAIN w2 : w2[k] = w2[l] => k = l
  BY <1>2, <1>5 DEF AnswersInv
<1> QED
  BY <1>1, <1>6, <1>7 DEF AnswersInv, w2

LEMMA AnswersWhenHeard ==
    ASSUME NEW w, NEW cs, NEW cs2, NEW c, NEW i, NEW outcome, NEW name,
           AnswersInv(w, cs), w # <<>>, c = Head(w)[1], i = Head(w)[2],
           \/ RpcHeard(cs[c], cs2[c], i, outcome)
           \/ DOMAIN cs[c].rpcs = {i},
           OthersSame(cs, cs2, c)
    PROVE  AnswersInv(Tail(w), cs2)
<1> USE DEF OthersSame
<1> DEFINE w2 == Tail(w)
           n == Len(w)
<1>1. /\ w2 \in Seq(Callers \X Nat) /\ DOMAIN w2 = 1..(n - 1) /\ DOMAIN w = 1..n /\ n \in Nat /\ n >= 1
      /\ \A k \in 1..(n - 1) : w2[k] = w[k + 1]
      /\ w[1] = Head(w)
  BY DEF AnswersInv
<1> HIDE DEF w2, n
<1>2. \A k \in DOMAIN w2 : k + 1 \in DOMAIN w /\ w2[k] = w[k + 1] /\ k + 1 # 1 /\ k \in Int
  BY <1>1
<1>3. 1 \in DOMAIN w
  BY <1>1
<1>4. ASSUME NEW k \in DOMAIN w, k # 1
      PROVE  /\ w[k][2] \in DOMAIN cs2[w[k][1]].rpcs
             /\ cs2[w[k][1]].rpcs[w[k][2]].answer # -1 /\ ~ cs2[w[k][1]].rpcs[w[k][2]].heard
  <2>1. /\ w[k][1] \in Callers /\ w[k] = <<w[k][1], w[k][2]>> /\ w[1] = <<w[1][1], w[1][2]>>
    BY <1>3 DEF AnswersInv
  <2>2. /\ w[k][2] \in DOMAIN cs[w[k][1]].rpcs /\ w[k] # w[1]
        /\ cs[w[k][1]].rpcs[w[k][2]].answer # -1 /\ ~ cs[w[k][1]].rpcs[w[k][2]].heard
    BY <1>3, <1>4 DEF AnswersInv
  <2>3. ~ (w[k][1] = c /\ w[k][2] = i)
    BY <1>1, <2>1, <2>2
  <2>4. CASE w[k][1] # c
    BY <2>1, <2>2, <2>4
  <2>5. CASE w[k][1] = c
    <3>1. w[k][2] # i /\ w[k][2] \in DOMAIN cs[c].rpcs
      BY <2>2, <2>3, <2>5
    <3>2. RpcHeard(cs[c], cs2[c], i, outcome)
      BY <3>1
    <3>3. DOMAIN cs2[c].rpcs = DOMAIN cs[c].rpcs /\ cs2[c].rpcs[w[k][2]] = cs[c].rpcs[w[k][2]]
      BY <3>1, <3>2 DEF RpcHeard, SameOthers
    <3> QED
      BY <2>2, <2>5, <3>3
  <2> QED
    BY <2>4, <2>5
<1>6. \A k \in DOMAIN w2 :
         /\ w2[k][2] \in DOMAIN cs2[w2[k][1]].rpcs
         /\ cs2[w2[k][1]].rpcs[w2[k][2]].answer # -1
         /\ ~ cs2[w2[k][1]].rpcs[w2[k][2]].heard
  <2> TAKE k \in DOMAIN w2
  <2> PICK l \in DOMAIN w : l = k + 1 /\ w2[k] = w[l] /\ l # 1
    BY <1>2
  <2> QED
    BY <1>4
<1>7. \A k, l \in DOMAIN w2 : w2[k] = w2[l] => k = l
  <2> TAKE k, l \in DOMAIN w2
  <2>1. w2[k] = w2[l] => k + 1 = l + 1
    BY <1>2 DEF AnswersInv
  <2> QED
    BY <1>2, <2>1
<1> QED
  BY <1>1, <1>6, <1>7 DEF AnswersInv, w2

LEMMA HandlesCalled ==
    ASSUME HandlesInv, NEW c \in Callers, NEW op, NEW h, NEW rpcs, Handles!Call(c, op, h, rpcs),
           NewCall(op, h, rpcs, instances)
    PROVE  HandlesInv'
<1> DEFINE new == [op |-> op, on |-> h, rpcs |-> rpcs, outcome |-> "pending"]
<1>1. /\ handleCalls[c] = Handles!NotCalled /\ handleCalls' = [handleCalls EXCEPT ![c] = new]
      /\ UNCHANGED <<models, instances, handles, wire, disturbed>>
  BY DEF Handles!Call
<1>2. \A q \in BOOLEAN : HandleCallInv(new, models, instances, q)
  BY NewCallKeeps
<1> HIDE DEF new
<1>3. handleCalls \in [Callers -> HandleCallTypes] /\ new \in HandleCallTypes
  BY <1>2 DEF HandlesInv, HandleCallInv
<1>4. /\ handleCalls' \in [Callers -> HandleCallTypes] /\ handleCalls'[c] = new
      /\ \A d \in Callers : d # c => handleCalls'[d] = handleCalls[d]
  BY <1>1, <1>3
<1>5. (c \notin disturbed) \in BOOLEAN
  OBVIOUS
<1>6. ASSUME NEW d \in Callers
      PROVE  HandleCallInv(handleCalls'[d], models', instances', d \notin disturbed')
  <2>1. CASE d = c
    BY <1>1, <1>2, <1>4, <1>5, <2>1
  <2>2. CASE d # c
    BY <1>1, <1>4, <2>2 DEF HandlesInv
  <2> QED
    BY <2>1, <2>2
<1>7. DOMAIN handleCalls[c].rpcs = {}
  BY <1>1 DEF Handles!NotCalled
<1>8. AnswersInv(wire, handleCalls')
  <2>1. AnswersInv(wire, handleCalls)
    BY DEF HandlesInv
  <2>2. ASSUME NEW k \in DOMAIN wire
        PROVE  handleCalls'[wire[k][1]] = handleCalls[wire[k][1]]
    <3>1. wire[k][1] \in Callers
      BY <2>1 DEF AnswersInv
    <3>2. wire[k][1] # c
      BY <1>7, <2>1 DEF AnswersInv
    <3> QED
      BY <1>4, <3>1, <3>2
  <2> QED
    BY <2>1, <2>2 DEF AnswersInv
<1>9. /\ ModelsInv(models', instances') /\ AnswersInv(wire', handleCalls')
      /\ \A g \in handles' : IsSpecific(g, instances') /\ g \in HandleTypes
  BY <1>1, <1>8 DEF HandlesInv
<1> QED
  BY <1>4, <1>6, <1>9 DEF HandlesInv

LEMMA FreshOne ==
    ASSUME NEW name \in HandleRpcNames
    PROVE  FreshRpcs(<<Handles!Rpc(name)>>) /\ DOMAIN <<Handles!Rpc(name)>> = {1}
           /\ <<Handles!Rpc(name)>>[1].name = name
<1> PICK r : r = Handles!Rpc(name)
  OBVIOUS
<1>1. r \in HandleRpcs /\ r.answer = -1 /\ ~ r.heard /\ r.name = name
  BY DEF HandleRpcs, Handles!Rpc, Handles!Pending
<1> PICK s : s = <<r>>
  OBVIOUS
<1>2. s \in Seq(HandleRpcs) /\ DOMAIN s = {1} /\ s[1] = r
  BY <1>1
<1> QED
  BY <1>1, <1>2 DEF FreshRpcs

LEMMA FreshTwo ==
    ASSUME NEW name \in HandleRpcNames
    PROVE  LET s == <<Handles!Rpc(name), Handles!Rpc(name)>>
           IN  FreshRpcs(s) /\ DOMAIN s = {1, 2} /\ s[1].name = name /\ s[2].name = name
<1> PICK r : r = Handles!Rpc(name)
  OBVIOUS
<1>1. r \in HandleRpcs /\ r.answer = -1 /\ ~ r.heard /\ r.name = name
  BY DEF HandleRpcs, Handles!Rpc, Handles!Pending
<1> PICK s : s = <<r, r>>
  OBVIOUS
<1>2. s \in Seq(HandleRpcs) /\ DOMAIN s = {1, 2} /\ s[1] = r /\ s[2] = r
  BY <1>1
<1> QED
  BY <1>1, <1>2 DEF FreshRpcs

LEMMA HandlesCalledOne ==
    ASSUME HandlesInv, NEW c \in Callers, NEW op \in HandleOps \ {"none"}, NEW h \in HandleTypes,
           NEW name \in HandleRpcNames, HandleKind(h, instances),
           op = "unload" => IsSpecific(h, instances) /\ name = "getModelInfo",
           name = "unloadModel" => op = "ask" /\ h.id \in Ids,
           Handles!Call(c, op, h, <<Handles!Rpc(name)>>)
    PROVE  HandlesInv'
<1> PICK s : s = <<Handles!Rpc(name)>>
  OBVIOUS
<1>1. FreshRpcs(s) /\ DOMAIN s = {1} /\ s[1].name = name
  BY FreshOne
<1>2. NewCall(op, h, s, instances)
  BY <1>1 DEF NewCall
<1> QED
  BY <1>2, HandlesCalled

LEMMA HandlesCalledTwo ==
    ASSUME HandlesInv, NEW c \in Callers, NEW h \in HandleTypes,
           NEW name \in HandleRpcNames, HandleKind(h, instances), name # "unloadModel",
           Handles!Call(c, "ask", h, <<Handles!Rpc(name), Handles!Rpc(name)>>)
    PROVE  HandlesInv'
<1> PICK s : s = <<Handles!Rpc(name), Handles!Rpc(name)>>
  OBVIOUS
<1>1. FreshRpcs(s) /\ DOMAIN s = {1, 2} /\ s[1].name = name /\ s[2].name = name
  BY FreshTwo
<1>2. NewCall("ask", h, s, instances)
  BY <1>1 DEF NewCall, HandleOps
<1> QED
  BY <1>2, HandlesCalled

LEMMA HandlesCalls ==
    ASSUME HandlesInv, NEW c \in Callers, Handles!Calls(c)
    PROVE  HandlesInv'
<1>1. \A h \in handles : IsSpecific(h, instances) /\ h \in HandleTypes /\ HandleKind(h, instances)
  BY DEF HandlesInv, HandleKind
<1>2. \A id \in Ids : /\ Handles!DynamicHandle(id) \in HandleTypes
                     /\ HandleKind(Handles!DynamicHandle(id), instances)
                     /\ Handles!DynamicHandle(id).id = id
  <2>1. \A id \in Ids : /\ Handles!DynamicHandle(id) \in HandleTypes
                       /\ Handles!DynamicHandle(id).id = id
    BY DEF Handles!DynamicHandle, HandleTypes, Handles!None
  <2> QED
    BY <2>1 DEF HandleKind
<1>3. Handles!AnyModel \in HandleTypes /\ HandleKind(Handles!AnyModel, instances)
  <2>1. Handles!AnyModel \in HandleTypes
    BY DEF Handles!AnyModel, HandleTypes, Handles!None
  <2> QED
    BY <2>1 DEF HandleKind
<1>4. \A h \in Handles!Dynamic \cup handles : h \in HandleTypes /\ HandleKind(h, instances)
  BY <1>1, <1>2 DEF Handles!Dynamic
<1> USE DEF HandleOps, HandleRpcNames
<1>5. CASE Handles!GetModelInfo(c)
  BY <1>4, <1>5, HandlesCalledOne DEF Handles!GetModelInfo
<1>6. CASE Handles!GetContextLength(c)
  BY <1>4, <1>6, HandlesCalledOne DEF Handles!GetContextLength, Handles!Ask
<1>7. CASE Handles!ApplyPromptTemplate(c)
  BY <1>4, <1>7, HandlesCalledOne DEF Handles!ApplyPromptTemplate, Handles!Ask
<1>8. CASE Handles!CountTokens(c)
  BY <1>4, <1>8, HandlesCalledOne DEF Handles!CountTokens, Handles!Ask
<1>9. CASE Handles!GetBasePredictionConfig(c)
  BY <1>4, <1>9, HandlesCalledOne DEF Handles!GetBasePredictionConfig, Handles!Ask
<1>10. CASE Handles!GetInstanceProcessingState(c)
  BY <1>4, <1>10, HandlesCalledOne DEF Handles!GetInstanceProcessingState, Handles!Ask
<1>11. CASE Handles!PreloadDraftModel(c)
  BY <1>4, <1>11, HandlesCalledOne DEF Handles!PreloadDraftModel, Handles!Ask
<1>12. CASE Handles!TokenizeAll(c)
  BY <1>4, <1>12, HandlesCalledTwo DEF Handles!TokenizeAll, Handles!Ask
<1>13. CASE Handles!EmbedAll(c)
  BY <1>4, <1>13, HandlesCalledTwo DEF Handles!EmbedAll, Handles!Ask
<1>14. CASE Handles!GetLoadConfig(c)
  BY <1>4, <1>14, HandlesCalledOne DEF Handles!GetLoadConfig
<1>15. CASE Handles!UnloadIdentifier(c)
  BY <1>2, <1>15, HandlesCalledOne DEF Handles!UnloadIdentifier
<1>16. CASE Handles!GetAny(c)
  BY <1>3, <1>16, HandlesCalledOne DEF Handles!GetAny
<1>17. CASE Handles!FromReference(c)
  BY <1>1, <1>17, HandlesCalledOne DEF Handles!FromReference
<1>18. CASE Handles!UnloadHandle(c)
  BY <1>1, <1>18, HandlesCalledOne DEF Handles!UnloadHandle
<1> QED
  BY <1>5, <1>6, <1>7, <1>8, <1>9, <1>10, <1>11, <1>12, <1>13, <1>14, <1>15, <1>16, <1>17, <1>18
  DEF Handles!Calls

(* Models are loaded, listed and unloaded.                                 *)
LEMMA HandlesLoad ==
    ASSUME HandlesInv, Handles!ModelLoads
    PROVE  HandlesInv'
<1> PICK id \in Ids :
      /\ models[id] = 0 /\ instances' = Append(instances, id)
      /\ models' = [models EXCEPT ![id] = Len(instances')]
      /\ handles' \in {handles, handles \cup {Handles!SpecificHandle(Len(instances'), id)}}
      /\ disturbed' = disturbed \cup Handles!UnderWay
      /\ UNCHANGED <<handleCalls, wire>>
  BY DEF Handles!ModelLoads, Handles!None
<1> DEFINE n == Len(instances)
<1>1. /\ models \in [Ids -> Nat] /\ instances \in Seq(Ids)
      /\ \A d \in Ids : models[d] # 0 => models[d] \in DOMAIN instances /\ instances[models[d]] = d
  BY DEF HandlesInv, ModelsInv
<1>2. /\ n \in Nat /\ DOMAIN instances = 1..n /\ instances' \in Seq(Ids) /\ Len(instances') = n + 1
      /\ DOMAIN instances' = 1..(n + 1) /\ instances'[n + 1] = id
      /\ \A k \in 1..n : instances'[k] = instances[k]
  BY <1>1
<1> HIDE DEF n
<1>3. /\ DOMAIN instances \subseteq DOMAIN instances' /\ n + 1 \in Nat /\ n + 1 \in DOMAIN instances'
      /\ \A k \in DOMAIN instances : instances'[k] = instances[k]
  BY <1>2
<1>4. ModelsInv(models', instances')
  <2>1. models' \in [Ids -> Nat] /\ models'[id] = n + 1 /\ \A d \in Ids : d # id => models'[d] = models[d]
    BY <1>1, <1>2, <1>3
  <2> QED
    BY <1>1, <1>2, <1>3, <2>1 DEF ModelsInv
<1>5. \A h : IsSpecific(h, instances) => IsSpecific(h, instances')
  BY <1>3 DEF IsSpecific
<1>6. \A h \in handles' : IsSpecific(h, instances') /\ h \in HandleTypes
  <2> PICK g : g = Handles!SpecificHandle(n + 1, id)
    OBVIOUS
  <2>1. IsSpecific(g, instances') /\ g \in HandleTypes
    BY <1>2, <1>3 DEF IsSpecific, HandleTypes, Handles!SpecificHandle
  <2> QED
    BY <1>2, <1>5, <2>1 DEF HandlesInv
<1>7. ASSUME NEW c \in Callers
      PROVE  HandleCallInv(handleCalls'[c], models', instances', c \notin disturbed')
  <2> PICK q \in BOOLEAN, q2 \in BOOLEAN : q = (c \notin disturbed) /\ q2 = (c \notin disturbed')
    OBVIOUS
  <2>1. q2 => q /\ handleCalls[c].outcome # "pending"
    BY DEF Handles!UnderWay
  <2>2. HandleCallInv(handleCalls[c], models, instances, q)
    BY DEF HandlesInv
  <2> QED
    BY <1>3, <1>5, <2>1, <2>2, OthersChangeModels
<1> QED
  BY <1>4, <1>6, <1>7 DEF HandlesInv

LEMMA HandlesUnload ==
    ASSUME HandlesInv, Handles!ModelUnloads
    PROVE  HandlesInv'
<1> PICK id \in Ids :
      /\ models' = [models EXCEPT ![id] = 0] /\ disturbed' = disturbed \cup Handles!UnderWay
      /\ UNCHANGED <<instances, handles, handleCalls, wire>>
  BY DEF Handles!ModelUnloads, Handles!None
<1>1. ModelsInv(models', instances')
  BY DEF HandlesInv, ModelsInv
<1>2. ASSUME NEW c \in Callers
      PROVE  HandleCallInv(handleCalls'[c], models', instances', c \notin disturbed')
  <2> PICK q \in BOOLEAN, q2 \in BOOLEAN : q = (c \notin disturbed) /\ q2 = (c \notin disturbed')
    OBVIOUS
  <2>1. q2 => q /\ handleCalls[c].outcome # "pending"
    BY DEF Handles!UnderWay
  <2>2. HandleCallInv(handleCalls[c], models, instances, q)
    BY DEF HandlesInv
  <2> QED
    BY <2>1, <2>2, OthersChangeModels
<1> QED
  BY <1>1, <1>2 DEF HandlesInv

LEMMA HandlesList ==
    ASSUME HandlesInv, Handles!ListLoaded
    PROVE  HandlesInv'
<1>1. /\ handles' = handles \cup {Handles!SpecificHandle(models[id], id) : id \in {i \in Ids : models[i] # 0}}
      /\ UNCHANGED <<models, instances, handleCalls, wire, disturbed>>
  BY DEF Handles!ListLoaded, Handles!None
<1>2. ASSUME NEW id \in Ids, models[id] # 0, NEW g, g = Handles!SpecificHandle(models[id], id)
      PROVE  IsSpecific(g, instances) /\ g \in HandleTypes
  BY <1>2 DEF HandlesInv, ModelsInv, IsSpecific, HandleTypes, Handles!SpecificHandle
<1>3. \A h \in handles' : IsSpecific(h, instances') /\ h \in HandleTypes
  BY <1>1, <1>2 DEF HandlesInv
<1> QED
  BY <1>1, <1>3 DEF HandlesInv

(* The server takes an rpc.                                                *)
LEMMA HandlesTaken ==
    ASSUME HandlesInv, NEW c \in Callers, NEW i \in DOMAIN handleCalls[c].rpcs, NEW ref \in Nat,
           handleCalls' = [handleCalls EXCEPT ![c].rpcs[i].answer = ref],
           wire' = Append(wire, <<c, i>>), handleCalls[c].rpcs[i].answer = -1
    PROVE  /\ RpcAnswered(handleCalls[c], handleCalls'[c], i, ref)
           /\ handleCalls' \in [Callers -> HandleCallTypes]
           /\ \A d \in Callers : d # c => handleCalls'[d] = handleCalls[d]
           /\ AnswersInv(wire', handleCalls')
<1>1. handleCalls \in [Callers -> HandleCallTypes] /\ AnswersInv(wire, handleCalls)
  BY DEF HandlesInv
<1>2. RpcAnswered(handleCalls[c], handleCalls'[c], i, ref)
  BY <1>1, RpcAnsweredIs
<1>3. \A d \in Callers : d # c => handleCalls'[d] = handleCalls[d]
  BY <1>1
<1>4. handleCalls' \in [Callers -> HandleCallTypes]
  <2>1. DOMAIN handleCalls' = Callers /\ handleCalls'[c] \in HandleCallTypes
    BY <1>1, <1>2 DEF RpcAnswered, SameOthers
  <2>2. handleCalls' = [d \in Callers |-> handleCalls'[d]]
    BY <1>1
  <2> QED
    BY <1>1, <1>3, <2>1, <2>2
<1>5. i \in Nat /\ ~ handleCalls[c].rpcs[i].heard
  <2>1. HandleCallShape(handleCalls[c], instances)
    BY DEF HandlesInv, HandleCallInv
  <2> QED
    BY <2>1 DEF HandleCallShape
<1>6. AnswersInv(Append(wire, <<c, i>>), handleCalls')
  <2>1. handleCalls[c].rpcs[i].answer = -1 /\ ref # -1
    OBVIOUS
  <2> HIDE DEF HandlesInv
  <2> PICK cs, cs2 : cs = handleCalls /\ cs2 = handleCalls'
    OBVIOUS
  <2>2. /\ AnswersInv(wire, cs) /\ RpcAnswered(cs[c], cs2[c], i, ref) /\ i \in DOMAIN cs[c].rpcs
        /\ cs[c].rpcs[i].answer = -1 /\ ~ cs[c].rpcs[i].heard
        /\ OthersSame(cs, cs2, c)
    BY <1>1, <1>2, <1>3, <1>5, <2>1 DEF OthersSame
  <2>3. AnswersInv(Append(wire, <<c, i>>), cs2)
    BY <1>5, <2>1, <2>2, AnswersWhenAnswered
  <2> QED
    BY <2>3
<1> QED
  BY <1>2, <1>3, <1>4, <1>6

LEMMA HandlesTakeUnload ==
    ASSUME HandlesInv, NEW c \in Callers, NEW i \in DOMAIN handleCalls[c].rpcs, Handles!Takes(c, i),
           handleCalls[c].rpcs[i].name = "unloadModel"
    PROVE  HandlesInv'
<1> DEFINE r == handleCalls[c]
           id == handleCalls[c].on.id
           ref == models[handleCalls[c].on.id]
<1>1. /\ r.rpcs[i].answer = -1
      /\ handleCalls' = [handleCalls EXCEPT ![c].rpcs[i].answer = ref]
      /\ wire' = Append(wire, <<c, i>>) /\ models' = [models EXCEPT ![id] = 0]
      /\ disturbed' = disturbed \cup (Handles!UnderWay \ {c})
      /\ UNCHANGED <<instances, handles>>
  BY DEF Handles!Takes, Handles!Pending, Handles!None
<1>2. id \in Ids
  BY DEF HandlesInv, HandleCallInv, HandleCallShape
<1>3. ref \in Nat
  BY <1>2 DEF HandlesInv, ModelsInv
<1> HIDE DEF r, ref
<1>4. /\ RpcAnswered(r, handleCalls'[c], i, ref)
      /\ handleCalls' \in [Callers -> HandleCallTypes]
      /\ \A d \in Callers : d # c => handleCalls'[d] = handleCalls[d]
      /\ AnswersInv(wire', handleCalls')
  BY <1>1, <1>3, HandlesTaken DEF r
<1>5. ModelsInv(models, instances) /\ ModelsInv(models', instances')
  BY <1>1, <1>2 DEF HandlesInv, ModelsInv
<1>6. HandleCallInv(handleCalls'[c], models', instances', c \notin disturbed')
  <2> PICK q \in BOOLEAN : q = (c \notin disturbed) /\ q = (c \notin disturbed')
    BY <1>1
  <2>1. HandleCallInv(r, models, instances, q) /\ i \in DOMAIN r.rpcs
        /\ r.rpcs[i].name = "unloadModel"
    BY DEF HandlesInv, r
  <2>2. ref = models[r.on.id]
    BY DEF ref, r
  <2> PICK r2, ms2 : r2 = handleCalls'[c] /\ ms2 = models'
    OBVIOUS
  <2>3. RpcAnswered(r, r2, i, ref) /\ r.rpcs[i].answer = -1
    BY <1>1, <1>4, <2>2 DEF r
  <2>6. UnloadTaken(r, r2, models, instances, q, i, ref)
    BY <1>5, <2>1, <2>2, <2>3 DEF UnloadTaken
  <2>4. HandleCallInv(r2, ms2, instances, q)
    BY <2>6, UnloadKeeps
  <2>5. HandleCallInv(handleCalls'[c], models', instances, q)
    BY <2>4
  <2> QED
    BY <1>1, <2>5
<1>7. ASSUME NEW d \in Callers, d # c
      PROVE  HandleCallInv(handleCalls'[d], models', instances', d \notin disturbed')
  <2> PICK q \in BOOLEAN, q2 \in BOOLEAN : q = (d \notin disturbed) /\ q2 = (d \notin disturbed')
    OBVIOUS
  <2>1. q2 => q /\ handleCalls[d].outcome # "pending"
    BY <1>1, <1>7 DEF Handles!UnderWay
  <2>2. HandleCallInv(handleCalls[d], models, instances, q)
    BY DEF HandlesInv
  <2>3. HandleCallInv(handleCalls[d], models', instances, q2)
    BY <2>1, <2>2, OthersChangeModels
  <2> QED
    BY <1>1, <1>4, <1>7, <2>3
<1> QED
  BY <1>1, <1>4, <1>5, <1>6, <1>7 DEF HandlesInv

LEMMA HandlesTakeOther ==
    ASSUME HandlesInv, NEW c \in Callers, NEW i \in DOMAIN handleCalls[c].rpcs, Handles!Takes(c, i),
           handleCalls[c].rpcs[i].name # "unloadModel"
    PROVE  HandlesInv'
<1> DEFINE r == handleCalls[c]
           h == handleCalls[c].on
<1>1. PICK ref : /\ r.rpcs[i].answer = -1
                 /\ handleCalls' = [handleCalls EXCEPT ![c].rpcs[i].answer = ref]
                 /\ wire' = Append(wire, <<c, i>>)
                 /\ ref \in Handles!Satisfying(h) \/ (Handles!Satisfying(h) = {} /\ ref = 0)
                 /\ UNCHANGED <<models, disturbed, instances, handles>>
  <2>1. r.rpcs[i].answer = -1 /\ UNCHANGED <<models, disturbed, instances, handles>>
    BY DEF Handles!Takes, Handles!Pending
  <2>2. CASE Handles!Satisfying(h) = {}
    BY <2>1, <2>2 DEF Handles!Takes, Handles!None
  <2>3. CASE Handles!Satisfying(h) # {}
    BY <2>1, <2>3 DEF Handles!Takes
  <2> QED
    BY <2>2, <2>3
<1>2. ModelsInv(models, instances)
  BY DEF HandlesInv
<1>3. ref \in {0} \cup {models[id] : id \in Ids}
  <2>1. Handles!Satisfying(h) \subseteq {models[id] : id \in Ids} \/ \E d \in Ids : h = Handles!DynamicHandle(d)
    BY DEF Handles!Satisfying, HandlesInv, HandleCallInv, HandleCallShape, HandleKind, IsSpecific
  <2>2. ASSUME NEW d \in Ids, h = Handles!DynamicHandle(d)
        PROVE  Handles!Satisfying(h) \subseteq {models[id] : id \in Ids}
    BY <2>2 DEF Handles!Satisfying, Handles!DynamicHandle
  <2> QED
    BY <1>1, <2>1, <2>2
<1>4. ref \in Nat /\ ref # -1 /\ ref \in {0} \cup DOMAIN instances
      /\ (ref # 0 => \E id \in Ids : models[id] = ref)
  BY <1>2, <1>3 DEF ModelsInv
<1>5. IsSpecific(h, instances) => ref \in {0, h.ref}
  BY <1>1 DEF IsSpecific, Handles!Satisfying
<1>6. ASSUME NEW id \in Ids, h = Handles!DynamicHandle(id), h # Handles!AnyModel
      PROVE  ref = models[id]
  <2>1. Handles!Satisfying(h) = {models[id]} \ {0}
    BY <1>6 DEF Handles!Satisfying, Handles!DynamicHandle, Handles!None
  <2> QED
    BY <1>1, <2>1
<1> HIDE DEF r, h
<1>7. /\ RpcAnswered(r, handleCalls'[c], i, ref)
      /\ handleCalls' \in [Callers -> HandleCallTypes]
      /\ \A d \in Callers : d # c => handleCalls'[d] = handleCalls[d]
      /\ AnswersInv(wire', handleCalls')
  BY <1>1, <1>4, HandlesTaken DEF r
<1>8. HandleCallInv(handleCalls'[c], models', instances', c \notin disturbed')
  <2> PICK q \in BOOLEAN : q = (c \notin disturbed) /\ q = (c \notin disturbed')
    BY <1>1
  <2>1. HandleCallInv(r, models, instances, q) /\ i \in DOMAIN r.rpcs
        /\ r.rpcs[i].name # "unloadModel" /\ h = r.on
    BY DEF HandlesInv, r, h
  <2> PICK r2 : r2 = handleCalls'[c]
    OBVIOUS
  <2>2. /\ RpcAnswered(r, r2, i, ref) /\ r.rpcs[i].answer = -1
        /\ RightAnswer(r, ref, models, instances)
    BY <1>1, <1>4, <1>5, <1>6, <1>7, <2>1 DEF r, RightAnswer
  <2>4. AnswerTaken(r, r2, models, instances, q, i, ref)
    BY <1>2, <1>4, <2>1, <2>2 DEF AnswerTaken
  <2>3. HandleCallInv(r2, models, instances, q)
    BY <2>4, AnswerKeeps
  <2> QED
    BY <1>1, <2>3
<1>9. ASSUME NEW d \in Callers, d # c
      PROVE  HandleCallInv(handleCalls'[d], models', instances', d \notin disturbed')
  BY <1>1, <1>7, <1>9 DEF HandlesInv
<1> QED
  BY <1>1, <1>2, <1>7, <1>8, <1>9 DEF HandlesInv

(* The client hears an answer.  Whatever becomes of the call, the others   *)
(* stay as they are.                                                       *)
LEMMA HandlesCallChanged ==
    ASSUME NEW cs, NEW cs2, NEW c \in Callers, NEW new, cs \in [Callers -> HandleCallTypes],
           cs2 = [cs EXCEPT ![c] = new], cs2[c] \in HandleCallTypes
    PROVE  cs2 \in [Callers -> HandleCallTypes] /\ OthersSame(cs, cs2, c)
<1>1. cs2[c] = new /\ \A d \in Callers : d # c => cs2[d] = cs[d]
  OBVIOUS
<1> QED
  BY <1>1 DEF OthersSame

LEMMA HandlesHear ==
    ASSUME HandlesInv, Handles!ClientHears
    PROVE  HandlesInv'
<1> DEFINE c == Head(wire)[1]
           i == Head(wire)[2]
           r == handleCalls[Head(wire)[1]]
           ref == handleCalls[Head(wire)[1]].rpcs[Head(wire)[2]].answer
<1>1. /\ wire # <<>> /\ wire' = Tail(wire) /\ Handles!Hears(c, i)
      /\ handles' = IF r.op = "handle" /\ ref # 0
                    THEN handles \cup {Handles!SpecificHandle(ref, instances[ref])} ELSE handles
      /\ UNCHANGED <<models, instances, disturbed>>
  BY DEF Handles!ClientHears, Handles!None
<1>2. AnswersInv(wire, handleCalls) /\ handleCalls \in [Callers -> HandleCallTypes]
  BY DEF HandlesInv
<1>3. /\ c \in Callers /\ i \in DOMAIN r.rpcs /\ ref # -1 /\ ~ r.rpcs[i].heard
  <2>1. 1 \in DOMAIN wire /\ wire[1] = Head(wire) /\ wire[1] \in Callers \X Nat
    BY <1>1, <1>2 DEF AnswersInv
  <2> QED
    BY <1>2, <2>1 DEF AnswersInv
<1> PICK q \in BOOLEAN : q = (c \notin disturbed)
  OBVIOUS
<1>4. HandleCallInv(r, models, instances, q) /\ ModelsInv(models, instances)
  BY <1>3 DEF HandlesInv
<1>5. /\ HandleCallShape(r, instances) /\ AnswersExist(r, instances) /\ r \in HandleCallTypes
  BY <1>4 DEF HandleCallInv
<1>6. /\ DOMAIN r.rpcs \subseteq {1, 2} /\ i \in {1, 2} /\ 1 \in DOMAIN r.rpcs
      /\ r.op \in {"unload", "config"} /\ 2 \in DOMAIN r.rpcs => r.rpcs[1].heard
  <2>1. DOMAIN r.rpcs \subseteq {1, 2} /\ (2 \in DOMAIN r.rpcs => 1 \in DOMAIN r.rpcs)
    BY <1>5 DEF HandleCallShape
  <2>2. r.op \in {"unload", "config"} /\ 2 \in DOMAIN r.rpcs => r.rpcs[1].heard
    BY <1>5 DEF HandleCallShape
  <2> QED
    BY <1>3, <2>1, <2>2
<1>7. \A h \in handles' : IsSpecific(h, instances') /\ h \in HandleTypes
  <2>1. ref \in {0} \cup DOMAIN instances
    BY <1>3, <1>5 DEF AnswersExist
  <2>2. ASSUME ref # 0, NEW g, g = Handles!SpecificHandle(ref, instances[ref])
        PROVE  IsSpecific(g, instances) /\ g \in HandleTypes
    <3> HIDE DEF ref
    <3>0. instances \in Seq(Ids) /\ ref \in DOMAIN instances
      BY <1>4, <2>1, <2>2 DEF ModelsInv
    <3>1. instances \in Seq(Ids) /\ ref \in DOMAIN instances /\ ref \in Nat
      BY <3>0
    <3>2. instances[ref] \in Ids
      BY <3>1
    <3> QED
      BY <2>2, <3>1, <3>2 DEF IsSpecific, HandleTypes, Handles!SpecificHandle
  <2>3. \A h \in handles : IsSpecific(h, instances) /\ h \in HandleTypes
    BY DEF HandlesInv
  <2> QED
    BY <1>1, <2>2, <2>3
<1>8. r.outcome # "none"
  BY <1>5, <1>6 DEF HandleCallShape, Handles!NotCalled
<1> HIDE DEF c, i, r, ref
<1>20. r = handleCalls[c] /\ ref = r.rpcs[i].answer /\ c = Head(wire)[1] /\ i = Head(wire)[2]
  BY DEF c, i, r, ref
(* What remains to be shown of the call.                                   *)
<1> DEFINE Kept == /\ handleCalls' \in [Callers -> HandleCallTypes]
                   /\ OthersSame(handleCalls, handleCalls', c)
                   /\ HandleCallInv(handleCalls'[c], models, instances, q)
                   /\ AnswersInv(wire', handleCalls')
<1>9. ASSUME NEW outcome, Handles!Settle(c, i, outcome), HeardOutcome(r, i, outcome),
             r.op = "unload" /\ r.outcome = "pending" /\ outcome # "rejected" => i = 2
      PROVE  Kept
  <2>1. handleCalls' = [handleCalls EXCEPT ![c].rpcs[i].heard = TRUE, ![c].outcome = outcome]
    BY <1>9 DEF Handles!Settle
  <2>2. outcome \in HandleOutcomes
    BY <1>9 DEF HeardOutcome
  <2> PICK cs, cs2 : cs = handleCalls /\ cs2 = handleCalls'
    OBVIOUS
  <2>3. RpcHeard(cs[c], cs2[c], i, outcome) /\ cs[c] = r
    BY <1>2, <1>3, <1>20, <2>1, <2>2, RpcHeardIs
  <2>4. cs \in [Callers -> HandleCallTypes] /\ cs2[c] \in HandleCallTypes
    BY <1>2, <2>3 DEF RpcHeard, SameOthers
  <2>5. \E new : cs2 = [cs EXCEPT ![c] = new]
    BY <2>1
  <2>6. cs2 \in [Callers -> HandleCallTypes] /\ OthersSame(cs, cs2, c)
    BY <1>3, <2>4, <2>5, HandlesCallChanged
  <2>7. AnswersInv(Tail(wire), cs2)
    BY <1>1, <1>2, <1>20, <2>3, <2>6, AnswersWhenHeard
  <2>8. HandleCallInv(cs2[c], models, instances, q)
    BY <1>3, <1>4, <1>9, <1>20, <2>3, HearKeeps
  <2> QED
    BY <1>1, <2>6, <2>7, <2>8
<1>10. ASSUME NEW name, Handles!AsksNext(c, name), i = 1, ref # 0, r.outcome = "pending",
              \/ r.op = "unload" /\ name = "unloadModel"
              \/ r.op = "config" /\ name = "getModelInfo"
       PROVE  Kept
  <2>1. handleCalls' = [handleCalls EXCEPT ![c].rpcs = <<[handleCalls[c].rpcs[1] EXCEPT !.heard = TRUE],
                                                         Handles!Rpc(name)>>]
    BY <1>10 DEF Handles!AsksNext
  <2>2. name \in HandleRpcNames
    BY <1>10 DEF HandleRpcNames
  <2> PICK cs, cs2 : cs = handleCalls /\ cs2 = handleCalls'
    OBVIOUS
  <2>3. RpcFollows(cs[c], cs2[c], name) /\ cs[c] = r
    BY <1>2, <1>3, <1>6, <1>20, <2>1, <2>2, RpcFollowsIs
  <2>4. cs \in [Callers -> HandleCallTypes] /\ cs2[c] \in HandleCallTypes
    BY <1>2, <2>3 DEF RpcFollows
  <2>5. \E new : cs2 = [cs EXCEPT ![c] = new]
    BY <2>1
  <2>6. cs2 \in [Callers -> HandleCallTypes] /\ OthersSame(cs, cs2, c)
    BY <1>3, <2>4, <2>5, HandlesCallChanged
  <2>9. 2 \notin DOMAIN r.rpcs /\ DOMAIN cs[c].rpcs = {i}
    BY <1>3, <1>6, <1>10, <2>3
  <2>7. AnswersInv(Tail(wire), cs2)
    BY <1>1, <1>2, <1>20, <2>6, <2>9, AnswersWhenHeard
  <2>10. r.rpcs[1].answer \notin {-1, 0}
    BY <1>3, <1>10, <1>20
  <2>8. HandleCallInv(cs2[c], models, instances, q)
    BY <1>4, <1>6, <1>10, <2>3, <2>9, <2>10, FollowKeeps
  <2> QED
    BY <1>1, <2>6, <2>7, <2>8
<1>11. Kept
  <2>0. /\ r.outcome \in HandleOutcomes /\ Handles!None = 0
    BY <1>5 DEF HandleCallTypes, Handles!None
  <2>1. CASE r.outcome # "pending"
    <3>1. Handles!Settle(c, i, r.outcome)
      BY <1>1, <1>20, <2>1 DEF Handles!Hears
    <3>2. HeardOutcome(r, i, r.outcome)
      BY <1>8, <2>0, <2>1 DEF HeardOutcome
    <3> QED
      BY <1>9, <2>1, <3>1, <3>2
  <2>2. CASE r.outcome = "pending" /\ Handles!UnloadsNext(c, i)
    <3>1. i = 1 /\ r.op = "unload" /\ ref # 0
      BY <1>20, <2>0, <2>2 DEF Handles!UnloadsNext
    <3>2. Handles!AsksNext(c, "unloadModel")
      BY <1>1, <1>20, <2>2 DEF Handles!Hears
    <3> QED
      BY <1>10, <2>2, <3>1, <3>2
  <2>3. CASE r.outcome = "pending" /\ ~ Handles!UnloadsNext(c, i) /\ r.op = "config" /\ i = 1 /\ ref # 0
    <3>1. Handles!AsksNext(c, "getModelInfo")
      BY <1>1, <1>20, <2>0, <2>3 DEF Handles!Hears
    <3> QED
      BY <1>10, <2>3, <3>1
  <2>4. CASE /\ r.outcome = "pending" /\ ~ Handles!UnloadsNext(c, i)
             /\ ~ (r.op = "config" /\ i = 1 /\ ref # 0) /\ ref = 0 /\ r.op # "info"
    <3>1. Handles!Settle(c, i, "rejected")
      BY <1>1, <1>20, <2>0, <2>4 DEF Handles!Hears
    <3>2. HeardOutcome(r, i, "rejected")
      BY <1>20, <2>4 DEF HeardOutcome, HandleOutcomes
    <3> QED
      BY <1>9, <3>1, <3>2
  <2>5. CASE /\ r.outcome = "pending" /\ ~ Handles!UnloadsNext(c, i)
             /\ ~ (r.op = "config" /\ i = 1 /\ ref # 0) /\ ~ (ref = 0 /\ r.op # "info")
    <3>0. PICK outcome : outcome = IF Handles!OthersHeard(c, i) THEN "resolved" ELSE "pending"
      OBVIOUS
    <3>1. Handles!Settle(c, i, outcome)
      BY <1>1, <1>20, <2>0, <2>5, <3>0 DEF Handles!Hears
    <3>2. HeardOutcome(r, i, outcome)
      <4>1. CASE Handles!OthersHeard(c, i)
        <5>1. \A j \in DOMAIN r.rpcs : j # i => r.rpcs[j].heard
          BY <1>20, <4>1 DEF Handles!OthersHeard
        <5> QED
          BY <2>5, <3>0, <4>1, <5>1 DEF HeardOutcome, HandleOutcomes
      <4>2. CASE ~ Handles!OthersHeard(c, i)
        BY <2>5, <3>0, <4>2 DEF HeardOutcome, HandleOutcomes
      <4> QED
        BY <4>1, <4>2
    <3>3. r.op = "unload" => i = 2
      BY <1>6, <1>20, <2>0, <2>5 DEF Handles!UnloadsNext
    <3> QED
      BY <1>9, <3>1, <3>2, <3>3
  <2> HIDE DEF Kept
  <2> QED
    BY <2>1, <2>2, <2>3, <2>4, <2>5
<1>12. ASSUME NEW d \in Callers
       PROVE  HandleCallInv(handleCalls'[d], models', instances', d \notin disturbed')
  <2>1. CASE d = c
    <3>1. HandleCallInv(handleCalls'[c], models, instances, q)
      BY <1>11
    <3> PICK r2 : r2 = handleCalls'[c]
      OBVIOUS
    <3>2. HandleCallInv(r2, models', instances', c \notin disturbed')
      BY <1>1, <3>1
    <3> QED
      BY <2>1, <3>2
  <2>2. CASE d # c
    <3>1. HandleCallInv(handleCalls[d], models, instances, d \notin disturbed)
      BY DEF HandlesInv
    <3>2. handleCalls'[d] = handleCalls[d]
      BY <1>11, <2>2 DEF OthersSame
    <3> QED
      BY <1>1, <3>1, <3>2
  <2> QED
    BY <2>1, <2>2
<1>13. ModelsInv(models', instances') /\ handleCalls' \in [Callers -> HandleCallTypes]
       /\ AnswersInv(wire', handleCalls')
  BY <1>1, <1>4, <1>11
<1> QED
  BY <1>7, <1>12, <1>13 DEF HandlesInv

LEMMA HandlesInvKept ==
    ASSUME HandlesInv, [Handles!Next]_handlesVars
    PROVE  HandlesInv'
<1>1. CASE \E c \in Callers : Handles!Calls(c)
  BY <1>1, HandlesCalls
<1>2. CASE Handles!ServerTakes
  BY <1>2, HandlesTakeUnload, HandlesTakeOther DEF Handles!ServerTakes
<1>3. CASE Handles!ClientHears
  BY <1>3, HandlesHear
<1>4. CASE Handles!ModelLoads
  BY <1>4, HandlesLoad
<1>5. CASE Handles!ListLoaded
  BY <1>5, HandlesList
<1>6. CASE Handles!ModelUnloads
  BY <1>6, HandlesUnload
<1>7. CASE UNCHANGED handlesVars
  BY <1>7 DEF handlesVars, HandlesInv
<1> QED
  BY <1>1, <1>2, <1>3, <1>4, <1>5, <1>6, <1>7 DEF Handles!Next

(* A set with no two elements has one or none.                             *)
LEMMA AtMostOne ==
    ASSUME NEW S, \A x, y \in S : x = y
    PROVE  Handles!Cardinality(S) <= 1
<1>1. CASE S = {}
  BY <1>1, FS_EmptySet DEF Handles!Cardinality, Cardinality
<1>2. CASE S # {}
  <2> PICK x \in S : TRUE
    BY <1>2
  <2>1. S = {x}
    OBVIOUS
  <2>2. Cardinality(S) = 1
    BY <2>1, FS_Singleton
  <2> QED
    BY <2>2 DEF Handles!Cardinality, Cardinality
<1> QED
  BY <1>1, <1>2

LEMMA HandlesInvHolds == HandlesInv => HandlesAgree
<1> SUFFICES ASSUME HandlesInv PROVE Handles!SpecificNeverMixes /\ Handles!QuietCallsSeeOneModel
  BY DEF HandlesAgree
<1>1. ASSUME NEW c \in Callers
      PROVE  HandleCallInv(handleCalls[c], models, instances, c \notin disturbed)
  BY DEF HandlesInv
<1>2. ASSUME NEW c \in Callers, NEW a \in Handles!AnswersOf(c)
      PROVE  \E j \in DOMAIN handleCalls[c].rpcs : /\ handleCalls[c].rpcs[j].name # "unloadModel"
                                                   /\ handleCalls[c].rpcs[j].answer = a
                                                   /\ a \notin {-1, 0}
  BY DEF Handles!AnswersOf, Handles!Pending, Handles!None
<1>3. ASSUME NEW c \in Callers, handleCalls[c].on \in handles
      PROVE  Handles!AnswersOf(c) \subseteq {handleCalls[c].on.ref}
  <2>1. IsSpecific(handleCalls[c].on, instances)
    BY <1>3 DEF HandlesInv
  <2>2. SpecificAnswers(handleCalls[c], instances)
    BY <1>1 DEF HandleCallInv
  <2> QED
    BY <1>2, <2>1, <2>2 DEF SpecificAnswers
<1>4. ASSUME NEW c \in Callers, c \notin disturbed, handleCalls[c].on # Handles!AnyModel
      PROVE  Handles!Cardinality(Handles!AnswersOf(c)) <= 1
  <2>1. QuietAnswers(handleCalls[c], models)
    BY <1>1, <1>4 DEF HandleCallInv
  <2>2. \A a, b \in Handles!AnswersOf(c) : a = b
    BY <1>2, <1>4, <2>1 DEF QuietAnswers
  <2> PICK S : S = Handles!AnswersOf(c)
    OBVIOUS
  <2>3. Handles!Cardinality(S) <= 1
    BY <2>2, AtMostOne
  <2> QED
    BY <2>3
<1>5. ASSUME NEW c \in Callers, c \notin disturbed, handleCalls[c].op = "unload",
             handleCalls[c].outcome = "resolved"
      PROVE  handleCalls[c].rpcs[2].answer = handleCalls[c].on.ref
  <2>1. QuietUnload(handleCalls[c], models)
    BY <1>1, <1>5 DEF HandleCallInv
  <2> QED
    BY <1>5, <2>1 DEF QuietUnload
<1> QED
  BY <1>3, <1>4, <1>5 DEF Handles!SpecificNeverMixes, Handles!QuietCallsSeeOneModel

-----------------------------------------------------------------------------
(* The download planner.                                                   *)

PlannerAsked == [version : Nat, option : Options, outcome : {"pending", "resolved", "rejected"}]
PlannerEarly == {"resolving", "committedEarly"}

IsPlan(m) == m.type \in {"planReady", "planUpdated"}
IsSelect(m) == m.type = "select"

(* An option that comes with a version is the one selected last, unless    *)
(* the version is older.                                                   *)
OptionFits(a, v, o) == a # <<>> /\ v >= a[Len(a)].version => o = a[Len(a)].option

(* Versions do not go down from the plan that is shown (p) along the plans *)
(* on their way to LM Studio's plan (sp), and none of LM Studio's is above *)
(* the selections on their way, below the next number (n).  A plan is      *)
(* ready once, and the channel ends with LM Studio.                        *)
GoodForClient(m, p, sp, a, is, st) ==
    /\ IsPlan(m) => /\ p.version <= m.plan.version /\ m.plan.version <= sp.version
                    /\ OptionFits(a, m.plan.version, m.plan.option)
    /\ m.type = "planReady" => st \notin PlannerEarly /\ (~ is => m.plan.version = sp.version)
    /\ ~ IsPlan(m) => st = "ended"

PlanOrder(m1, m2) == IsPlan(m1) /\ IsPlan(m2) => m1.plan.version <= m2.plan.version

GoodToClient(w, p, sp, a, is, st) ==
    /\ w \in Seq(Planner!ToClient)
    /\ \A k \in DOMAIN w : GoodForClient(w[k], p, sp, a, is, st)
    /\ \A k, l \in DOMAIN w : k < l => PlanOrder(w[k], w[l])

(* Nothing is selected before the plan is ready, nor after the commit.     *)
GoodForServer(m, sp, n, a, is, com) ==
    /\ IsSelect(m) => /\ is /\ sp.version <= m.version /\ m.version < n
                      /\ OptionFits(a, m.version, m.option)
    /\ m.type = "commit" => com

SelectOrder(m1, m2, cancelable) ==
    /\ IsSelect(m1) /\ IsSelect(m2) => m1.version <= m2.version
    /\ m1.type = "commit" => ~ IsSelect(m2) /\ (m2.type = "cancelPlan" => cancelable)

GoodToServer(w, sp, n, a, is, com, cancelable) ==
    /\ w \in Seq(Planner!ToServer)
    /\ \A k \in DOMAIN w : GoodForServer(w[k], sp, n, a, is, com)
    /\ \A k, l \in DOMAIN w : k < l => SelectOrder(w[k], w[l], cancelable)

GoodPlanner(p, sp, n, a, is, com, ch, st) ==
    /\ p \in Planner!Plans /\ sp \in Planner!Plans /\ n \in Nat /\ a \in Seq(PlannerAsked)
    /\ is \in BOOLEAN
    /\ p.version <= sp.version
    /\ OptionFits(a, p.version, p.option) /\ OptionFits(a, sp.version, sp.option)
    /\ ~ is => a = <<>>
    /\ is => sp.version < n /\ st \notin PlannerEarly
    /\ st \in {"committedEarly", "downloading"} => com
    /\ ch # "open" => st = "ended"
    /\ a # <<>> /\ a[Len(a)].outcome = "resolved" => p.version >= a[Len(a)].version
    /\ a # <<>> /\ st = "downloading" => sp.version >= a[Len(a)].version

(* LM Studio has the last selection, or it is on its way.                  *)
LastIsComing(w, sp, a, st) ==
    a # <<>> /\ st = "ready" =>
        \/ sp.version >= a[Len(a)].version
        \/ \E k \in DOMAIN w : IsSelect(w[k]) /\ w[k].version >= a[Len(a)].version

PlannerInv ==
    /\ ready \in [is : BOOLEAN, promise : {"pending", "resolved", "rejected"}]
    /\ GoodPlanner(plan, serverPlan, nextVersion, planAsked, ready.is, committed, planChannel,
                   serverState)
    /\ GoodToClient(planToClient, plan, serverPlan, planAsked, ready.is, serverState)
    /\ GoodToServer(planToServer, serverPlan, nextVersion, planAsked, ready.is, committed,
                    planAborted)
    /\ LastIsComing(planToServer, serverPlan, planAsked, serverState)

(* The messages.                                                           *)
LEMMA PlanMessages ==
    /\ \A m \in Planner!ToClient : IsPlan(m) =>
         m.plan \in Planner!Plans /\ m.plan.version \in Nat /\ m.plan.option \in Options
    /\ \A m \in Planner!ToServer : IsSelect(m) => m.version \in Nat /\ m.option \in Options
    /\ \A p \in Planner!Plans, t \in {"planReady", "planUpdated"} :
         [type |-> t, plan |-> p] \in Planner!ToClient
    /\ \A t \in {"success", "error", "close"} : [type |-> t] \in Planner!ToClient
    /\ \A v \in Nat, o \in Options : [type |-> "select", version |-> v, option |-> o] \in Planner!ToServer
    /\ \A t \in {"commit", "cancelPlan", "cancelDownload"} : [type |-> t] \in Planner!ToServer
BY DEF IsPlan, IsSelect, Planner!ToClient, Planner!ToServer, Planner!Plans

(* A message is sent ...                                                   *)
WireGrows(s, r, m) ==
    /\ \A k \in DOMAIN s : k \in DOMAIN r /\ r[k] = s[k]
    /\ \A k \in DOMAIN r : (k \in DOMAIN s /\ r[k] = s[k]) \/ r[k] = m
    /\ \A k, l \in DOMAIN r : k < l =>
         k \in DOMAIN s /\ r[k] = s[k] /\ ((l \in DOMAIN s /\ r[l] = s[l]) \/ r[l] = m)
    /\ \E k \in DOMAIN r : r[k] = m

LEMMA WireAppends ==
    ASSUME NEW S, NEW s \in Seq(S), NEW m \in S
    PROVE  Append(s, m) \in Seq(S) /\ WireGrows(s, Append(s, m), m)
<1> DEFINE r == Append(s, m)
           n == Len(s)
<1>1. /\ r \in Seq(S) /\ DOMAIN s = 1..n /\ DOMAIN r = 1..(n + 1) /\ n \in Nat
      /\ \A k \in 1..n : r[k] = s[k]
      /\ r[n + 1] = m
  OBVIOUS
<1> HIDE DEF r, n
<1>2. \A k \in 1..(n + 1) : k \in 1..n \/ k = n + 1
  BY <1>1
<1>3. \A k, l \in 1..(n + 1) : k < l => k \in 1..n
  BY <1>1
<1>4. n + 1 \in DOMAIN r
  BY <1>1
<1>5. \A k \in DOMAIN s : k \in DOMAIN r /\ r[k] = s[k]
  BY <1>1
<1>6. \A k \in DOMAIN r : (k \in DOMAIN s /\ r[k] = s[k]) \/ r[k] = m
  BY <1>1, <1>2
<1>7. \A k, l \in DOMAIN r : k < l => k \in DOMAIN s /\ r[k] = s[k]
  BY <1>1, <1>3
<1> QED
  BY <1>1, <1>4, <1>5, <1>6, <1>7 DEF WireGrows, r

(* ... and arrives.                                                        *)
WireShrinks(s, r) ==
    /\ \A k \in DOMAIN r : \E l \in DOMAIN s : r[k] = s[l] /\ 1 < l
    /\ \A k, l \in DOMAIN r : k < l => \E i, j \in DOMAIN s : i < j /\ r[k] = s[i] /\ r[l] = s[j]
    /\ 1 \in DOMAIN s /\ s[1] = Head(s)
    /\ \A l \in DOMAIN s : l = 1 \/ \E k \in DOMAIN r : r[k] = s[l]

LEMMA WireTails ==
    ASSUME NEW S, NEW s \in Seq(S), s # <<>>
    PROVE  Tail(s) \in Seq(S) /\ Head(s) \in S /\ WireShrinks(s, Tail(s))
<1> DEFINE r == Tail(s)
           n == Len(s)
<1>1. /\ r \in Seq(S) /\ DOMAIN s = 1..n /\ DOMAIN r = 1..(n - 1) /\ n \in Nat \ {0}
      /\ \A k \in 1..(n - 1) : r[k] = s[k + 1]
      /\ s[1] = Head(s) /\ Head(s) \in S
  OBVIOUS
<1> HIDE DEF r, n
<1>2. \A k \in DOMAIN r : k \in Int /\ k + 1 \in DOMAIN s /\ 1 < k + 1 /\ r[k] = s[k + 1]
  BY <1>1
<1>3. \A k, l \in DOMAIN r : k < l => k + 1 < l + 1
  BY <1>1
<1>4. \A l \in DOMAIN s : l = 1 \/ (l - 1 \in DOMAIN r /\ r[l - 1] = s[l])
  BY <1>1
<1>5. 1 \in DOMAIN s
  BY <1>1
<1>6. \A k, l \in DOMAIN r : k < l => \E i, j \in DOMAIN s : i < j /\ r[k] = s[i] /\ r[l] = s[j]
  <2> SUFFICES ASSUME NEW k \in DOMAIN r, NEW l \in DOMAIN r, k < l
               PROVE  \E i, j \in DOMAIN s : i < j /\ r[k] = s[i] /\ r[l] = s[j]
    OBVIOUS
  <2> QED
    BY <1>2, <1>3
<1> QED
  BY <1>1, <1>2, <1>4, <1>5, <1>6 DEF WireShrinks, r

LEMMA WireHas == ASSUME NEW S, NEW w \in Seq(S) PROVE \A k \in DOMAIN w : w[k] \in S
OBVIOUS

LEMMA ClientWireHas ==
    ASSUME NEW w, NEW p, NEW sp, NEW a, NEW is, NEW st, GoodToClient(w, p, sp, a, is, st)
    PROVE  \A k \in DOMAIN w : w[k] \in Planner!ToClient /\ GoodForClient(w[k], p, sp, a, is, st)
BY WireHas DEF GoodToClient

LEMMA ServerWireHas ==
    ASSUME NEW w, NEW sp, NEW n, NEW a, NEW is, NEW com, NEW ab, GoodToServer(w, sp, n, a, is, com, ab)
    PROVE  \A k \in DOMAIN w : w[k] \in Planner!ToServer /\ GoodForServer(w[k], sp, n, a, is, com)
BY WireHas DEF GoodToServer

LEMMA ClientWireGrows ==
    ASSUME NEW w, NEW p, NEW sp, NEW a, NEW is, NEW st, NEW m \in Planner!ToClient,
           GoodToClient(w, p, sp, a, is, st), GoodForClient(m, p, sp, a, is, st),
           \A k \in DOMAIN w : PlanOrder(w[k], m)
    PROVE  GoodToClient(Append(w, m), p, sp, a, is, st)
<1>1. w \in Seq(Planner!ToClient)
  BY DEF GoodToClient
<1> PICK r : r = Append(w, m)
  OBVIOUS
<1>2. r \in Seq(Planner!ToClient) /\ WireGrows(w, r, m)
  BY <1>1, WireAppends
<1>3. \A k \in DOMAIN r : GoodForClient(r[k], p, sp, a, is, st)
  BY <1>2 DEF GoodToClient, WireGrows
<1>4. \A k, l \in DOMAIN r : k < l => PlanOrder(r[k], r[l])
  BY <1>2 DEF GoodToClient, WireGrows
<1> QED
  BY <1>2, <1>3, <1>4 DEF GoodToClient

LEMMA ClientWireShrinks ==
    ASSUME NEW w, NEW p, NEW sp, NEW a, NEW is, NEW st, w # <<>>,
           GoodToClient(w, p, sp, a, is, st)
    PROVE  /\ GoodToClient(Tail(w), p, sp, a, is, st) /\ Head(w) \in Planner!ToClient
           /\ GoodForClient(Head(w), p, sp, a, is, st)
           /\ \A k \in DOMAIN Tail(w) : PlanOrder(Head(w), Tail(w)[k])
<1>1. w \in Seq(Planner!ToClient)
  BY DEF GoodToClient
<1> PICK r : r = Tail(w)
  OBVIOUS
<1>2. r \in Seq(Planner!ToClient) /\ WireShrinks(w, r) /\ Head(w) \in Planner!ToClient
  BY <1>1, WireTails
<1>3. \A k \in DOMAIN r : GoodForClient(r[k], p, sp, a, is, st)
  BY <1>2 DEF GoodToClient, WireShrinks
<1>4. \A k, l \in DOMAIN r : k < l => PlanOrder(r[k], r[l])
  BY <1>2 DEF GoodToClient, WireShrinks
<1>5. GoodForClient(Head(w), p, sp, a, is, st) /\ \A k \in DOMAIN r : PlanOrder(Head(w), r[k])
  BY <1>2 DEF GoodToClient, WireShrinks
<1> QED
  BY <1>2, <1>3, <1>4, <1>5 DEF GoodToClient

LEMMA ServerWireGrows ==
    ASSUME NEW w, NEW sp, NEW n, NEW a, NEW is, NEW com, NEW ab, NEW m \in Planner!ToServer,
           GoodToServer(w, sp, n, a, is, com, ab), GoodForServer(m, sp, n, a, is, com),
           \A k \in DOMAIN w : SelectOrder(w[k], m, ab)
    PROVE  GoodToServer(Append(w, m), sp, n, a, is, com, ab) /\ WireGrows(w, Append(w, m), m)
<1>1. w \in Seq(Planner!ToServer)
  BY DEF GoodToServer
<1> PICK r : r = Append(w, m)
  OBVIOUS
<1>2. r \in Seq(Planner!ToServer) /\ WireGrows(w, r, m)
  BY <1>1, WireAppends
<1>3. \A k \in DOMAIN r : GoodForServer(r[k], sp, n, a, is, com)
  BY <1>2 DEF GoodToServer, WireGrows
<1>4. \A k, l \in DOMAIN r : k < l => SelectOrder(r[k], r[l], ab)
  BY <1>2 DEF GoodToServer, WireGrows
<1> QED
  BY <1>2, <1>3, <1>4 DEF GoodToServer

LEMMA ServerWireShrinks ==
    ASSUME NEW w, NEW sp, NEW n, NEW a, NEW is, NEW com, NEW ab, w # <<>>,
           GoodToServer(w, sp, n, a, is, com, ab)
    PROVE  /\ GoodToServer(Tail(w), sp, n, a, is, com, ab) /\ Head(w) \in Planner!ToServer
           /\ GoodForServer(Head(w), sp, n, a, is, com) /\ WireShrinks(w, Tail(w))
           /\ \A k \in DOMAIN Tail(w) : SelectOrder(Head(w), Tail(w)[k], ab)
<1>1. w \in Seq(Planner!ToServer)
  BY DEF GoodToServer
<1> PICK r : r = Tail(w)
  OBVIOUS
<1>2. r \in Seq(Planner!ToServer) /\ WireShrinks(w, r) /\ Head(w) \in Planner!ToServer
  BY <1>1, WireTails
<1>3. \A k \in DOMAIN r : GoodForServer(r[k], sp, n, a, is, com)
  BY <1>2 DEF GoodToServer, WireShrinks
<1>4. \A k, l \in DOMAIN r : k < l => SelectOrder(r[k], r[l], ab)
  BY <1>2 DEF GoodToServer, WireShrinks
<1>5. GoodForServer(Head(w), sp, n, a, is, com) /\ \A k \in DOMAIN r : SelectOrder(Head(w), r[k], ab)
  BY <1>2 DEF GoodToServer, WireShrinks
<1> QED
  BY <1>2, <1>3, <1>4, <1>5 DEF GoodToServer

LEMMA PlannerInitInv == Planner!Init => PlannerInv
<1> SUFFICES ASSUME Planner!Init PROVE PlannerInv
  OBVIOUS
<1> USE DEF Planner!Init
<1>1. plan \in Planner!Plans /\ serverPlan = plan /\ plan.version = 0 /\ nextVersion = 1
  BY SessionsAssumption DEF Planner!Plans
<1>2. planAsked = <<>> /\ planAsked \in Seq(PlannerAsked) /\ ready.is = FALSE
  OBVIOUS
<1>3. planToServer \in Seq(Planner!ToServer)
      /\ \A k \in DOMAIN planToServer : planToServer[k].type = "cancelPlan"
  <2>1. [type |-> "cancelPlan"] \in Planner!ToServer
    BY PlanMessages
  <2> QED
    BY <2>1
<1>4. planToClient \in Seq(Planner!ToClient) /\ DOMAIN planToClient = {}
  OBVIOUS
<1>5. GoodPlanner(plan, serverPlan, nextVersion, planAsked, ready.is, committed, planChannel,
                   serverState)
  BY <1>1, <1>2 DEF GoodPlanner, OptionFits
<1>6. GoodToClient(planToClient, plan, serverPlan, planAsked, ready.is, serverState)
  BY <1>4 DEF GoodToClient
<1>7. GoodToServer(planToServer, serverPlan, nextVersion, planAsked, ready.is, committed,
                    planAborted)
  BY <1>3 DEF GoodToServer, GoodForServer, SelectOrder, IsSelect
<1> QED
  BY <1>2, <1>5, <1>6, <1>7 DEF PlannerInv, LastIsComing

(* The selections are the same, but for their outcomes.                    *)
SameLast(a, a2) ==
    /\ a2 = <<>> <=> a = <<>>
    /\ a # <<>> => /\ a2[Len(a2)].version = a[Len(a)].version
                   /\ a2[Len(a2)].option = a[Len(a)].option

LEMMA SameLastGood ==
    ASSUME NEW a, NEW a2, SameLast(a, a2)
    PROVE  /\ \A v, o : OptionFits(a, v, o) <=> OptionFits(a2, v, o)
           /\ \A m, p, sp, is, st : GoodForClient(m, p, sp, a, is, st) <=> GoodForClient(m, p, sp, a2, is, st)
           /\ \A m, sp, n, is, com : GoodForServer(m, sp, n, a, is, com) <=> GoodForServer(m, sp, n, a2, is, com)
           /\ \A w, p, sp, is, st : GoodToClient(w, p, sp, a, is, st) <=> GoodToClient(w, p, sp, a2, is, st)
           /\ \A w, sp, n, is, com, ab :
                GoodToServer(w, sp, n, a, is, com, ab) <=> GoodToServer(w, sp, n, a2, is, com, ab)
           /\ \A w, sp, st : LastIsComing(w, sp, a, st) <=> LastIsComing(w, sp, a2, st)
<1>1. \A v, o : OptionFits(a, v, o) <=> OptionFits(a2, v, o)
  BY DEF SameLast, OptionFits
<1>2. \A m, p, sp, is, st : GoodForClient(m, p, sp, a, is, st) <=> GoodForClient(m, p, sp, a2, is, st)
  BY <1>1 DEF GoodForClient
<1>3. \A m, sp, n, is, com : GoodForServer(m, sp, n, a, is, com) <=> GoodForServer(m, sp, n, a2, is, com)
  BY <1>1 DEF GoodForServer
<1>4. \A w, sp, st : LastIsComing(w, sp, a, st) <=> LastIsComing(w, sp, a2, st)
  BY DEF SameLast, LastIsComing
<1>5. \A w, p, sp, is, st : GoodToClient(w, p, sp, a, is, st) <=> GoodToClient(w, p, sp, a2, is, st)
  BY <1>2 DEF GoodToClient
<1>6. \A w, sp, n, is, com, ab :
        GoodToServer(w, sp, n, a, is, com, ab) <=> GoodToServer(w, sp, n, a2, is, com, ab)
  BY <1>3 DEF GoodToServer
<1> QED
  BY <1>1, <1>2, <1>3, <1>4, <1>5, <1>6

LEMMA AnsweredIs ==
    ASSUME NEW vs, NEW outcome \in {"resolved", "rejected"}, planAsked \in Seq(PlannerAsked),
           NEW a2, a2 = Planner!Answered(vs, outcome)
    PROVE  /\ a2 \in Seq(PlannerAsked) /\ SameLast(planAsked, a2)
           /\ a2 # <<>> /\ a2[Len(a2)].outcome = "resolved" =>
                \/ planAsked[Len(planAsked)].outcome = "resolved"
                \/ outcome = "resolved" /\ planAsked[Len(planAsked)].version \in vs
<1> PICK a : a = planAsked
  OBVIOUS
<1>0. a \in Seq(PlannerAsked) /\ DOMAIN a = 1..Len(a) /\ Len(a) \in Nat
  OBVIOUS
<1> PICK n \in Nat : n = Len(a)
  BY <1>0
<1>1. /\ a2 = [i \in 1..n |-> a2[i]]
      /\ \A i \in 1..n : a2[i] = IF a[i].version \in vs /\ a[i].outcome = "pending"
                                 THEN [a[i] EXCEPT !.outcome = outcome] ELSE a[i]
  BY <1>0 DEF Planner!Answered
<1>2. \A i \in 1..n : /\ a2[i] \in PlannerAsked
                      /\ a2[i].version = a[i].version /\ a2[i].option = a[i].option
                      /\ a2[i].outcome = "resolved" =>
                           \/ a[i].outcome = "resolved"
                           \/ outcome = "resolved" /\ a[i].version \in vs
  <2> TAKE i \in 1..n
  <2>1. a[i] \in PlannerAsked
    BY <1>0
  <2> PICK b : b = a2[i]
    OBVIOUS
  <2>2. b = IF a[i].version \in vs /\ a[i].outcome = "pending"
            THEN [a[i] EXCEPT !.outcome = outcome] ELSE a[i]
    BY <1>1
  <2>3. /\ b \in PlannerAsked /\ b.version = a[i].version /\ b.option = a[i].option
        /\ b.outcome = "resolved" => \/ a[i].outcome = "resolved"
                                     \/ outcome = "resolved" /\ a[i].version \in vs
    BY <2>1, <2>2 DEF PlannerAsked
  <2> QED
    BY <2>3
<1>3. a2 \in Seq(PlannerAsked) /\ Len(a2) = n
  <2>1. a2 \in [1..n -> PlannerAsked]
    BY <1>1, <1>2
  <2> QED
    BY <2>1
<1>4. (a2 = <<>> <=> a = <<>>) /\ (a # <<>> => n \in 1..n)
  <2>1. (a2 = <<>> <=> n = 0) /\ (a = <<>> <=> n = 0)
    BY <1>0, <1>3
  <2>2. n # 0 => n \in 1..n
    OBVIOUS
  <2> QED
    BY <2>1, <2>2
<1>5. a # <<>> => /\ a2[n].version = a[n].version /\ a2[n].option = a[n].option
                  /\ a2[n].outcome = "resolved" =>
                       \/ a[n].outcome = "resolved"
                       \/ outcome = "resolved" /\ a[n].version \in vs
  BY <1>2, <1>4
<1> QED
  BY <1>3, <1>4, <1>5 DEF SameLast

(* When promises are rejected, and the planner changes in nothing else.    *)
LEMMA RejectsKeeps ==
    ASSUME NEW p, NEW sp, NEW n, NEW a, NEW a2, NEW is, NEW com, NEW ch, NEW st,
           GoodPlanner(p, sp, n, a, is, com, ch, st), SameLast(a, a2), a2 \in Seq(PlannerAsked),
           a2 # <<>> /\ a2[Len(a2)].outcome = "resolved" =>
             a[Len(a)].outcome = "resolved" \/ p.version >= a[Len(a)].version
    PROVE  GoodPlanner(p, sp, n, a2, is, com, ch, st)
<1>1. \A v, o : OptionFits(a, v, o) <=> OptionFits(a2, v, o)
  BY SameLastGood
<1>2. (a2 = <<>> <=> a = <<>>) /\ (a # <<>> => a2[Len(a2)].version = a[Len(a)].version)
  BY DEF SameLast
<1> QED
  BY <1>1, <1>2 DEF GoodPlanner

(* An abort or a disposal tells LM Studio, if the channel is open.         *)
LEMMA PlannerSends ==
    ASSUME PlannerInv, NEW t \in {"cancelPlan", "cancelDownload"}, Planner!Send(t) \/ UNCHANGED planToServer,
           NEW com, NEW cancelable, planAborted => cancelable, com = committed,
           t = "cancelPlan" /\ planToServer' # planToServer => cancelable \/ ~ committed
    PROVE  /\ GoodToServer(planToServer', serverPlan, nextVersion, planAsked, ready.is, com, cancelable)
           /\ LastIsComing(planToServer', serverPlan, planAsked, serverState)
<1> DEFINE m == [type |-> t]
<1>1. GoodToServer(planToServer, serverPlan, nextVersion, planAsked, ready.is, com, cancelable)
  BY DEF PlannerInv, GoodToServer, SelectOrder
<1>2. CASE UNCHANGED planToServer
  BY <1>1, <1>2 DEF PlannerInv
<1>3. CASE planToServer' # planToServer
  <2>1. planToServer' = Append(planToServer, m) /\ m \in Planner!ToServer /\ m.type = t
    BY <1>3, PlanMessages DEF Planner!Send
  <2>2. GoodForServer(m, serverPlan, nextVersion, planAsked, ready.is, com)
    BY <2>1 DEF GoodForServer, IsSelect
  <2>3. \A k \in DOMAIN planToServer : SelectOrder(planToServer[k], m, cancelable)
    BY <1>1, <1>3, <2>1 DEF SelectOrder, IsSelect, GoodToServer, GoodForServer
  <2> HIDE DEF m
  <2>4. /\ GoodToServer(Append(planToServer, m), serverPlan, nextVersion, planAsked, ready.is, com, cancelable)
        /\ WireGrows(planToServer, Append(planToServer, m), m)
    BY <1>1, <2>1, <2>2, <2>3, ServerWireGrows
  <2> PICK r : r = planToServer'
    OBVIOUS
  <2>5. GoodToServer(r, serverPlan, nextVersion, planAsked, ready.is, com, cancelable)
        /\ WireGrows(planToServer, r, m)
    BY <2>1, <2>4
  <2>6. LastIsComing(r, serverPlan, planAsked, serverState)
    BY <2>5 DEF PlannerInv, LastIsComing, WireGrows
  <2> QED
    BY <2>5, <2>6
<1> QED
  BY <1>2, <1>3

LEMMA PlannerAborts ==
    ASSUME PlannerInv, Planner!AbortPlan \/ Planner!AbortDownload
    PROVE  PlannerInv'
<1>1. /\ UNCHANGED <<plan, ready, committed, nextVersion, planAsked, planChannel, planToClient,
                     serverPlan, serverState>>
      /\ planAborted => planAborted'
  BY DEF Planner!AbortPlan, Planner!AbortDownload, Planner!plannerVars, Planner!serverVars
<1>2. /\ GoodToServer(planToServer', serverPlan, nextVersion, planAsked, ready.is, committed, planAborted')
      /\ LastIsComing(planToServer', serverPlan, planAsked, serverState)
  <2>1. CASE Planner!AbortPlan
    <3>1. planAborted' /\ Planner!Send("cancelPlan")
      BY <2>1, Zenon DEF Planner!AbortPlan
    <3> QED
      BY <1>1, <3>1, PlannerSends
  <2>2. CASE Planner!AbortDownload
    <3>1. Planner!Send("cancelDownload") \/ UNCHANGED planToServer
      BY <2>2 DEF Planner!AbortDownload
    <3> QED
      BY <1>1, <3>1, PlannerSends
  <2> QED
    BY <2>1, <2>2
<1>3. GoodPlanner(plan', serverPlan', nextVersion', planAsked', ready'.is, committed', planChannel',
                  serverState')
  BY <1>1 DEF PlannerInv
<1>4. GoodToClient(planToClient', plan', serverPlan', planAsked', ready'.is, serverState')
  BY <1>1 DEF PlannerInv
<1> QED
  BY <1>1, <1>2, <1>3, <1>4 DEF PlannerInv

LEMMA PlannerDisposes ==
    ASSUME PlannerInv, Planner!Dispose
    PROVE  PlannerInv'
<1>1. /\ UNCHANGED <<plan, ready, committed, nextVersion, planAborted, planChannel, planToClient,
                     serverPlan, serverState>>
      /\ planAsked' = Planner!Answered(waiters, "rejected")
      /\ (~ committed /\ Planner!Send("cancelPlan")) \/ UNCHANGED planToServer
  BY DEF Planner!Dispose, Planner!RejectPendingPlanWaiters, Planner!serverVars
<1> PICK a2 : a2 = planAsked'
  OBVIOUS
<1>2. /\ a2 \in Seq(PlannerAsked) /\ SameLast(planAsked, a2)
      /\ a2 # <<>> /\ a2[Len(a2)].outcome = "resolved" => planAsked[Len(planAsked)].outcome = "resolved"
  BY <1>1, AnsweredIs DEF PlannerInv, GoodPlanner
<1>3. /\ GoodToServer(planToServer', serverPlan, nextVersion, planAsked, ready.is, committed, planAborted)
      /\ LastIsComing(planToServer', serverPlan, planAsked, serverState)
  BY <1>1, PlannerSends
<1>4. /\ GoodToServer(planToServer', serverPlan, nextVersion, a2, ready.is, committed, planAborted)
      /\ LastIsComing(planToServer', serverPlan, a2, serverState)
  BY <1>2, <1>3, SameLastGood
<1>5. GoodPlanner(plan, serverPlan, nextVersion, a2, ready.is, committed, planChannel, serverState)
  BY <1>2, RejectsKeeps DEF PlannerInv
<1>6. GoodToClient(planToClient, plan, serverPlan, a2, ready.is, serverState)
  BY <1>2, SameLastGood DEF PlannerInv
<1>7. /\ GoodToServer(planToServer', serverPlan', nextVersion', planAsked', ready'.is, committed', planAborted')
      /\ LastIsComing(planToServer', serverPlan', planAsked', serverState')
      /\ GoodPlanner(plan', serverPlan', nextVersion', planAsked', ready'.is, committed', planChannel',
                     serverState')
      /\ GoodToClient(planToClient', plan', serverPlan', planAsked', ready'.is, serverState')
  BY <1>1, <1>4, <1>5, <1>6
<1> QED
  BY <1>1, <1>7 DEF PlannerInv

LEMMA CommitIsSent ==
    ASSUME NEW w, NEW sp, NEW n, NEW a, NEW is, NEW ab, NEW st, NEW t \in {"commit", "cancelDownload"},
           GoodToServer(w, sp, n, a, is, TRUE, ab), LastIsComing(w, sp, a, st)
    PROVE  /\ GoodToServer(Append(w, [type |-> t]), sp, n, a, is, TRUE, ab)
           /\ LastIsComing(Append(w, [type |-> t]), sp, a, st)
<1> PICK m \in Planner!ToServer : m = [type |-> t] /\ m.type = t
  BY PlanMessages
<1>1. GoodForServer(m, sp, n, a, is, TRUE) /\ \A k \in DOMAIN w : SelectOrder(w[k], m, ab)
  BY DEF GoodForServer, SelectOrder, IsSelect
<1> PICK r : r = Append(w, m)
  OBVIOUS
<1>2. GoodToServer(r, sp, n, a, is, TRUE, ab) /\ WireGrows(w, r, m)
  BY <1>1, ServerWireGrows
<1>3. LastIsComing(r, sp, a, st)
  BY <1>2 DEF LastIsComing, WireGrows
<1> QED
  BY <1>2, <1>3

LEMMA TwoAppends ==
    ASSUME NEW S, NEW w \in Seq(S), NEW m1 \in S, NEW m2 \in S
    PROVE  /\ w \o (<<m1>> \o <<>>) = Append(w, m1) /\ w \o <<m1>> = Append(w, m1)
           /\ w \o (<<m1>> \o <<m2>>) = Append(Append(w, m1), m2)
           /\ w \o <<m1, m2>> = Append(Append(w, m1), m2)
OBVIOUS

LEMMA PlannerCommits ==
    ASSUME PlannerInv, Planner!Download
    PROVE  PlannerInv'
<1> DEFINE m1 == [type |-> "commit"]
           m2 == [type |-> "cancelDownload"]
<1>0. planToServer \in Seq(Planner!ToServer) /\ m1 \in Planner!ToServer /\ m2 \in Planner!ToServer
  BY PlanMessages DEF PlannerInv, GoodToServer
<1>1. /\ UNCHANGED <<plan, ready, nextVersion, planAsked, planAborted, planChannel, planToClient,
                     serverPlan, serverState>>
      /\ \/ UNCHANGED <<committed, planToServer>>
         \/ committed' = TRUE /\ UNCHANGED planToServer
         \/ committed' = TRUE /\ planToServer' = Append(planToServer, m1)
         \/ committed' = TRUE /\ planToServer' = Append(Append(planToServer, m1), m2)
  <2>1. UNCHANGED <<plan, ready, nextVersion, planAsked, planAborted, planChannel, planToClient,
                    serverPlan, serverState>>
    BY DEF Planner!Download, Planner!userVars, Planner!serverVars
  <2>2. \/ UNCHANGED <<committed, planToServer>>
        \/ committed' = TRUE /\ UNCHANGED planToServer
        \/ committed' = TRUE /\ planToServer' = planToServer \o (<<m1>> \o <<>>)
        \/ committed' = TRUE /\ planToServer' = planToServer \o (<<m1>> \o <<m2>>)
    <3>1. CASE errorBefore
      BY <3>1 DEF Planner!Download
    <3>2. CASE ~ errorBefore /\ planChannel # "open"
      BY <3>2, Zenon DEF Planner!Download
    <3>3. CASE ~ errorBefore /\ planChannel = "open" /\ downloadAborted
      <4>1. planToServer' = (planToServer \o <<m1>>) \o <<m2>> \/ planToServer' = planToServer \o (<<m1>> \o <<m2>>)
        BY <3>3 DEF Planner!Download
      <4>2. committed' = TRUE
        BY <3>3, Zenon DEF Planner!Download
      <4>3. (planToServer \o <<m1>>) \o <<m2>> = planToServer \o (<<m1>> \o <<m2>>)
        BY <1>0
      <4> QED
        BY <4>1, <4>2, <4>3
    <3>4. CASE ~ errorBefore /\ planChannel = "open" /\ ~ downloadAborted
      <4>1. planToServer' = (planToServer \o <<m1>>) \o <<>> \/ planToServer' = planToServer \o (<<m1>> \o <<>>)
        BY <3>4 DEF Planner!Download
      <4>2. committed' = TRUE
        BY <3>4, Zenon DEF Planner!Download
      <4>3. (planToServer \o <<m1>>) \o <<>> = planToServer \o (<<m1>> \o <<>>)
        BY <1>0
      <4> QED
        BY <4>1, <4>2, <4>3
    <3> QED
      BY <3>1, <3>2, <3>3, <3>4
  <2>3. /\ planToServer \o (<<m1>> \o <<>>) = Append(planToServer, m1)
        /\ planToServer \o (<<m1>> \o <<m2>>) = Append(Append(planToServer, m1), m2)
    BY <1>0, TwoAppends
  <2> QED
    BY <2>1, <2>2, <2>3
<1>2. CASE UNCHANGED <<committed, planToServer>>
  BY <1>1, <1>2 DEF PlannerInv
<1>3. CASE committed' = TRUE
  <2>1. /\ GoodToServer(planToServer, serverPlan, nextVersion, planAsked, ready.is, TRUE, planAborted)
        /\ LastIsComing(planToServer, serverPlan, planAsked, serverState)
    BY DEF PlannerInv, GoodToServer, GoodForServer
  <2>2. /\ GoodToServer(Append(planToServer, m1), serverPlan, nextVersion, planAsked, ready.is, TRUE, planAborted)
        /\ LastIsComing(Append(planToServer, m1), serverPlan, planAsked, serverState)
    BY <2>1, CommitIsSent
  <2>3. /\ GoodToServer(Append(Append(planToServer, m1), m2), serverPlan, nextVersion, planAsked,
                        ready.is, TRUE, planAborted)
        /\ LastIsComing(Append(Append(planToServer, m1), m2), serverPlan, planAsked, serverState)
    BY <2>2, CommitIsSent
  <2> HIDE DEF m1, m2
  <2>7. /\ GoodToServer(planToServer', serverPlan, nextVersion, planAsked, ready.is, TRUE, planAborted)
        /\ LastIsComing(planToServer', serverPlan, planAsked, serverState)
    BY <1>1, <1>3, <2>1, <2>2, <2>3
  <2>4. /\ GoodToServer(planToServer', serverPlan', nextVersion', planAsked', ready'.is, committed', planAborted')
        /\ LastIsComing(planToServer', serverPlan', planAsked', serverState')
    BY <1>1, <1>3, <2>7
  <2>5. GoodPlanner(plan, serverPlan, nextVersion, planAsked, ready.is, TRUE, planChannel, serverState)
    BY DEF PlannerInv, GoodPlanner
  <2>6. /\ GoodPlanner(plan', serverPlan', nextVersion', planAsked', ready'.is, committed', planChannel',
                       serverState')
        /\ GoodToClient(planToClient', plan', serverPlan', planAsked', ready'.is, serverState')
    BY <1>1, <1>3, <2>5 DEF PlannerInv
  <2> QED
    BY <1>1, <2>4, <2>6 DEF PlannerInv
<1> QED
  BY <1>1, <1>2, <1>3

LEMMA PlannerSelects ==
    ASSUME PlannerInv, NEW o \in Options, Planner!SetSelectedDownloadOptionIndex(o)
    PROVE  PlannerInv'
<1> DEFINE m == [type |-> "select", version |-> nextVersion, option |-> o]
<1>1. /\ ready.is /\ ~ committed /\ nextVersion' = nextVersion + 1
      /\ planToServer' = IF planChannel = "open" THEN Append(planToServer, m) ELSE planToServer
      /\ \E out \in {"resolved", "pending"} :
           /\ out = "resolved" => plan.version >= nextVersion
           /\ planAsked' = Append(planAsked, [version |-> nextVersion, option |-> o, outcome |-> out])
      /\ UNCHANGED <<plan, ready, committed, planAborted, planChannel, planToClient, serverPlan,
                     serverState>>
  BY DEF Planner!SetSelectedDownloadOptionIndex, Planner!AssertCanChangeSelection, Planner!serverVars
<1>2. GoodPlanner(plan, serverPlan, nextVersion, planAsked, TRUE, committed, planChannel, serverState)
  BY <1>1 DEF PlannerInv
<1>3. /\ plan \in Planner!Plans /\ serverPlan \in Planner!Plans /\ nextVersion \in Nat
      /\ planAsked \in Seq(PlannerAsked)
      /\ plan.version <= serverPlan.version /\ serverPlan.version < nextVersion
      /\ plan.version \in Nat /\ serverPlan.version \in Nat
  BY <1>2 DEF GoodPlanner, Planner!Plans
<1> PICK out : /\ out \in {"resolved", "pending"} /\ (out = "resolved" => plan.version >= nextVersion)
               /\ planAsked' = Append(planAsked, [version |-> nextVersion, option |-> o, outcome |-> out])
  BY <1>1
<1>4. out = "pending"
  BY <1>3
<1> DEFINE e == [version |-> nextVersion, option |-> o, outcome |-> "pending"]
<1> PICK a2 : a2 = planAsked'
  OBVIOUS
<1>5. a2 \in Seq(PlannerAsked) /\ a2 # <<>> /\ a2[Len(a2)] = e
  <2>1. e \in PlannerAsked /\ a2 = Append(planAsked, e)
    BY <1>3, <1>4 DEF PlannerAsked
  <2> HIDE DEF e
  <2> QED
    BY <1>3, <2>1
<1> PICK n2 : n2 = nextVersion + 1
  OBVIOUS
<1>6. /\ \A v \in Nat : \A x : v < nextVersion => OptionFits(a2, v, x)
      /\ \A x : OptionFits(a2, nextVersion, x) <=> x = o
  BY <1>3, <1>5 DEF OptionFits
<1>7. GoodPlanner(plan, serverPlan, n2, a2, TRUE, committed, planChannel, serverState)
  BY <1>1, <1>2, <1>3, <1>5, <1>6 DEF GoodPlanner
<1>8. GoodToClient(planToClient, plan, serverPlan, a2, TRUE, serverState)
  <2>1. GoodToClient(planToClient, plan, serverPlan, planAsked, TRUE, serverState)
    BY <1>1 DEF PlannerInv
  <2>2. ASSUME NEW x \in Planner!ToClient, GoodForClient(x, plan, serverPlan, planAsked, TRUE, serverState)
        PROVE  GoodForClient(x, plan, serverPlan, a2, TRUE, serverState)
    <3>1. IsPlan(x) => x.plan.version \in Nat /\ x.plan.version < nextVersion
      BY <1>3, <2>2, PlanMessages DEF GoodForClient
    <3> QED
      BY <1>6, <2>2, <3>1 DEF GoodForClient
  <2> QED
    BY <2>1, <2>2, ClientWireHas DEF GoodToClient
<1>9. GoodToServer(planToServer, serverPlan, n2, a2, TRUE, committed, planAborted)
  <2>1. GoodToServer(planToServer, serverPlan, nextVersion, planAsked, TRUE, committed, planAborted)
    BY <1>1 DEF PlannerInv
  <2>2. ASSUME NEW x \in Planner!ToServer, GoodForServer(x, serverPlan, nextVersion, planAsked, TRUE, committed)
        PROVE  GoodForServer(x, serverPlan, n2, a2, TRUE, committed)
    <3>1. IsSelect(x) => x.version \in Nat /\ x.version < nextVersion /\ x.version < n2
      BY <1>3, <2>2, PlanMessages DEF GoodForServer
    <3> QED
      BY <1>6, <2>2, <3>1 DEF GoodForServer
  <2> QED
    BY <2>1, <2>2, ServerWireHas DEF GoodToServer
<1>10. /\ GoodToServer(planToServer', serverPlan, n2, a2, TRUE, committed, planAborted)
       /\ LastIsComing(planToServer', serverPlan, a2, serverState)
  <2>1. CASE planChannel # "open"
    BY <1>1, <1>2, <1>9, <2>1 DEF GoodPlanner, LastIsComing
  <2>2. CASE planChannel = "open"
    <3>1. m \in Planner!ToServer /\ m.type = "select" /\ m.version = nextVersion /\ m.option = o
      BY <1>3, PlanMessages
    <3> HIDE DEF m
    <3>2. GoodForServer(m, serverPlan, n2, a2, TRUE, committed)
      BY <1>3, <1>6, <3>1 DEF GoodForServer, IsSelect
    <3>3. \A k \in DOMAIN planToServer : SelectOrder(planToServer[k], m, planAborted)
      <4>1. GoodToServer(planToServer, serverPlan, nextVersion, planAsked, TRUE, committed, planAborted)
        BY <1>1 DEF PlannerInv
      <4> TAKE k \in DOMAIN planToServer
      <4>2. /\ IsSelect(planToServer[k]) => planToServer[k].version \in Nat /\ planToServer[k].version < nextVersion
            /\ planToServer[k].type # "commit"
        <5>1. /\ GoodForServer(planToServer[k], serverPlan, nextVersion, planAsked, TRUE, committed)
              /\ planToServer[k] \in Planner!ToServer
          BY <4>1, ServerWireHas
        <5> QED
          BY <1>1, <5>1, PlanMessages DEF GoodForServer
      <4> QED
        BY <1>3, <3>1, <4>2 DEF SelectOrder
    <3> PICK r : r = planToServer'
      OBVIOUS
    <3>4. r = Append(planToServer, m)
      BY <1>1, <2>2 DEF m
    <3>5. GoodToServer(r, serverPlan, n2, a2, TRUE, committed, planAborted) /\ WireGrows(planToServer, r, m)
      BY <1>9, <3>1, <3>2, <3>3, <3>4, ServerWireGrows
    <3>6. LastIsComing(r, serverPlan, a2, serverState)
      BY <1>3, <1>5, <3>1, <3>5 DEF LastIsComing, WireGrows, IsSelect
    <3> QED
      BY <3>5, <3>6
  <2> QED
    BY <2>1, <2>2
<1>11. ready'.is = TRUE /\ n2 = nextVersion' /\ a2 = planAsked'
  BY <1>1, <1>2 DEF PlannerInv
<1>12. /\ GoodPlanner(plan', serverPlan', nextVersion', planAsked', ready'.is, committed', planChannel', serverState')
       /\ GoodToClient(planToClient', plan', serverPlan', planAsked', ready'.is, serverState')
       /\ GoodToServer(planToServer', serverPlan', nextVersion', planAsked', ready'.is, committed', planAborted')
       /\ LastIsComing(planToServer', serverPlan', planAsked', serverState')
  BY <1>1, <1>7, <1>8, <1>10, <1>11
<1> QED
  BY <1>1, <1>12 DEF PlannerInv

(* The end of the channel is heard, or a success, or the connection is     *)
(* lost.                                                                   *)
LEMMA PlannerHearsEnd ==
    ASSUME PlannerInv, UNCHANGED <<plan, nextVersion, committed, planAborted, serverPlan>>,
           ready' \in [is : BOOLEAN, promise : {"pending", "resolved", "rejected"}], ready'.is = ready.is,
           planAsked' = planAsked \/ planAsked' = Planner!Answered(waiters, "rejected"),
           \/ planToClient # <<>> /\ planToClient' = Tail(planToClient) /\ UNCHANGED <<planToServer, serverState>>
           \/ planToClient' = <<>> /\ planToServer' = <<>> /\ serverState' = "ended",
           planChannel' # "open" => serverState' = "ended"
    PROVE  PlannerInv'
<1>1. /\ GoodPlanner(plan, serverPlan, nextVersion, planAsked, ready.is, committed, planChannel, serverState)
      /\ GoodToClient(planToClient, plan, serverPlan, planAsked, ready.is, serverState)
      /\ GoodToServer(planToServer, serverPlan, nextVersion, planAsked, ready.is, committed, planAborted)
      /\ LastIsComing(planToServer, serverPlan, planAsked, serverState)
  BY DEF PlannerInv
<1> PICK a2, w2, v2, st2, ch2 :
       a2 = planAsked' /\ w2 = planToClient' /\ v2 = planToServer' /\ st2 = serverState' /\ ch2 = planChannel'
  OBVIOUS
<1>2. /\ a2 \in Seq(PlannerAsked) /\ SameLast(planAsked, a2)
      /\ a2 # <<>> /\ a2[Len(a2)].outcome = "resolved" => planAsked[Len(planAsked)].outcome = "resolved"
  <2>1. planAsked \in Seq(PlannerAsked)
    BY <1>1 DEF GoodPlanner
  <2>2. CASE a2 = planAsked
    BY <2>1, <2>2 DEF SameLast
  <2>3. CASE a2 = Planner!Answered(waiters, "rejected")
    BY <2>1, <2>3, AnsweredIs
  <2> QED
    BY <2>2, <2>3
<1>3. /\ GoodToClient(w2, plan, serverPlan, planAsked, ready.is, st2)
      /\ GoodToServer(v2, serverPlan, nextVersion, planAsked, ready.is, committed, planAborted)
      /\ LastIsComing(v2, serverPlan, planAsked, st2)
  <2>1. CASE planToClient # <<>> /\ w2 = Tail(planToClient) /\ v2 = planToServer /\ st2 = serverState
    BY <1>1, <2>1, ClientWireShrinks
  <2>2. CASE w2 = <<>> /\ v2 = <<>> /\ st2 = "ended"
    <3>1. DOMAIN w2 = {} /\ DOMAIN v2 = {} /\ w2 \in Seq(Planner!ToClient) /\ v2 \in Seq(Planner!ToServer)
      BY <2>2
    <3> QED
      BY <2>2, <3>1 DEF GoodToClient, GoodToServer, LastIsComing
  <2> QED
    BY <2>1, <2>2
<1>4. GoodPlanner(plan, serverPlan, nextVersion, planAsked, ready.is, committed, ch2, st2)
  <2>1. st2 \in {serverState, "ended"}
    OBVIOUS
  <2> QED
    BY <1>1, <2>1 DEF GoodPlanner, PlannerEarly
<1>5. GoodPlanner(plan, serverPlan, nextVersion, a2, ready.is, committed, ch2, st2)
  BY <1>2, <1>4, RejectsKeeps
<1>6. /\ GoodToClient(w2, plan, serverPlan, a2, ready.is, st2)
      /\ GoodToServer(v2, serverPlan, nextVersion, a2, ready.is, committed, planAborted)
      /\ LastIsComing(v2, serverPlan, a2, st2)
  BY <1>2, <1>3, SameLastGood
<1>7. /\ GoodPlanner(plan', serverPlan', nextVersion', planAsked', ready'.is, committed', planChannel', serverState')
      /\ GoodToClient(planToClient', plan', serverPlan', planAsked', ready'.is, serverState')
      /\ GoodToServer(planToServer', serverPlan', nextVersion', planAsked', ready'.is, committed', planAborted')
      /\ LastIsComing(planToServer', serverPlan', planAsked', serverState')
  BY <1>5, <1>6
<1> QED
  BY <1>7 DEF PlannerInv

(* A plan is heard.                                                        *)
PlanHeard(m, p, sp, n, a, a2, is, is2, n2) ==
    /\ m \in Planner!ToClient /\ IsPlan(m)
    /\ is2 \in BOOLEAN /\ n2 \in Nat /\ n2 >= n /\ n2 > m.plan.version
    /\ is2 <=> is \/ m.type = "planReady"
    /\ a2 \in Seq(PlannerAsked) /\ SameLast(a, a2)
    /\ a2 # <<>> /\ a2[Len(a2)].outcome = "resolved" =>
         a[Len(a)].outcome = "resolved" \/ m.plan.version >= a[Len(a)].version

LEMMA PlanHeardKeeps ==
    ASSUME NEW m, NEW w, NEW v, NEW p, NEW sp, NEW n, NEW a, NEW a2, NEW is, NEW is2, NEW n2, NEW com, NEW ch,
           NEW st, NEW ab,
           GoodPlanner(p, sp, n, a, is, com, ch, st), GoodToClient(w, p, sp, a, is, st),
           GoodToServer(v, sp, n, a, is, com, ab), w # <<>>, m = Head(w),
           PlanHeard(m, p, sp, n, a, a2, is, is2, n2)
    PROVE  /\ GoodPlanner(m.plan, sp, n2, a2, is2, com, ch, st)
           /\ GoodToClient(Tail(w), m.plan, sp, a2, is2, st)
           /\ GoodToServer(v, sp, n2, a2, is2, com, ab)
<1> PICK p2, r : p2 = m.plan /\ r = Tail(w)
  OBVIOUS
<1>1. /\ GoodToClient(r, p, sp, a, is, st) /\ GoodForClient(m, p, sp, a, is, st)
      /\ \A k \in DOMAIN r : PlanOrder(m, r[k])
  BY ClientWireShrinks
<1>2. /\ p2 \in Planner!Plans /\ p2.version \in Nat /\ p2.version < n2 /\ n <= n2 /\ n2 \in Nat
      /\ p2.version <= sp.version /\ p.version <= p2.version /\ OptionFits(a, p2.version, p2.option)
      /\ m.type = "planReady" => st \notin PlannerEarly /\ (~ is => p2.version = sp.version)
  BY <1>1, PlanMessages DEF PlanHeard, GoodForClient
<1>3. /\ p \in Planner!Plans /\ sp \in Planner!Plans /\ n \in Nat /\ a \in Seq(PlannerAsked)
      /\ p.version \in Nat /\ sp.version \in Nat /\ is \in BOOLEAN
  BY DEF GoodPlanner, Planner!Plans
<1>4. /\ a2 \in Seq(PlannerAsked) /\ SameLast(a, a2) /\ is2 \in BOOLEAN
      /\ is2 <=> is \/ m.type = "planReady"
      /\ a2 # <<>> /\ a2[Len(a2)].outcome = "resolved" =>
           a[Len(a)].outcome = "resolved" \/ p2.version >= a[Len(a)].version
  BY DEF PlanHeard
<1>5. GoodPlanner(p2, sp, n2, a2, is2, com, ch, st)
  <2>1. is2 => sp.version < n2 /\ st \notin PlannerEarly
    BY <1>2, <1>3, <1>4 DEF GoodPlanner
  <2>2. ~ is2 => a = <<>>
    BY <1>4 DEF GoodPlanner
  <2>3. OptionFits(a, sp.version, sp.option) /\ (st \in {"committedEarly", "downloading"} => com)
        /\ (ch # "open" => st = "ended") /\ (a # <<>> /\ st = "downloading" => sp.version >= a[Len(a)].version)
    BY DEF GoodPlanner
  <2>4. a # <<>> => a[Len(a)].version \in Nat
    <3> SUFFICES ASSUME a # <<>> PROVE a[Len(a)] \in PlannerAsked
      BY DEF PlannerAsked
    <3> QED
      BY <1>3
  <2>5. a # <<>> /\ a[Len(a)].outcome = "resolved" => p2.version >= a[Len(a)].version
    BY <1>2, <1>3, <2>4 DEF GoodPlanner
  <2>6. /\ a2 = <<>> <=> a = <<>>
        /\ a # <<>> => a2[Len(a2)].version = a[Len(a)].version
    BY <1>4 DEF SameLast
  <2>7. \A x, o : OptionFits(a, x, o) <=> OptionFits(a2, x, o)
    BY <1>4, SameLastGood
  <2>8. a2 # <<>> /\ a2[Len(a2)].outcome = "resolved" => p2.version >= a2[Len(a2)].version
    BY <1>4, <2>5, <2>6
  <2>9. a2 # <<>> /\ st = "downloading" => sp.version >= a2[Len(a2)].version
    BY <2>3, <2>6
  <2> QED
    BY <1>2, <1>3, <1>4, <2>1, <2>2, <2>3, <2>6, <2>7, <2>8, <2>9 DEF GoodPlanner
<1>6. GoodToClient(r, p2, sp, a2, is2, st)
  <2>1. ASSUME NEW x \in Planner!ToClient, GoodForClient(x, p, sp, a, is, st), PlanOrder(m, x)
        PROVE  GoodForClient(x, p2, sp, a, is2, st)
    <3>1. IsPlan(x) => p2.version <= x.plan.version
      BY <2>1 DEF PlanOrder, PlanHeard
    <3> QED
      BY <1>4, <2>1, <3>1 DEF GoodForClient
  <2>2. \A k \in DOMAIN r : GoodForClient(r[k], p2, sp, a, is2, st)
    BY <1>1, <2>1, ClientWireHas
  <2>3. GoodToClient(r, p2, sp, a, is2, st)
    BY <1>1, <2>2 DEF GoodToClient
  <2> QED
    BY <1>4, <2>3, SameLastGood
<1>7. GoodToServer(v, sp, n2, a2, is2, com, ab)
  <2>1. ASSUME NEW x \in Planner!ToServer, GoodForServer(x, sp, n, a, is, com)
        PROVE  GoodForServer(x, sp, n2, a, is2, com)
    <3>1. IsSelect(x) => x.version \in Nat /\ x.version < n2
      BY <1>2, <1>3, <2>1, PlanMessages DEF GoodForServer
    <3> QED
      BY <1>4, <2>1, <3>1 DEF GoodForServer
  <2>2. \A k \in DOMAIN v : GoodForServer(v[k], sp, n2, a, is2, com)
    BY <2>1, ServerWireHas
  <2>3. GoodToServer(v, sp, n2, a, is2, com, ab)
    BY <2>2 DEF GoodToServer
  <2> QED
    BY <1>4, <2>3, SameLastGood
<1> QED
  BY <1>5, <1>6, <1>7

LEMMA PlannerHearsPlan ==
    ASSUME PlannerInv, Planner!ClientReceives, Planner!OnPlan(Head(planToClient))
    PROVE  PlannerInv'
<1> PICK m : m = Head(planToClient)
  OBVIOUS
<1>1. /\ GoodPlanner(plan, serverPlan, nextVersion, planAsked, ready.is, committed, planChannel, serverState)
      /\ GoodToClient(planToClient, plan, serverPlan, planAsked, ready.is, serverState)
      /\ GoodToServer(planToServer, serverPlan, nextVersion, planAsked, ready.is, committed, planAborted)
      /\ LastIsComing(planToServer, serverPlan, planAsked, serverState)
      /\ ready \in [is : BOOLEAN, promise : {"pending", "resolved", "rejected"}]
  BY DEF PlannerInv
<1>2. /\ planToClient # <<>> /\ planToClient' = Tail(planToClient)
      /\ UNCHANGED <<committed, planAborted, planToServer, serverPlan, serverState, planChannel>>
      /\ IsPlan(m) /\ plan' = m.plan
      /\ nextVersion' = IF m.plan.version + 1 > nextVersion THEN m.plan.version + 1 ELSE nextVersion
      /\ ready' = IF m.type = "planUpdated" THEN ready
                  ELSE [is |-> TRUE, promise |-> IF ready.promise = "pending" THEN "resolved"
                                                                             ELSE ready.promise]
  BY DEF Planner!ClientReceives, Planner!OnPlan, Planner!CountOn, IsPlan, Planner!serverVars
<1>3. planAsked' = Planner!Answered({x \in waiters : m.plan.version >= x}, "resolved")
  BY DEF Planner!OnPlan, Planner!ProcessPendingPlanWaiters
<1>4. m \in Planner!ToClient /\ m.plan \in Planner!Plans /\ m.plan.version \in Nat
  BY <1>1, <1>2, ClientWireShrinks, PlanMessages
<1>5. nextVersion' \in Nat /\ nextVersion' >= nextVersion /\ nextVersion' > m.plan.version
  BY <1>1, <1>2, <1>4 DEF GoodPlanner
<1>6. /\ ready' \in [is : BOOLEAN, promise : {"pending", "resolved", "rejected"}]
      /\ ready'.is <=> ready.is \/ m.type = "planReady"
  <2>1. CASE m.type = "planUpdated"
    <3>1. ready' = ready /\ m.type # "planReady"
      BY <1>2, <2>1
    <3>2. ready'.is = ready.is
      BY <3>1
    <3> QED
      BY <1>1, <3>1, <3>2
  <2>2. CASE m.type = "planReady"
    <3>1. \E t \in {"pending", "resolved", "rejected"} : ready' = [is |-> TRUE, promise |-> t]
      BY <1>1, <1>2, <2>2
    <3> QED
      BY <2>2, <3>1
  <2> QED
    BY <1>2, <2>1, <2>2 DEF IsPlan
<1> PICK a2, n2, is2 : a2 = planAsked' /\ n2 = nextVersion' /\ is2 = ready'.is
  OBVIOUS
<1>7. /\ a2 \in Seq(PlannerAsked) /\ SameLast(planAsked, a2)
      /\ a2 # <<>> /\ a2[Len(a2)].outcome = "resolved" =>
           \/ planAsked[Len(planAsked)].outcome = "resolved"
           \/ m.plan.version >= planAsked[Len(planAsked)].version
  <2> PICK vs : vs = {x \in waiters : m.plan.version >= x}
    OBVIOUS
  <2>1. planAsked \in Seq(PlannerAsked) /\ a2 = Planner!Answered(vs, "resolved")
    BY <1>1, <1>3 DEF GoodPlanner
  <2> QED
    BY <2>1, AnsweredIs
<1>8. PlanHeard(m, plan, serverPlan, nextVersion, planAsked, a2, ready.is, is2, n2)
  BY <1>2, <1>4, <1>5, <1>6, <1>7 DEF PlanHeard
<1>9. /\ GoodPlanner(m.plan, serverPlan, n2, a2, is2, committed, planChannel, serverState)
      /\ GoodToClient(Tail(planToClient), m.plan, serverPlan, a2, is2, serverState)
      /\ GoodToServer(planToServer, serverPlan, n2, a2, is2, committed, planAborted)
  <2> PICK w, v, p, sp, n, a, is, com, ch, st, ab :
        /\ w = planToClient /\ v = planToServer /\ p = plan /\ sp = serverPlan /\ n = nextVersion
        /\ a = planAsked /\ is = ready.is /\ com = committed /\ ch = planChannel /\ st = serverState
        /\ ab = planAborted
    OBVIOUS
  <2>1. /\ GoodPlanner(p, sp, n, a, is, com, ch, st) /\ GoodToClient(w, p, sp, a, is, st)
        /\ GoodToServer(v, sp, n, a, is, com, ab) /\ w # <<>> /\ m = Head(w)
        /\ PlanHeard(m, p, sp, n, a, a2, is, is2, n2)
    BY <1>1, <1>2, <1>8
  <2>2. /\ GoodPlanner(m.plan, sp, n2, a2, is2, com, ch, st)
        /\ GoodToClient(Tail(w), m.plan, sp, a2, is2, st)
        /\ GoodToServer(v, sp, n2, a2, is2, com, ab)
    BY <2>1, PlanHeardKeeps
  <2> QED
    BY <2>2
<1>10. LastIsComing(planToServer, serverPlan, a2, serverState)
  BY <1>1, <1>7, SameLastGood
<1>11. /\ GoodPlanner(plan', serverPlan', nextVersion', planAsked', ready'.is, committed', planChannel', serverState')
       /\ GoodToClient(planToClient', plan', serverPlan', planAsked', ready'.is, serverState')
       /\ GoodToServer(planToServer', serverPlan', nextVersion', planAsked', ready'.is, committed', planAborted')
       /\ LastIsComing(planToServer', serverPlan', planAsked', serverState')
  BY <1>2, <1>9, <1>10
<1> QED
  BY <1>6, <1>11 DEF PlannerInv

LEMMA PlannerHears ==
    ASSUME PlannerInv, Planner!ClientReceives \/ Planner!ConnectionLost
    PROVE  PlannerInv'
<1>0. ready \in [is : BOOLEAN, promise : {"pending", "resolved", "rejected"}]
  BY DEF PlannerInv
<1>1. CASE Planner!ConnectionLost
  <2>1. /\ UNCHANGED <<plan, nextVersion, committed, planAborted, serverPlan>>
        /\ planToClient' = <<>> /\ planToServer' = <<>> /\ serverState' = "ended"
        /\ ready' = ready \/ ready' = [ready EXCEPT !.promise = "rejected"]
        /\ planAsked' = planAsked \/ planAsked' = Planner!Answered(waiters, "rejected")
    BY <1>1 DEF Planner!ConnectionLost, Planner!OnError, Planner!RejectPendingPlanWaiters
  <2>2. ready' \in [is : BOOLEAN, promise : {"pending", "resolved", "rejected"}] /\ ready'.is = ready.is
    BY <1>0, <2>1
  <2> QED
    BY <2>1, <2>2, PlannerHearsEnd
<1>2. CASE Planner!ClientReceives
  <2> PICK m : m = Head(planToClient)
    OBVIOUS
  <2>1. /\ planToClient # <<>> /\ planToClient' = Tail(planToClient) /\ planChannel = "open"
        /\ UNCHANGED <<committed, planAborted, planToServer, serverPlan, serverState>>
        /\ Planner!OnPlan(m) \/ Planner!OnSuccess(m) \/ Planner!OnError(m) \/ Planner!OnClose(m)
    BY <1>2 DEF Planner!ClientReceives, Planner!serverVars
  <2>2. CASE Planner!OnPlan(m)
    BY <1>2, <2>2, PlannerHearsPlan
  <2>3. CASE Planner!OnSuccess(m) \/ Planner!OnError(m) \/ Planner!OnClose(m)
    <3>1. /\ UNCHANGED <<plan, nextVersion>>
          /\ ready' = ready \/ ready' = [ready EXCEPT !.promise = "rejected"]
          /\ planAsked' = planAsked \/ planAsked' = Planner!Answered(waiters, "rejected")
          /\ planChannel' = "open" \/ m.type \in {"error", "close"}
      BY <2>1, <2>3 DEF Planner!OnSuccess, Planner!OnError, Planner!OnClose,
                      Planner!RejectPendingPlanWaiters
    <3>2. ready' \in [is : BOOLEAN, promise : {"pending", "resolved", "rejected"}] /\ ready'.is = ready.is
      BY <1>0, <3>1
    <3>3. planChannel' # "open" => serverState' = "ended"
      <4>1. GoodForClient(m, plan, serverPlan, planAsked, ready.is, serverState)
        BY <2>1, ClientWireShrinks DEF PlannerInv
      <4> QED
        BY <2>1, <3>1, <4>1 DEF GoodForClient, IsPlan
    <3> QED
      BY <2>1, <3>1, <3>2, <3>3, PlannerHearsEnd
  <2> QED
    BY <2>1, <2>2, <2>3
<1> QED
  BY <1>1, <1>2
(* LM Studio resolves the plan: nobody could select anything yet.          *)
PlanResolved(m, sp, sp2, st, st2) ==
    /\ m \in Planner!ToClient /\ IsPlan(m) /\ m.plan = sp2
    /\ sp2 \in Planner!Plans /\ sp2.version = sp.version + 1
    /\ st \in PlannerEarly
    /\ \/ m.type = "planUpdated" /\ st2 = st
       \/ st2 = "ready"
       \/ st2 = "downloading" /\ st = "committedEarly"

LEMMA PlanResolvesKeeps ==
    ASSUME NEW m, NEW w, NEW v, NEW p, NEW sp, NEW sp2, NEW n, NEW a, NEW is, NEW com, NEW ch,
           NEW st, NEW st2, NEW ab,
           GoodPlanner(p, sp, n, a, is, com, ch, st), GoodToClient(w, p, sp, a, is, st),
           GoodToServer(v, sp, n, a, is, com, ab),
           PlanResolved(m, sp, sp2, st, st2)
    PROVE  /\ GoodPlanner(p, sp2, n, a, is, com, ch, st2)
           /\ GoodToClient(Append(w, m), p, sp2, a, is, st2)
           /\ GoodToServer(v, sp2, n, a, is, com, ab)
           /\ a = <<>>
<1>0. /\ m \in Planner!ToClient /\ IsPlan(m) /\ m.plan = sp2 /\ st \in PlannerEarly
      /\ sp2 \in Planner!Plans /\ sp2.version = sp.version + 1
      /\ \/ m.type = "planUpdated" /\ st2 = st
         \/ st2 = "ready"
         \/ st2 = "downloading" /\ st = "committedEarly"
  BY DEF PlanResolved
<1>1. /\ p \in Planner!Plans /\ sp \in Planner!Plans /\ n \in Nat /\ a \in Seq(PlannerAsked)
      /\ p.version \in Nat /\ sp.version \in Nat /\ sp2.version \in Nat /\ is \in BOOLEAN
      /\ p.version <= sp.version /\ ~ is /\ a = <<>>
      /\ OptionFits(a, p.version, p.option)
  BY <1>0 DEF GoodPlanner, Planner!Plans
<1>2. GoodPlanner(p, sp2, n, a, is, com, ch, st2)
  <2>1. OptionFits(a, sp2.version, sp2.option)
    BY <1>0, <1>1 DEF OptionFits
  <2>2. (st2 \in {"committedEarly", "downloading"} => com) /\ (ch # "open" => st2 = "ended")
    BY <1>0 DEF GoodPlanner, PlannerEarly
  <2>3. p.version <= sp2.version
    BY <1>0, <1>1
  <2> QED
    BY <1>0, <1>1, <2>1, <2>2, <2>3 DEF GoodPlanner
<1>3. GoodToClient(Append(w, m), p, sp2, a, is, st2)
  <2>1. \A k \in DOMAIN w : w[k] \in Planner!ToClient /\ GoodForClient(w[k], p, sp, a, is, st)
    BY <1>0, ClientWireHas
  <2>2. \A x \in Planner!ToClient : GoodForClient(x, p, sp, a, is, st) =>
          /\ GoodForClient(x, p, sp2, a, is, st2)
          /\ PlanOrder(x, m)
    <3> SUFFICES ASSUME NEW x \in Planner!ToClient, GoodForClient(x, p, sp, a, is, st)
                 PROVE  GoodForClient(x, p, sp2, a, is, st2) /\ PlanOrder(x, m)
      OBVIOUS
    <3>1. IsPlan(x) /\ x.type # "planReady"
      BY <1>0 DEF GoodForClient, PlannerEarly
    <3>2. /\ x.plan.version \in Nat /\ p.version <= x.plan.version
          /\ x.plan.version <= sp.version
          /\ OptionFits(a, x.plan.version, x.plan.option)
      BY <1>0, <3>1, PlanMessages DEF GoodForClient
    <3>3. x.plan.version <= sp2.version
      BY <1>0, <1>1, <3>2
    <3> QED
      BY <1>0, <3>1, <3>2, <3>3 DEF GoodForClient, PlanOrder
  <2>3. GoodToClient(w, p, sp2, a, is, st2)
    BY <1>0, <2>1, <2>2 DEF GoodToClient
  <2>4. GoodForClient(m, p, sp2, a, is, st2)
    <3>1. p.version <= m.plan.version /\ m.plan.version <= sp2.version
      BY <1>0, <1>1
    <3>2. OptionFits(a, m.plan.version, m.plan.option)
      BY <1>0, <1>1 DEF OptionFits
    <3>3. m.type = "planReady" => st2 \notin PlannerEarly
      BY <1>0 DEF PlannerEarly
    <3> QED
      BY <1>0, <3>1, <3>2, <3>3 DEF GoodForClient
  <2> QED
    BY <1>0, <2>1, <2>2, <2>3, <2>4, ClientWireGrows
<1>4. GoodToServer(v, sp2, n, a, is, com, ab)
  BY <1>0, <1>1 DEF GoodToServer, GoodForServer
<1> QED
  BY <1>0, <1>1, <1>2, <1>3, <1>4

(* LM Studio takes a selection.                                            *)
LEMMA PlanSelectedKeeps ==
    ASSUME NEW m \in Planner!ToClient, NEW h, NEW w, NEW v, NEW p, NEW sp, NEW sp2, NEW n, NEW a, NEW is,
           NEW com, NEW ch, NEW st, NEW ab,
           GoodPlanner(p, sp, n, a, is, com, ch, st), GoodToClient(w, p, sp, a, is, st),
           GoodToServer(v, sp, n, a, is, com, ab), LastIsComing(v, sp, a, st),
           st = "ready", v # <<>>, h = Head(v), IsSelect(h),
           sp2 \in Planner!Plans, sp2.version = h.version, sp2.option = h.option,
           m.type = "planUpdated", m.plan = sp2
    PROVE  /\ GoodPlanner(p, sp2, n, a, is, com, ch, st)
           /\ GoodToClient(Append(w, m), p, sp2, a, is, st)
           /\ GoodToServer(Tail(v), sp2, n, a, is, com, ab)
           /\ LastIsComing(Tail(v), sp2, a, st)
<1> PICK r : r = Tail(v)
  OBVIOUS
<1>1. /\ p \in Planner!Plans /\ sp \in Planner!Plans /\ n \in Nat /\ a \in Seq(PlannerAsked)
      /\ p.version \in Nat /\ sp.version \in Nat /\ sp2.version \in Nat /\ is \in BOOLEAN
      /\ p.version <= sp.version
  BY DEF GoodPlanner, Planner!Plans
<1>2. /\ GoodToServer(r, sp, n, a, is, com, ab) /\ WireShrinks(v, r)
      /\ GoodForServer(h, sp, n, a, is, com)
      /\ \A k \in DOMAIN r : SelectOrder(h, r[k], ab)
  BY ServerWireShrinks
<1>3. /\ is /\ sp.version <= sp2.version /\ sp2.version < n
      /\ OptionFits(a, sp2.version, sp2.option)
  BY <1>2 DEF GoodForServer
<1>4. GoodPlanner(p, sp2, n, a, is, com, ch, st)
  <2>1. p.version <= sp2.version
    BY <1>1, <1>3
  <2>2. /\ OptionFits(a, p.version, p.option) /\ st \notin PlannerEarly
        /\ ch # "open" => st = "ended"
        /\ a # <<>> /\ a[Len(a)].outcome = "resolved" => p.version >= a[Len(a)].version
    BY <1>3 DEF GoodPlanner
  <2> QED
    BY <1>1, <1>3, <2>1, <2>2 DEF GoodPlanner
<1>5. GoodToClient(Append(w, m), p, sp2, a, is, st)
  <2>1. \A k \in DOMAIN w : w[k] \in Planner!ToClient /\ GoodForClient(w[k], p, sp, a, is, st)
    BY ClientWireHas
  <2>2. \A x \in Planner!ToClient : GoodForClient(x, p, sp, a, is, st) =>
          /\ GoodForClient(x, p, sp2, a, is, st)
          /\ PlanOrder(x, m)
    <3> SUFFICES ASSUME NEW x \in Planner!ToClient, GoodForClient(x, p, sp, a, is, st)
                 PROVE  GoodForClient(x, p, sp2, a, is, st) /\ PlanOrder(x, m)
      OBVIOUS
    <3>1. IsPlan(x) => x.plan.version <= sp2.version
      <4> SUFFICES ASSUME IsPlan(x) PROVE x.plan.version <= sp2.version
        OBVIOUS
      <4>1. x.plan.version \in Nat /\ x.plan.version <= sp.version
        BY PlanMessages DEF GoodForClient
      <4> QED
        BY <1>1, <1>3, <4>1
    <3> QED
      BY <1>3, <3>1 DEF GoodForClient, PlanOrder
  <2>3. GoodToClient(w, p, sp2, a, is, st)
    BY <2>1, <2>2 DEF GoodToClient
  <2>4. GoodForClient(m, p, sp2, a, is, st)
    <3>1. p.version <= m.plan.version /\ m.plan.version <= sp2.version
      BY <1>1, <1>3
    <3>2. IsPlan(m)
      BY DEF IsPlan
    <3> QED
      BY <1>3, <3>1, <3>2 DEF GoodForClient
  <2> QED
    BY <2>1, <2>2, <2>3, <2>4, ClientWireGrows
<1>6. GoodToServer(r, sp2, n, a, is, com, ab)
  <2>1. \A k \in DOMAIN r : GoodForServer(r[k], sp, n, a, is, com)
    BY <1>2 DEF GoodToServer
  <2>2. \A k \in DOMAIN r : GoodForServer(r[k], sp2, n, a, is, com)
    BY <1>2, <2>1 DEF GoodForServer, SelectOrder
  <2> QED
    BY <1>2, <2>2 DEF GoodToServer
<1>7. LastIsComing(r, sp2, a, st)
  <2> SUFFICES ASSUME a # <<>>
               PROVE  \/ sp2.version >= a[Len(a)].version
                      \/ \E k \in DOMAIN r : IsSelect(r[k]) /\ r[k].version >= a[Len(a)].version
    BY DEF LastIsComing
  <2> PICK x : x = a[Len(a)].version
    OBVIOUS
  <2>1. x \in Nat
    <3>1. a[Len(a)] \in PlannerAsked
      BY <1>1
    <3> QED
      BY <3>1 DEF PlannerAsked
  <2>2. CASE sp.version >= x
    BY <1>1, <1>3, <2>1, <2>2
  <2>3. CASE \E k \in DOMAIN v : IsSelect(v[k]) /\ v[k].version >= x
    <3> PICK k \in DOMAIN v : IsSelect(v[k]) /\ v[k].version >= x
      BY <2>3
    <3>1. CASE k = 1
      BY <1>2, <3>1 DEF WireShrinks
    <3>2. CASE \E l \in DOMAIN r : r[l] = v[k]
      BY <3>2
    <3> QED
      BY <1>2, <3>1, <3>2 DEF WireShrinks
  <2> QED
    BY <2>2, <2>3 DEF LastIsComing
<1> QED
  BY <1>4, <1>5, <1>6, <1>7

(* LM Studio ends the channel.                                             *)
LEMMA PlanEndsKeeps ==
    ASSUME NEW w, NEW p, NEW sp, NEW n, NEW a, NEW is, NEW com, NEW ch, NEW st,
           GoodPlanner(p, sp, n, a, is, com, ch, st), GoodToClient(w, p, sp, a, is, st)
    PROVE  GoodPlanner(p, sp, n, a, is, com, ch, "ended") /\ GoodToClient(w, p, sp, a, is, "ended")
<1>1. GoodPlanner(p, sp, n, a, is, com, ch, "ended")
  BY DEF GoodPlanner, PlannerEarly
<1>2. \A x : GoodForClient(x, p, sp, a, is, st) => GoodForClient(x, p, sp, a, is, "ended")
  BY DEF GoodForClient, PlannerEarly
<1> QED
  BY <1>1, <1>2 DEF GoodToClient

LEMMA PlanEndIsTold ==
    ASSUME NEW w, NEW p, NEW sp, NEW a, NEW is, GoodToClient(w, p, sp, a, is, "ended"),
           NEW t \in {"success", "error", "close"}
    PROVE  GoodToClient(Append(w, [type |-> t]), p, sp, a, is, "ended")
<1> PICK m : m = [type |-> t]
  OBVIOUS
<1>1. m \in Planner!ToClient /\ ~ IsPlan(m)
  BY PlanMessages DEF IsPlan
<1>2. GoodForClient(m, p, sp, a, is, "ended")
  BY <1>1 DEF GoodForClient, IsPlan
<1>3. \A x : PlanOrder(x, m)
  BY <1>1 DEF PlanOrder
<1> QED
  BY <1>1, <1>2, <1>3, ClientWireGrows

(* What LM Studio ends with, and what it leaves alone then.                *)
PlannerEnding ==
    /\ serverState' = "ended"
    /\ \/ \E t \in {"success", "error", "close"} : planToClient' = planToClient \o <<[type |-> t]>>
       \/ planToClient' = planToClient \o <<[type |-> "success"], [type |-> "close"]>>
    /\ \/ UNCHANGED planToServer
       \/ planToServer # <<>> /\ planToServer' = Tail(planToServer)
    /\ UNCHANGED <<plan, serverPlan, nextVersion, planAsked, ready, committed, planChannel, planAborted>>

LEMMA PlannerEnds ==
    ASSUME PlannerInv, PlannerEnding
    PROVE  PlannerInv'
<1> PICK w, v, p, sp, n, a, is, com, ch, st, ab :
        /\ w = planToClient /\ v = planToServer /\ p = plan /\ sp = serverPlan /\ n = nextVersion
        /\ a = planAsked /\ is = ready.is /\ com = committed /\ ch = planChannel /\ st = serverState
        /\ ab = planAborted
  OBVIOUS
<1> PICK w2, v2 : w2 = planToClient' /\ v2 = planToServer'
  OBVIOUS
<1>1. /\ GoodPlanner(p, sp, n, a, is, com, ch, st) /\ GoodToClient(w, p, sp, a, is, st)
      /\ GoodToServer(v, sp, n, a, is, com, ab)
  BY DEF PlannerInv
<1>2. GoodPlanner(p, sp, n, a, is, com, ch, "ended") /\ GoodToClient(w, p, sp, a, is, "ended")
  BY <1>1, PlanEndsKeeps
<1>3. w \in Seq(Planner!ToClient)
  BY <1>2 DEF GoodToClient
<1>4. GoodToClient(w2, p, sp, a, is, "ended")
  <2>1. ASSUME NEW t \in {"success", "error", "close"}, w2 = w \o <<[type |-> t]>>
        PROVE  GoodToClient(w2, p, sp, a, is, "ended")
    <3> PICK m : m = [type |-> t]
      OBVIOUS
    <3>1. w2 = Append(w, m)
      BY <1>3, <2>1
    <3> QED
      BY <1>2, <3>1, PlanEndIsTold
  <2>2. ASSUME w2 = w \o <<[type |-> "success"], [type |-> "close"]>>
        PROVE  GoodToClient(w2, p, sp, a, is, "ended")
    <3> PICK m1, m2, w1 : m1 = [type |-> "success"] /\ m2 = [type |-> "close"] /\ w1 = Append(w, m1)
      OBVIOUS
    <3>1. m1 \in Planner!ToClient /\ m2 \in Planner!ToClient
      BY PlanMessages
    <3>2. w2 = Append(w1, m2)
      BY <1>3, <2>2, <3>1, TwoAppends
    <3>3. GoodToClient(w1, p, sp, a, is, "ended")
      BY <1>2, PlanEndIsTold
    <3> QED
      BY <3>2, <3>3, PlanEndIsTold
  <2> QED
    BY <2>1, <2>2 DEF PlannerEnding
<1>5. GoodToServer(v2, sp, n, a, is, com, ab)
  <2>1. v # <<>> => GoodToServer(Tail(v), sp, n, a, is, com, ab)
    BY <1>1, ServerWireShrinks
  <2> QED
    BY <1>1, <2>1 DEF PlannerEnding
<1>6. /\ GoodPlanner(plan', serverPlan', nextVersion', planAsked', ready'.is, committed', planChannel', serverState')
      /\ GoodToClient(planToClient', plan', serverPlan', planAsked', ready'.is, serverState')
      /\ GoodToServer(planToServer', serverPlan', nextVersion', planAsked', ready'.is, committed', planAborted')
      /\ ready' = ready /\ serverState' # "ready"
  BY <1>2, <1>4, <1>5 DEF PlannerEnding
<1> QED
  BY <1>6 DEF PlannerInv, LastIsComing

LEMMA PlannerResolves ==
    ASSUME PlannerInv, NEW type \in {"planUpdated", "planReady"}, Planner!ServerResolves(type)
    PROVE  PlannerInv'
<1> PICK w, v, p, sp, n, a, is, com, ch, st, ab :
        /\ w = planToClient /\ v = planToServer /\ p = plan /\ sp = serverPlan /\ n = nextVersion
        /\ a = planAsked /\ is = ready.is /\ com = committed /\ ch = planChannel /\ st = serverState
        /\ ab = planAborted
  OBVIOUS
<1> PICK sp2, st2 : sp2 = serverPlan' /\ st2 = serverState'
  OBVIOUS
<1> PICK m : m = [type |-> type, plan |-> sp2]
  OBVIOUS
<1>1. /\ GoodPlanner(p, sp, n, a, is, com, ch, st) /\ GoodToClient(w, p, sp, a, is, st)
      /\ GoodToServer(v, sp, n, a, is, com, ab)
  BY DEF PlannerInv
<1>2. /\ UNCHANGED <<plan, nextVersion, planAsked, ready, committed, planChannel, planAborted, planToServer>>
      /\ planToClient' = planToClient \o <<m>>
      /\ serverPlan' = [serverPlan EXCEPT !.version = @ + 1]
      /\ st \in PlannerEarly
  BY DEF Planner!ServerResolves, Planner!Answer, Planner!plannerVars, Planner!userVars, PlannerEarly
<1>8. \/ type = "planUpdated" /\ st2 = st
      \/ st2 = "ready"
      \/ st2 = "downloading" /\ st = "committedEarly"
  BY DEF Planner!ServerResolves
<1>3. sp2 \in Planner!Plans /\ sp2.version = sp.version + 1
  BY <1>1, <1>2 DEF GoodPlanner, Planner!Plans
<1>4. m \in Planner!ToClient /\ IsPlan(m) /\ m.plan = sp2 /\ m.type = type
  BY <1>3, PlanMessages DEF IsPlan
<1>5. planToClient' = Append(w, m)
  BY <1>1, <1>2, <1>4 DEF GoodToClient
<1>6. /\ GoodPlanner(p, sp2, n, a, is, com, ch, st2)
      /\ GoodToClient(Append(w, m), p, sp2, a, is, st2)
      /\ GoodToServer(v, sp2, n, a, is, com, ab)
      /\ a = <<>>
  <2>1. PlanResolved(m, sp, sp2, st, st2)
    BY <1>2, <1>3, <1>4, <1>8 DEF PlanResolved
  <2> QED
    BY ONLY <1>1, <2>1, PlanResolvesKeeps
<1>7. /\ GoodPlanner(plan', serverPlan', nextVersion', planAsked', ready'.is, committed', planChannel', serverState')
      /\ GoodToClient(planToClient', plan', serverPlan', planAsked', ready'.is, serverState')
      /\ GoodToServer(planToServer', serverPlan', nextVersion', planAsked', ready'.is, committed', planAborted')
      /\ ready' = ready /\ planAsked' = <<>>
  BY <1>2, <1>5, <1>6
<1> QED
  BY <1>7 DEF PlannerInv, LastIsComing

LEMMA PlannerIsSelected ==
    ASSUME PlannerInv, Planner!ServerReceives, Head(planToServer).type = "select", serverState = "ready"
    PROVE  PlannerInv'
<1> PICK w, v, p, sp, n, a, is, com, ch, st, ab :
        /\ w = planToClient /\ v = planToServer /\ p = plan /\ sp = serverPlan /\ n = nextVersion
        /\ a = planAsked /\ is = ready.is /\ com = committed /\ ch = planChannel /\ st = serverState
        /\ ab = planAborted
  OBVIOUS
<1> PICK sp2, h : sp2 = serverPlan' /\ h = Head(planToServer)
  OBVIOUS
<1> PICK m : m = [type |-> "planUpdated", plan |-> sp2]
  OBVIOUS
<1>1. /\ GoodPlanner(p, sp, n, a, is, com, ch, st) /\ GoodToClient(w, p, sp, a, is, st)
      /\ GoodToServer(v, sp, n, a, is, com, ab) /\ LastIsComing(v, sp, a, st)
  BY DEF PlannerInv
<1>2. /\ UNCHANGED <<plan, nextVersion, planAsked, ready, committed, planChannel, planAborted, serverState>>
      /\ v # <<>> /\ planToServer' = Tail(v)
      /\ planToClient' = planToClient \o <<m>>
      /\ serverPlan' = [version |-> h.version, option |-> h.option]
      /\ st = "ready" /\ IsSelect(h)
  BY DEF Planner!ServerReceives, Planner!Answer, Planner!plannerVars, Planner!userVars, IsSelect
<1>3. h \in Planner!ToServer
  BY <1>1, <1>2, ServerWireShrinks
<1>4. sp2 \in Planner!Plans /\ sp2.version = h.version /\ sp2.option = h.option
  BY <1>2, <1>3, PlanMessages DEF Planner!Plans
<1>5. m \in Planner!ToClient /\ m.plan = sp2 /\ m.type = "planUpdated"
  BY <1>4, PlanMessages
<1>6. planToClient' = Append(w, m)
  <2>1. w \in Seq(Planner!ToClient)
    BY <1>1 DEF GoodToClient
  <2>2. w \o <<m>> = Append(w, m)
    BY ONLY <1>5, <2>1
  <2>3. planToClient' = w \o <<m>>
    BY <1>2
  <2> QED
    BY ONLY <2>2, <2>3
<1>7. /\ GoodPlanner(p, sp2, n, a, is, com, ch, st)
      /\ GoodToClient(Append(w, m), p, sp2, a, is, st)
      /\ GoodToServer(Tail(v), sp2, n, a, is, com, ab)
      /\ LastIsComing(Tail(v), sp2, a, st)
  BY <1>1, <1>2, <1>4, <1>5, PlanSelectedKeeps
<1>8. /\ GoodPlanner(plan', serverPlan', nextVersion', planAsked', ready'.is, committed', planChannel', serverState')
      /\ GoodToClient(planToClient', plan', serverPlan', planAsked', ready'.is, serverState')
      /\ GoodToServer(planToServer', serverPlan', nextVersion', planAsked', ready'.is, committed', planAborted')
      /\ LastIsComing(planToServer', serverPlan', planAsked', serverState')
      /\ ready' = ready
  BY <1>2, <1>6, <1>7
<1> QED
  BY <1>8 DEF PlannerInv

(* No selection follows a commit: LM Studio downloads the last one.        *)
LEMMA PlannerIsCommitted ==
    ASSUME PlannerInv, planToServer # <<>>, planToServer' = Tail(planToServer),
           UNCHANGED <<plan, serverPlan, nextVersion, planAsked, ready, committed, planChannel, planAborted,
                       planToClient>>,
           \/ serverState' = serverState /\ serverState # "ready"
           \/ /\ Head(planToServer).type = "commit"
              /\ \/ serverState = "ready" /\ serverState' = "downloading"
                 \/ serverState = "resolving" /\ serverState' = "committedEarly"
    PROVE  PlannerInv'
<1> PICK w, v, p, sp, n, a, is, com, ch, st, ab :
        /\ w = planToClient /\ v = planToServer /\ p = plan /\ sp = serverPlan /\ n = nextVersion
        /\ a = planAsked /\ is = ready.is /\ com = committed /\ ch = planChannel /\ st = serverState
        /\ ab = planAborted
  OBVIOUS
<1> PICK r, st2, h : r = Tail(v) /\ st2 = serverState' /\ h = Head(v)
  OBVIOUS
<1>1. /\ GoodPlanner(p, sp, n, a, is, com, ch, st) /\ GoodToClient(w, p, sp, a, is, st)
      /\ GoodToServer(v, sp, n, a, is, com, ab) /\ LastIsComing(v, sp, a, st)
  BY DEF PlannerInv
<1>2. /\ GoodToServer(r, sp, n, a, is, com, ab) /\ WireShrinks(v, r)
      /\ GoodForServer(h, sp, n, a, is, com)
      /\ \A k \in DOMAIN r : SelectOrder(h, r[k], ab)
  BY <1>1, ServerWireShrinks
<1>3. /\ st2 # "ready" /\ (st2 \in PlannerEarly => st \in PlannerEarly) /\ (st = "ended" => st2 = "ended")
      /\ st2 \in {"committedEarly", "downloading"} => st = st2 \/ h.type = "commit"
      /\ st2 = "downloading" => st = "downloading" \/ (st = "ready" /\ h.type = "commit")
      /\ st2 \notin PlannerEarly => st \notin PlannerEarly
  BY DEF PlannerEarly
<1>4. a # <<>> /\ st2 = "downloading" => sp.version >= a[Len(a)].version
  <2>1. CASE st = "downloading"
    BY <1>1, <2>1 DEF GoodPlanner
  <2>2. ASSUME st = "ready", h.type = "commit", a # <<>>
        PROVE  sp.version >= a[Len(a)].version
    <3>1. ASSUME NEW k \in DOMAIN v PROVE ~ IsSelect(v[k])
      <4>1. k = 1 \/ \E l \in DOMAIN r : r[l] = v[k]
        BY <1>2 DEF WireShrinks
      <4>2. v[1] = h
        BY <1>2 DEF WireShrinks
      <4>3. ~ IsSelect(h)
        BY <2>2 DEF IsSelect
      <4>4. \A l \in DOMAIN r : ~ IsSelect(r[l])
        BY <1>2, <2>2 DEF SelectOrder
      <4> QED
        BY <4>1, <4>2, <4>3, <4>4
    <3> QED
      BY <1>1, <2>2, <3>1 DEF LastIsComing
  <2> QED
    BY <1>3, <2>1, <2>2
<1>5. GoodPlanner(p, sp, n, a, is, com, ch, st2)
  <2>1. st2 \in {"committedEarly", "downloading"} => com
    BY <1>1, <1>2, <1>3 DEF GoodPlanner, GoodForServer
  <2>2. (ch # "open" => st2 = "ended") /\ (is => sp.version < n /\ st2 \notin PlannerEarly)
    BY <1>1, <1>3 DEF GoodPlanner
  <2> QED
    BY <1>1, <1>4, <2>1, <2>2 DEF GoodPlanner
<1>6. GoodToClient(w, p, sp, a, is, st2)
  <2>1. \A x : GoodForClient(x, p, sp, a, is, st) => GoodForClient(x, p, sp, a, is, st2)
    BY <1>3 DEF GoodForClient
  <2> QED
    BY <1>1, <2>1 DEF GoodToClient
<1>7. /\ GoodPlanner(plan', serverPlan', nextVersion', planAsked', ready'.is, committed', planChannel', serverState')
      /\ GoodToClient(planToClient', plan', serverPlan', planAsked', ready'.is, serverState')
      /\ GoodToServer(planToServer', serverPlan', nextVersion', planAsked', ready'.is, committed', planAborted')
      /\ ready' = ready /\ serverState' # "ready"
  BY <1>2, <1>3, <1>5, <1>6
<1> QED
  BY <1>7 DEF PlannerInv, LastIsComing

LEMMA PlannerReceives ==
    ASSUME PlannerInv, Planner!ServerReceives
    PROVE  PlannerInv'
<1> PICK h : h = Head(planToServer)
  OBVIOUS
<1>1. /\ planToServer # <<>> /\ planToServer' = Tail(planToServer)
      /\ UNCHANGED <<plan, nextVersion, planAsked, ready, committed, planChannel, planAborted>>
  BY DEF Planner!ServerReceives, Planner!plannerVars, Planner!userVars
<1>2. \/ h.type = "select" /\ serverState = "ready"
      \/ /\ UNCHANGED <<serverPlan, planToClient>>
         /\ \/ serverState' = serverState /\ serverState # "ready"
            \/ /\ h.type = "commit"
               /\ \/ serverState = "ready" /\ serverState' = "downloading"
                  \/ serverState = "resolving" /\ serverState' = "committedEarly"
      \/ \E t \in {"success", "error", "close"} : Planner!ServerEnds(<<[type |-> t]>>)
  BY DEF Planner!ServerReceives, Planner!serverVars
<1>3. CASE h.type = "select" /\ serverState = "ready"
  BY <1>3, PlannerIsSelected
<1>4. CASE /\ UNCHANGED <<serverPlan, planToClient>>
           /\ \/ serverState' = serverState /\ serverState # "ready"
              \/ /\ h.type = "commit"
                 /\ \/ serverState = "ready" /\ serverState' = "downloading"
                    \/ serverState = "resolving" /\ serverState' = "committedEarly"
  BY <1>1, <1>4, PlannerIsCommitted
<1>5. CASE \E t \in {"success", "error", "close"} : Planner!ServerEnds(<<[type |-> t]>>)
  <2>1. PlannerEnding
    BY <1>1, <1>5 DEF PlannerEnding, Planner!ServerEnds, Planner!Answer
  <2> QED
    BY <2>1, PlannerEnds
<1> QED
  BY <1>2, <1>3, <1>4, <1>5

LEMMA PlannerFinishes ==
    ASSUME PlannerInv, Planner!ServerFinishes \/ Planner!ServerFails
    PROVE  PlannerInv'
<1>1. UNCHANGED <<plan, serverPlan, nextVersion, planAsked, ready, committed, planChannel, planAborted,
                  planToServer>>
  BY DEF Planner!ServerFinishes, Planner!ServerFails, Planner!ServerEnds, Planner!plannerVars, Planner!userVars
<1>2. \/ Planner!ServerEnds(<<[type |-> "success"], [type |-> "close"]>>)
      \/ \E t \in {"success", "error", "close"} : Planner!ServerEnds(<<[type |-> t]>>)
  BY DEF Planner!ServerFinishes, Planner!ServerFails
<1>3. PlannerEnding
  BY <1>1, <1>2 DEF PlannerEnding, Planner!ServerEnds, Planner!Answer
<1> QED
  BY <1>3, PlannerEnds

LEMMA PlannerInvKept ==
    ASSUME PlannerInv, [Planner!Next]_plannerVars
    PROVE  PlannerInv'
<1>1. CASE UNCHANGED plannerVars
  <2>1. UNCHANGED <<plan, ready, committed, nextVersion, planAborted, planAsked, planChannel,
                    planToServer, planToClient, serverPlan, serverState>>
    BY <1>1 DEF plannerVars
  <2> QED
    BY <2>1 DEF PlannerInv
<1>2. CASE Planner!Next
  BY <1>2, PlannerSelects, PlannerCommits, PlannerAborts, PlannerDisposes, PlannerHears,
     PlannerResolves, PlannerReceives, PlannerFinishes DEF Planner!Next
<1> QED
  BY <1>1, <1>2

LEMMA PlannerInvHolds == PlannerInv => PlanIsSelection
<1> SUFFICES ASSUME PlannerInv PROVE PlanIsSelection
  OBVIOUS
<1>1. /\ GoodPlanner(plan, serverPlan, nextVersion, planAsked, ready.is, committed, planChannel, serverState)
      /\ GoodToServer(planToServer, serverPlan, nextVersion, planAsked, ready.is, committed, planAborted)
  BY DEF PlannerInv
<1>2. planAsked \in Seq(PlannerAsked)
  BY <1>1 DEF GoodPlanner
<1>3. Planner!SelectionIsShown
  BY <1>1, <1>2 DEF GoodPlanner, OptionFits, Planner!SelectionIsShown, Planner!Last
<1>4. Planner!DownloadsWhatWasSelected
  BY <1>1, <1>2 DEF GoodPlanner, OptionFits, Planner!DownloadsWhatWasSelected, Planner!Last
<1>5. Planner!DisposeSparesDownload
  BY <1>1 DEF GoodToServer, SelectOrder, Planner!DisposeSparesDownload
<1> QED
  BY <1>3, <1>4, <1>5 DEF PlanIsSelection

-----------------------------------------------------------------------------
(* The theorems.  A step of NextSessions is, for each component, a step of *)
(* its own or none.                                                        *)

LEMMA StepOfComponent ==
    ASSUME [NextSessions]_all
    PROVE  /\ [Handles!Next]_handlesVars /\ [Planner!Next]_plannerVars
BY DEF NextSessions, all

(* (DynamicHandle.ts, LLM.ts).                                             *)
THEOREM HandlesAgreeHolds == FairSessions => []HandlesAgree
<1>1. InitSessions => HandlesInv
  BY HandlesInitInv DEF InitSessions
<1>2. HandlesInv /\ [NextSessions]_all => HandlesInv'
  BY StepOfComponent, HandlesInvKept
<1>3. HandlesInv => HandlesAgree
  BY HandlesInvHolds
<1> QED
  BY <1>1, <1>2, <1>3, PTL DEF FairSessions

(* (ArtifactDownloadPlanner.ts).                                           *)
THEOREM PlanIsSelectionHolds == FairSessions => []PlanIsSelection
<1>1. InitSessions => PlannerInv
  BY PlannerInitInv DEF InitSessions
<1>2. PlannerInv /\ [NextSessions]_all => PlannerInv'
  BY StepOfComponent, PlannerInvKept
<1>3. PlannerInv => PlanIsSelection
  BY PlannerInvHolds
<1> QED
  BY <1>1, <1>2, <1>3, PTL DEF FairSessions
=============================================================================
