---------------------------- MODULE ModelHandles ----------------------------
(***************************************************************************)
(* Loaded models and the handles on them (lms-client/src/modelShared,      *)
(* llm/LLM.ts, llm/LLMDynamicHandle.ts, embedding).                        *)
(*                                                                         *)
(* A specific handle names an instance by its reference, a dynamic one     *)
(* whatever instance satisfies a query at the time.  Every method is one   *)
(* rpc or several, sent together or one after the other, and models are    *)
(* loaded and unloaded by anybody meanwhile.  The server takes rpcs in any *)
(* order and its answers arrive in the order it gave them.                 *)
(***************************************************************************)
EXTENDS Integers, Sequences, FiniteSets

CONSTANTS Ids,       \* identifiers of models
          Callers,   \* the calls
          MaxLoads   \* bound: instances ever loaded

VARIABLES models,    \* of the server: the instance loaded under an identifier, 0 if none
          instances, \* the identifier of every instance so far; its index is the reference
          handles,   \* specific handles the program has
          calls,     \* the calls of the program
          wire,      \* answers on their way: <<call, rpc>>
          disturbed  \* calls during which somebody else loaded or unloaded a model

vars == <<models, instances, handles, calls, wire, disturbed>>

Refs    == 1 .. MaxLoads
Pending == -1
None    == 0

-----------------------------------------------------------------------------
(* Handles *)

SpecificHandle(ref, id) == [type |-> "instanceReference", ref |-> ref, id |-> id]
DynamicHandle(id)       == [type |-> "query", ref |-> None, id |-> id]
AnyModel                == [type |-> "query", ref |-> None, id |-> "any"]
Dynamic                 == {DynamicHandle(id) : id \in Ids}

(* The instances the server may pick for a specifier. *)
Satisfying(h) ==
  LET under(ids) == {models[id] : id \in ids} \ {None}
  IN  IF h.type = "instanceReference" THEN under(Ids) \cap {h.ref}
      ELSE IF h = AnyModel            THEN under(Ids)
                                      ELSE under({h.id})

-----------------------------------------------------------------------------
(* Calls *)

NotCalled == [op |-> "none", on |-> AnyModel, rpcs |-> <<>>, outcome |-> "none"]
Rpc(name) == [name |-> name, answer |-> Pending, heard |-> FALSE]

Init ==
  /\ models = [id \in Ids |-> None] /\ instances = <<>> /\ handles = {}
  /\ calls = [c \in Callers |-> NotCalled] /\ wire = <<>> /\ disturbed = {}

Call(c, op, h, rpcs) ==
  /\ calls[c] = NotCalled
  /\ calls' = [calls EXCEPT ![c] = [op |-> op, on |-> h, rpcs |-> rpcs, outcome |-> "pending"]]
  /\ UNCHANGED <<models, instances, handles, wire, disturbed>>

(* Methods of any handle. *)
GetModelInfo(c)        == \E h \in Dynamic : Call(c, "info", h, <<Rpc("getModelInfo")>>)
Ask(c, rpcs) == \E h \in Dynamic \cup handles : Call(c, "ask", h, rpcs)

GetContextLength(c)           == Ask(c, <<Rpc("getLoadConfig")>>)
GetBasePredictionConfig(c)    == Ask(c, <<Rpc("getBasePredictionConfig")>>)
GetInstanceProcessingState(c) == Ask(c, <<Rpc("getInstanceProcessingState")>>)
ApplyPromptTemplate(c)        == Ask(c, <<Rpc("applyPromptTemplate")>>)
CountTokens(c)                == Ask(c, <<Rpc("countTokens")>>)
PreloadDraftModel(c)          == Ask(c, <<Rpc("preloadDraftModel")>>)
TokenizeAll(c)                == Ask(c, <<Rpc("tokenize"), Rpc("tokenize")>>)        \* bound: two strings
EmbedAll(c)                   == Ask(c, <<Rpc("embedString"), Rpc("embedString")>>)  \* bound: two strings

GetLoadConfig(c) ==
  \E h \in Dynamic \cup handles : Call(c, "config", h, <<Rpc("getLoadConfig")>>)

(* Methods of a namespace. *)
UnloadIdentifier(c) == \E id \in Ids : Call(c, "ask", DynamicHandle(id), <<Rpc("unloadModel")>>)
GetAny(c)           == Call(c, "handle", AnyModel, <<Rpc("getModelInfo")>>)
FromReference(c)    == \E h \in handles : Call(c, "handle", h, <<Rpc("getModelInfo")>>)

(* unload of a specific handle. *)
UnloadHandle(c) == \E h \in handles : Call(c, "unload", h, <<Rpc("getModelInfo")>>)

-----------------------------------------------------------------------------
(* The server *)

UnderWay == {c \in Callers : calls[c].outcome = "pending"}

(* It takes an rpc.  None is the answer of no model, and of an error.       *)
Takes(c, i) ==
  LET h == calls[c].on
      r == calls[c].rpcs[i]
      Give(ref) == /\ calls' = [calls EXCEPT ![c].rpcs[i].answer = ref]
                   /\ wire' = Append(wire, <<c, i>>)
  IN  /\ r.answer = Pending
      /\ IF r.name = "unloadModel"
           THEN /\ Give(models[h.id])
                /\ models' = [models EXCEPT ![h.id] = None]
                /\ disturbed' = disturbed \cup (UnderWay \ {c})
           ELSE /\ \/ \E ref \in Satisfying(h) : Give(ref)
                   \/ Satisfying(h) = {} /\ Give(None)
                /\ UNCHANGED <<models, disturbed>>
      /\ UNCHANGED <<instances, handles>>

ServerTakes == \E c \in Callers : \E i \in DOMAIN calls[c].rpcs : Takes(c, i)

(* A load ends, ours, which gives a handle, or another client's.            *)
ModelLoads ==
  \E id \in Ids :
    /\ models[id] = None /\ Len(instances) < MaxLoads
    /\ instances' = Append(instances, id)
    /\ models' = [models EXCEPT ![id] = Len(instances')]
    /\ handles' \in {handles, handles \cup {SpecificHandle(Len(instances'), id)}}
    /\ disturbed' = disturbed \cup UnderWay
    /\ UNCHANGED <<calls, wire>>

ListLoaded ==
  /\ handles' = handles \cup {SpecificHandle(models[id], id) : id \in {i \in Ids : models[i] # None}}
  /\ handles' # handles
  /\ UNCHANGED <<models, instances, calls, wire, disturbed>>

(* Another client unloads it, or it was idle for its time to live. *)
ModelUnloads ==
  \E id \in Ids :
    /\ models[id] # None /\ models' = [models EXCEPT ![id] = None]
    /\ disturbed' = disturbed \cup UnderWay
    /\ UNCHANGED <<instances, handles, calls, wire>>

-----------------------------------------------------------------------------
(* Answers *)

Settle(c, i, outcome) ==
  calls' = [calls EXCEPT ![c].rpcs[i].heard = TRUE, ![c].outcome = outcome]

(* Bug: the model is unloaded whether or not it is there. *)
UnloadsBlindly(c, i) == i = 1 /\ calls[c].op = "unload"

(* getModelInfo of a specific handle throws when there is none. *)
UnloadsNext(c, i) == i = 1 /\ calls[c].op = "unload" /\ calls[c].rpcs[1].answer # None

AsksNext(c, name) ==
  calls' = [calls EXCEPT ![c].rpcs = <<[calls[c].rpcs[1] EXCEPT !.heard = TRUE], Rpc(name)>>]

OthersHeard(c, i) == \A j \in DOMAIN calls[c].rpcs \ {i} : calls[c].rpcs[j].heard

Hears(c, i) ==
  LET call == calls[c]
      ref  == call.rpcs[i].answer
  IN  IF call.outcome # "pending" THEN Settle(c, i, call.outcome)   \* Promise.all has settled
      ELSE IF UnloadsNext(c, i) THEN AsksNext(c, "unloadModel")
      ELSE IF call.op = "config" /\ i = 1 /\ ref # None THEN AsksNext(c, "getModelInfo")
      ELSE IF ref = None /\ call.op # "info" THEN Settle(c, i, "rejected")
      ELSE Settle(c, i, IF OthersHeard(c, i) THEN "resolved" ELSE "pending")

ClientHears ==
  /\ wire # <<>> /\ wire' = Tail(wire)
  /\ LET c   == Head(wire)[1]
         i   == Head(wire)[2]
         ref == calls[c].rpcs[i].answer
     IN  /\ Hears(c, i)
         /\ handles' = IF calls[c].op = "handle" /\ ref # None
                         THEN handles \cup {SpecificHandle(ref, instances[ref])} ELSE handles
  /\ UNCHANGED <<models, instances, disturbed>>

Calls(c) ==
  \/ GetModelInfo(c) \/ GetContextLength(c) \/ ApplyPromptTemplate(c) \/ CountTokens(c)
  \/ GetBasePredictionConfig(c) \/ GetInstanceProcessingState(c) \/ PreloadDraftModel(c)
  \/ TokenizeAll(c) \/ EmbedAll(c) \/ GetLoadConfig(c)
  \/ UnloadIdentifier(c) \/ GetAny(c) \/ FromReference(c) \/ UnloadHandle(c)

Next ==
  \/ \E c \in Callers : Calls(c)
  \/ ServerTakes \/ ClientHears
  \/ ModelLoads \/ ListLoaded \/ ModelUnloads

Spec == Init /\ [][Next]_vars

(* The server takes every rpc and its answers arrive: the connection lasts. *)
Progress == ServerTakes \/ ClientHears

-----------------------------------------------------------------------------
(* Properties *)

TypeOK ==
  /\ models \in [Ids -> Refs \cup {None}] /\ instances \in Seq(Ids)
  /\ \A h \in handles : h.ref \in DOMAIN instances /\ instances[h.ref] = h.id
  /\ \A c \in Callers : \A i \in DOMAIN calls[c].rpcs :
       calls[c].rpcs[i].answer \in Refs \cup {None, Pending}
  /\ disturbed \subseteq Callers

(* Answers of the rpcs of a call, without that of the one that unloads. *)
AnswersOf(c) ==
  {calls[c].rpcs[i].answer : i \in {j \in DOMAIN calls[c].rpcs : calls[c].rpcs[j].name # "unloadModel"}}
  \ {Pending, None}

(* Whatever is loaded and unloaded between the rpcs of a call, a specific   *)
(* handle is answered of its own instance: two strings are not tokenized by *)
(* two models, and a load config is not read in the format of another.      *)
SpecificNeverMixes ==
  \A c \in Callers : calls[c].on \in handles => AnswersOf(c) \subseteq {calls[c].on.ref}

(* A call during which nobody else loads or unloads is answered of one      *)
(* model, and unload of a specific handle removes that instance and never   *)
(* its successor under the identifier.  (LLM.unload asks for the instance   *)
(* and then unloads by identifier: a model loaded between the two goes.)    *)
QuietCallsSeeOneModel ==
  \A c \in Callers \ disturbed :
    /\ calls[c].on # AnyModel => Cardinality(AnswersOf(c)) <= 1
    /\ calls[c].op = "unload" /\ calls[c].outcome = "resolved" => calls[c].rpcs[2].answer = calls[c].on.ref

(* Every call settles. *)
Settled == \A c \in Callers : calls[c].outcome # "pending"

=============================================================================
