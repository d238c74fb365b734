------------------------------ MODULE LoadConfig ------------------------------
(***************************************************************************)
(* The configuration a model is loaded with: the public form a user writes *)
(* and reads, the key-value form the server layers and collapses, and the  *)
(* conversions between them (lms-kv-config/src/conversion,                 *)
(* lms-shared-types/src/llm/LLMLoadModelConfig.ts).                        *)
(*                                                                         *)
(* A configuration is a function on the fields it sets.  The fields kept   *)
(* are those another field, a default or the conversion has an effect on:  *)
(* the selectors and tuning of speculative decoding, the split over GPUs,  *)
(* a seed that may be false, a prompt template that has no public default, *)
(* and the cache of the other model format.  The three internal sidecar    *)
(* selectors are written and cleared together and are one field here.      *)
(***************************************************************************)
EXTENDS Integers, Sequences, Functions, TLC

VARIABLES base,     \* the layer of defaults the server has for the model
          format,   \* "gguf" or "safetensors"
          request,  \* the public configuration of the last load
          loaded,   \* the collapsed key-value configuration of the model
          shown,    \* what getLoadConfig returned last
          loads,    \* loads since the model was unloaded
          outcome   \* of the last call

vars == <<base, format, request, loaded, shown, loads, outcome>>

Nothing == <<>>
Sets(c, f)     == f \in DOMAIN c
Is(c, f, v)    == f \in DOMAIN c /\ c[f] = v
Put(f, has, v) == IF has THEN f :> v ELSE Nothing

-----------------------------------------------------------------------------
(* Validation of the public form *)

HasDraftModel(c) == Is(c, "speculativeDraftModel", "m")

BothModes(c) == Is(c, "speculativeDraftMtp", TRUE) /\ Is(c, "speculativeDraftSimple", TRUE)
MinAboveMax(c) ==
  /\ Sets(c, "speculativeDraftMinTokens") /\ Sets(c, "speculativeDraftMaxTokens")
  /\ c["speculativeDraftMinTokens"] > c["speculativeDraftMaxTokens"]

(* Already collapsed fields may hold an inert draft model. *)
EffectiveIssues(c) ==
  \/ BothModes(c)
  \/ Is(c, "speculativeDraftSimple", TRUE) /\ ~ HasDraftModel(c)
  \/ MinAboveMax(c)

CrossFieldIssues(c) ==
  \/ EffectiveIssues(c)
  \/ HasDraftModel(c) /\ ~ Is(c, "speculativeDraftSimple", TRUE)

(* The mode fields resolve to. *)
ModeOf(c) == IF Is(c, "speculativeDraftMtp", TRUE) THEN "draftMtp"
             ELSE IF Is(c, "speculativeDraftSimple", TRUE) THEN "draftSimple"
             ELSE "off"

-----------------------------------------------------------------------------
(* Conversions *)

MaybeFalseValueToCheckboxValue(v) ==
  [checked |-> v # "false", value |-> IF v = "false" THEN "0" ELSE v]

CheckboxValueToMaybeFalse(b) == IF b.checked THEN b.value ELSE "false"

ConvertGPUSplitConfigToGPUSetting(split) ==
  Put("splitStrategy", split.strategy \in {"evenly", "priorityOrder"},
      IF split.strategy = "evenly" THEN "evenly" ELSE "favorMainGpu")
  @@ Put("disabledGpus", TRUE, split.disabledGpus)
  @@ Put("mainGpu", split.priority # <<>>, Head(split.priority))

ConvertGPUSettingToGPUSplitConfig(gpu) ==
  [strategy     |-> IF Is(gpu, "splitStrategy", "favorMainGpu") THEN "priorityOrder" ELSE "evenly",
   disabledGpus |-> IF Sets(gpu, "disabledGpus") THEN gpu["disabledGpus"] ELSE {},
   priority     |-> IF Sets(gpu, "mainGpu") THEN <<gpu["mainGpu"]>> ELSE <<>>]

PublicSelectors == {"speculativeDraftMtp", "speculativeDraftSimple", "speculativeDraftModel"}
NamesSelector(c) == DOMAIN c \cap PublicSelectors # {}

(* Fields that have one name and one value in both forms. *)
SameInBoth == PublicSelectors \cup {"speculativeDraftMaxTokens", "speculativeDraftMinTokens",
                                    "promptTemplate"}

LlmLoadModelConfigToKVConfig(c) ==
  Restrict(c, DOMAIN c \cap SameInBoth)
  @@ Put("sidecars", NamesSelector(c), FALSE)
  @@ (IF Sets(c, "seed") THEN "seed" :> MaybeFalseValueToCheckboxValue(c["seed"]) ELSE Nothing)
  @@ (IF Sets(c, "gpu")
        THEN "gpuSplitConfig" :> ConvertGPUSettingToGPUSplitConfig(c["gpu"])
             @@ Put("offloadRatio", Sets(c["gpu"], "ratio"), c["gpu"]["ratio"])
        ELSE Nothing)
  @@ (IF Sets(c, "mlxKvCacheQuantization")
        THEN "kvCacheQuantization" :> [enabled |-> c["mlxKvCacheQuantization"] # "false"]
        ELSE Nothing)

(* buildPartialConfig throws on a value its field does not accept: the     *)
(* least seed is -1, which the public form does not say.                   *)
Accepted(kv) == Sets(kv, "seed") => kv["seed"].value # "-5"

Defaults == [speculativeDraftMtp |-> FALSE, speculativeDraftSimple |-> FALSE,
             speculativeDraftModel |-> "", speculativeDraftMaxTokens |-> 3,
             speculativeDraftMinTokens |-> 0,
             seed |-> [checked |-> FALSE, value |-> "-1"],
             gpuSplitConfig |-> [strategy |-> "evenly", disabledGpus |-> {}, priority |-> <<>>],
             offloadRatio |-> "max", kvCacheQuantization |-> [enabled |-> FALSE]]

(* Bug: the draft model is shown whatever consumes it. *)
ShownDraftModelAlways(kv) == kv["speculativeDraftModel"]

ShownDraftModel(kv) ==
  IF kv["speculativeDraftSimple"] THEN kv["speculativeDraftModel"] ELSE ""

KvConfigToLLMLlamaLoadModelConfig(kv) ==
  LET full == kv @@ Defaults
  IN  ("speculativeDraftModel" :> ShownDraftModel(full))
      @@ Restrict(full, SameInBoth \cap DOMAIN full)
      @@ ("seed" :> CheckboxValueToMaybeFalse(full["seed"]))
      @@ ("gpu" :> (("ratio" :> full["offloadRatio"])
                    @@ ConvertGPUSplitConfigToGPUSetting(full["gpuSplitConfig"])))

KvConfigToLLMMlxLoadModelConfig(kv) ==
  LET full == kv @@ Defaults
  IN  ("seed" :> CheckboxValueToMaybeFalse(full["seed"]))
      @@ ("mlxKvCacheQuantization" :>
            IF full["kvCacheQuantization"].enabled THEN "8bit" ELSE "false")

KvConfigToLLMLoadModelConfig(kv, f) ==
  IF f = "gguf" THEN KvConfigToLLMLlamaLoadModelConfig(kv)
                ELSE KvConfigToLLMMlxLoadModelConfig(kv)

(* The layers of the server, the request on top. *)
Collapse(lower, upper) == upper @@ lower

-----------------------------------------------------------------------------
(* The requests and the layers of defaults of this model *)

Requests ==
  {Put("speculativeDraftMtp", a # 0, a = 1) @@ Put("speculativeDraftSimple", b # 0, b = 1)
   @@ Put("speculativeDraftModel", m # "unset", m) @@ Put("speculativeDraftMinTokens", n # 0, n) :
     a \in 0 .. 2, b \in 0 .. 2, m \in {"unset", "", "m"}, n \in {0, 2, 4}}
  \cup {Put("seed", s # "unset", s) @@ Put("promptTemplate", t, "jinja")
        @@ ("gpu" :> (Put("ratio", r, "off") @@ Put("mainGpu", g, 1)
                      @@ Put("splitStrategy", g, "favorMainGpu"))) :
          s \in {"unset", "false", "-5", "7"}, t \in BOOLEAN, r \in BOOLEAN, g \in BOOLEAN}
  \cup {"mlxKvCacheQuantization" :> q : q \in {"false", "8bit"}}

Bases ==
  {Put("speculativeDraftMtp", a, TRUE) @@ Put("sidecars", b, TRUE)
   @@ Put("speculativeDraftModel", c, "m") @@ Put("promptTemplate", d, "jinja")
   @@ Put("gpuSplitConfig", d, [strategy |-> e, disabledGpus |-> {0}, priority |-> <<1, 0>>]) :
     a \in BOOLEAN, b \in BOOLEAN, c \in BOOLEAN, d \in BOOLEAN, e \in {"custom", "priorityOrder"}}

Init ==
  /\ base \in Bases /\ format \in {"gguf", "safetensors"}
  /\ request = Nothing /\ loaded = Nothing /\ shown = Nothing /\ loads = 0 /\ outcome = "none"

Load(c) ==
  /\ request' = c /\ loads' = loads + 1
  /\ IF CrossFieldIssues(c) THEN outcome' = "rejected" /\ UNCHANGED loaded
     ELSE IF ~ Accepted(LlmLoadModelConfigToKVConfig(c))
            THEN outcome' = "threw" /\ UNCHANGED loaded
     ELSE outcome' = "loaded" /\ loaded' = Collapse(base, LlmLoadModelConfigToKVConfig(c))
  /\ UNCHANGED <<base, format, shown>>

LoadRequest == outcome = "none" /\ \E c \in Requests : Load(c)
LoadAsShown == outcome = "shown" /\ loads = 1 /\ Load(shown)          \* bound

GetLoadConfig ==
  /\ outcome = "loaded" /\ outcome' = "shown"
  /\ shown' = KvConfigToLLMLoadModelConfig(loaded, format)
  /\ UNCHANGED <<base, format, request, loaded, loads>>

Unload ==
  /\ outcome # "none" /\ outcome' = "none" /\ loads' = 0
  /\ request' = Nothing /\ loaded' = Nothing /\ shown' = Nothing
  /\ UNCHANGED <<base, format>>

Next == LoadRequest \/ LoadAsShown \/ GetLoadConfig \/ Unload

Spec == Init /\ [][Next]_vars

-----------------------------------------------------------------------------
(* Properties *)

(* A request that names a public selector of speculative decoding never     *)
(* ends in an internal mode of a lower layer, and ends in the mode it asks  *)
(* for unless the lower layer enables the other public one.                 *)
RequestDecidesMode ==
  outcome \in {"loaded", "shown"} /\ NamesSelector(request) =>
    /\ ~ Is(loaded, "sidecars", TRUE)
    /\ ~ Sets(base, "speculativeDraftMtp") \/ Sets(request, "speculativeDraftMtp")
         => ModeOf(loaded @@ Defaults) = ModeOf(request)

(* What getLoadConfig returned is rejected by a load only when the loaded   *)
(* fields and their defaults contradict each other: a draft model nobody    *)
(* uses is not shown.                                                       *)
ShownIsAccepted ==
  outcome = "rejected" /\ loads = 2
    => BothModes(loaded @@ Defaults) \/ MinAboveMax(loaded @@ Defaults)

(* It is converted back without an error, and once the model was loaded     *)
(* with it, it is what getLoadConfig returns again, except for a split of   *)
(* the defaults that the public form has no name for.                       *)
ShownIsReloaded ==
  loads = 2 =>
    /\ outcome # "threw"
    /\ outcome = "shown" =>
         \/ shown = request
         \/ /\ ~ Sets(request["gpu"], "splitStrategy")
            /\ Restrict(shown, DOMAIN shown \ {"gpu"}) = Restrict(request, DOMAIN request \ {"gpu"})

(* A public value that is valid and cannot be converted is a seed below -1. *)
OnlySeedThrows == outcome = "threw" => Is(request, "seed", "-5")

=============================================================================
