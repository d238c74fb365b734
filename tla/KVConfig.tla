------------------------------- MODULE KVConfig -------------------------------
(***************************************************************************)
(* Configurations as sequences of key-value fields, and the schematics     *)
(* that read them (lms-kv-config/src/KVConfig.ts).                         *)
(*                                                                         *)
(* Schematics map short keys to fields; a field knows its full key, the    *)
(* parameter of its type and its default.  Schematics are derived from one *)
(* another (scoped, sliced, union, flattenBaseKey, withTypeParamOverride,  *)
(* serialized and read again), and configurations are built, filtered,     *)
(* collapsed, applied and unapplied with whatever schematics is at hand.   *)
(*                                                                         *)
(* A key is the sequence of its segments.  Every field is a checkbox with  *)
(* a number, the type with the least obvious equality: two unchecked ones  *)
(* are effectively equal whatever their numbers.  The parameter of a field *)
(* is the largest number it accepts.                                       *)
(***************************************************************************)
EXTENDS Integers, Sequences, SequencesExt, TLC

VARIABLES schematics, \* the schematics in use
          config      \* the configuration in use

vars == <<schematics, config>>

-----------------------------------------------------------------------------
(* Values and types *)

Values  == {v \in [checked : BOOLEAN, value : 1 .. 2] : v.checked => v.value = 2}
Missing == [checked |-> FALSE, value |-> 0]     \* undefined
Throws  == [checked |-> TRUE, value |-> 0]      \* the call throws

Accepts(field, v) == v.value <= field.max

EffectiveEquals(a, b) == a.checked = b.checked /\ (a.checked => a.value = b.value)

-----------------------------------------------------------------------------
(* Configurations *)

Entry(k, v)    == [key |-> k, value |-> v]
FullKeys(c)    == {c[i].key : i \in DOMAIN c}

(* Map.set on a sequence of entries: an entry keeps the place of its key. *)
SetEntry(c, e) == IF e.key \in FullKeys(c)
                    THEN [i \in DOMAIN c |-> IF c[i].key = e.key THEN e ELSE c[i]]
                    ELSE Append(c, e)

KvConfigToMap(c)  == FoldLeft(SetEntry, <<>>, c)
CollapseKVStackRaw(layers) == FoldLeft(SetEntry, <<>>, FlattenSeq(layers))

(* Array.find, and Map.get after the entries were put in a map. *)
Find(c, k) == LET at == SelectInSeq(c, LAMBDA e : e.key = k)
               IN  IF at = 0 THEN Missing ELSE c[at].value
MapGet(c, k)  == Find(KvConfigToMap(c), k)

-----------------------------------------------------------------------------
(* Building schematics *)

StartsWith(k, prefix) == IsStrictPrefix(prefix, k)
After(k, prefix)      == SubSeq(k, Len(prefix) + 1, Len(k))

Field(fullKey, max) ==
  [fullKey |-> fullKey, max |-> max, default |-> [checked |-> FALSE, value |-> 1]]

Empty == [fields |-> <<>>, extensions |-> {}]

AddField(s, k, max) == [s EXCEPT !.fields = @ @@ (k :> Field(k, max))]
AddScope(s, scope, inner) ==
  [fields     |-> s.fields @@ [k \in {scope \o i : i \in DOMAIN inner.fields} |->
                                 [inner.fields[After(k, scope)] EXCEPT !.fullKey = k]],
   extensions |-> s.extensions \cup {scope \o p : p \in inner.extensions}]
Extension(s, prefix) == [s EXCEPT !.extensions = @ \cup {prefix}]

Prefix(p) == [exact |-> FALSE, value |-> p]
Exact(p)  == [exact |-> TRUE, value |-> p]
MatchesPattern(k, p) == IF p.exact THEN k = p.value ELSE StartsWith(k, p.value)

Restricted(s, keys) == [s EXCEPT !.fields = [k \in DOMAIN @ \cap keys |-> @[k]]]
Sliced(s, patterns) ==
  Restricted(s, {k \in DOMAIN s.fields : \E p \in patterns : MatchesPattern(k, p)})

Scoped(s, scope) ==
  LET inner == {k \in DOMAIN s.fields : StartsWith(k, scope)}
  IN  [s EXCEPT !.fields = [k \in {After(i, scope) : i \in inner} |-> @[scope \o k]]]

SharesKey(s, o) == DOMAIN s.fields \cap DOMAIN o.fields # {}
United(s, o)    == [fields     |-> s.fields @@ o.fields,
                    extensions |-> s.extensions \cup o.extensions]

FullKeysOf(s)     == {s.fields[k].fullKey : k \in DOMAIN s.fields}
FlattenBaseKey(s) ==
  [s EXCEPT !.fields = [f \in FullKeysOf(s) |-> @[CHOOSE k \in DOMAIN @ : @[k].fullKey = f]]]

ObtainFieldByFullKey(s, f) == FlattenBaseKey(s).fields[f]

WithTypeParamOverride(s, k, max) == [s EXCEPT !.fields[k].max = max]

(* What is sent to the other side, and what that side reads. *)
Serialize(s) ==
  [fields |-> {[shortKey |-> k, fullKey |-> s.fields[k].fullKey, max |-> s.fields[k].max,
                default |-> s.fields[k].default] : k \in DOMAIN s.fields},
   extensions |-> s.extensions]

ReadableFields(ser) == {f \in ser.fields : Accepts(f, f.default)}

TryDeserialize(ser) ==
  [fields |-> [k \in {f.shortKey : f \in ReadableFields(ser)} |->
                 LET f == CHOOSE g \in ReadableFields(ser) : g.shortKey = k
                 IN  [fullKey |-> f.fullKey, max |-> f.max, default |-> f.default]],
   extensions |-> ser.extensions]
Deserializes(ser) == ReadableFields(ser) = ser.fields

(* The extension prefixes are not among what it returns. *)
PrependBaseKey(base, ser) ==
  [fields     |-> {[f EXCEPT !.shortKey = base \o @] : f \in ser.fields},
   extensions |-> {}]

-----------------------------------------------------------------------------
(* Reading a configuration *)

ParseField(field, v) == IF v = Missing THEN field.default
                        ELSE IF Accepts(field, v) THEN v ELSE Throws
ParseFieldWithoutDefault(field, v) == IF v = Missing THEN Missing ELSE ParseField(field, v)

Access(s, c, k)          == ParseField(s.fields[k], Find(c, s.fields[k].fullKey))
AccessByFullKey(s, c, f) == ParseField(ObtainFieldByFullKey(s, f), Find(c, f))
AccessPartial(s, c, k)   == ParseFieldWithoutDefault(s.fields[k], Find(c, s.fields[k].fullKey))
ParseToMap(s, c) ==
  [k \in DOMAIN s.fields |-> ParseField(s.fields[k], MapGet(c, s.fields[k].fullKey))]
ParseToMapPartial(s, c) ==
  [k \in DOMAIN s.fields |-> ParseFieldWithoutDefault(s.fields[k], MapGet(c, s.fields[k].fullKey))]

HasExtensionPrefix(s, f) == \E p \in s.extensions : StartsWith(f, p)

(* The fields getLenientZodSchema lets through. *)
IsReadable(s, e) == e.key \in FullKeysOf(s) /\ Accepts(ObtainFieldByFullKey(s, e.key), e.value)

Lenient(s, c) ==
  FoldLeft(LAMBDA out, e : IF \/ HasExtensionPrefix(s, e.key)
                              \/ e.key \notin FullKeys(out) /\ IsReadable(s, e)
                             THEN Append(out, e) ELSE out, <<>>, c)

FilterConfig(s, c) == SelectSeq(c, LAMBDA e : e.key \in FullKeysOf(s))

(* Bug: only the top layer is filtered. *)
FilterStackTop(s, stack) ==
  [i \in DOMAIN stack |-> IF i = Len(stack) THEN FilterConfig(s, stack[i]) ELSE stack[i]]

FilterStack(s, stack) == [i \in DOMAIN stack |-> FilterConfig(s, stack[i])]

TwoWayFilterConfig(s, c) ==
  <<FilterConfig(s, c), SelectSeq(c, LAMBDA e : e.key \notin FullKeysOf(s))>>

-----------------------------------------------------------------------------
(* Writing and comparing configurations *)

(* buildPartialConfig of the values of some short keys; it throws when one *)
(* of them is not accepted, and KVConfigBuilder accepts anything.          *)
KvConfigBuilder(s, values) ==
  FoldSeq(LAMBDA k, c : Append(c, Entry(s.fields[k].fullKey, values[k])), <<>>,
          SetToSeq(DOMAIN values))
CanBuild(s, values) == \A k \in DOMAIN values : Accepts(s.fields[k], values[k])

Apply(s, target, patch) == CollapseKVStackRaw(<<target, FilterConfig(s, patch)>>)

UnApply(s, target, patch) ==
  LET changes == KvConfigToMap(FilterConfig(s, patch))
  IN  SelectSeq(KvConfigToMap(target),
                LAMBDA e : ~ (e.key \in FullKeys(changes)
                              /\ EffectiveEquals(Find(changes, e.key), e.value)))

EffectiveCompareConfig(s, a, b) ==
  LET In(c) == {f \in FullKeysOf(s) : MapGet(c, f) # Missing}
  IN  [onlyInA |-> In(a) \ In(b), onlyInB |-> In(b) \ In(a),
       inBothButDifferent |-> {f \in In(a) \cap In(b) : ~ EffectiveEquals(MapGet(a, f), MapGet(b, f))}]

-----------------------------------------------------------------------------
(* The schematics and configurations of this model *)

LlmLoad   == <<"llm", "load">>
Load      == <<"load">>
CustomKey == <<"ext", "c">>

GlobalConfigSchematics ==
  LET n     == <<"n">>
      llama == AddScope(AddField(Empty, n, 2), <<"llama">>, AddField(Empty, n, 1))
  IN  AddScope(AddScope(Extension(Empty, <<"ext">>), LlmLoad, llama), Load, AddField(Empty, n, 2))

Patterns == {{Prefix(<<"llama">>)}, {Exact(<<"n">>), Prefix(Load)}}
Others   == {GlobalConfigSchematics, Scoped(GlobalConfigSchematics, Load),
             Sliced(GlobalConfigSchematics, {Prefix(Load)})}
RawKeys  == FullKeysOf(GlobalConfigSchematics) \cup {CustomKey}
Raw      == {<<>>} \cup {<<Entry(k, v)>> : k \in RawKeys, v \in Values}

Init == schematics = GlobalConfigSchematics /\ config = <<>>

Derive(s) == schematics' = s /\ UNCHANGED config

DeriveScoped == \E scope \in {LlmLoad, Load} : Derive(Scoped(schematics, scope))
DeriveSliced == \E p \in Patterns : Derive(Sliced(schematics, p))
(* The callers (schema.ts) unite schematics of different fields. *)
DeriveUnion == \E o \in Others : /\ ~ SharesKey(schematics, o)
                                 /\ FullKeysOf(schematics) \cap FullKeysOf(o) = {}
                                 /\ Derive(United(schematics, o))
DeriveFlat  == Derive(FlattenBaseKey(schematics))
DeriveOverride ==
  /\ \A f \in FullKeysOf(schematics) :                            \* bound: one override, of a short key
       ObtainFieldByFullKey(schematics, f) = ObtainFieldByFullKey(GlobalConfigSchematics, f)
  /\ \E k \in DOMAIN schematics.fields, max \in 0 .. 1 :
       Len(k) = 1 /\ Derive(WithTypeParamOverride(schematics, k, max))
DeriveFromSerialized == Derive(TryDeserialize(Serialize(schematics)))
DerivePrepended == /\ \A k \in DOMAIN schematics.fields : Len(k) <= 2   \* bound
                   /\ Derive(TryDeserialize(PrependBaseKey(Load, Serialize(schematics))))

Short == {c \in {config} : Len(c) <= 1}                                 \* bound

Write(c) == config' = c /\ UNCHANGED schematics

(* A configuration comes from a file or a message, as it is or leniently. *)
ReadRaw     == \E c \in Short, r \in Raw : Write(c \o r)
ReadLenient == Write(Lenient(schematics, config))
Build       == \E k \in DOMAIN schematics.fields, v \in Values :
                 CanBuild(schematics, k :> v) /\ Write(KvConfigBuilder(schematics, k :> v))
ApplyPatch   == \E c \in Short, r \in Raw : Write(Apply(schematics, c, r))
UnApplyPatch == \E r \in Raw : Write(UnApply(schematics, config, r))
Filter       == \E i \in 1 .. 2 : Write(TwoWayFilterConfig(schematics, config)[i])

Next ==
  \/ DeriveScoped \/ DeriveSliced \/ DeriveUnion \/ DeriveFlat \/ DeriveOverride
  \/ DeriveFromSerialized \/ DerivePrepended
  \/ ReadRaw \/ ReadLenient \/ Build \/ ApplyPatch \/ UnApplyPatch \/ Filter

Spec == Init /\ [][Next]_vars

-----------------------------------------------------------------------------
(* Properties *)

(* Whatever the schematics was derived from, what passed its lenient       *)
(* filter is parsed without an error, and access, which takes the first    *)
(* field of a key, agrees with parse, which takes the last.                *)
LenientIsParsed ==
  LET c == Lenient(schematics, config)
  IN  \A k \in DOMAIN schematics.fields :
        /\ ParseToMapPartial(schematics, c)[k] # Throws
        /\ AccessPartial(schematics, c, k) = ParseToMapPartial(schematics, c)[k]
        /\ Access(schematics, c, k) = AccessByFullKey(schematics, c, schematics.fields[k].fullKey)

(* Derived schematics read under their short keys the field the global     *)
(* schematics has under the full key: deriving never moves a field.        *)
DerivedReadsSameField ==
  \A k \in DOMAIN schematics.fields :
    /\ schematics.fields[k].fullKey \in FullKeysOf(GlobalConfigSchematics)
    /\ LET f == schematics.fields[k].fullKey
       IN  schematics.fields[k].default = ObtainFieldByFullKey(GlobalConfigSchematics, f).default
    /\ AccessPartial(schematics, config, k) # Throws
         => AccessPartial(schematics, config, k) = Find(config, schematics.fields[k].fullKey)

(* Filtering the layers of a stack and collapsing them gives what filtering *)
(* the collapsed stack gives.                                               *)
FilterCommutesWithCollapse ==
  \A r \in Raw :
    LET stack == <<config, r>>
    IN  CollapseKVStackRaw(FilterStack(schematics, stack))
          = FilterConfig(schematics, CollapseKVStackRaw(stack))

(* Applying a patch and unapplying it leaves the fields outside the patch   *)
(* and the schematics as they were, and unapplying spares a field that was  *)
(* changed since.                                                           *)
UnApplyUndoes ==
  \A r \in Raw :
    LET patched == Apply(schematics, config, r)
        undone  == UnApply(schematics, patched, r)
        touched == FullKeys(FilterConfig(schematics, r))
    IN  /\ \A f \in RawKeys \ touched : MapGet(undone, f) = MapGet(config, f)
        /\ \A f \in touched : MapGet(undone, f) = Missing
        /\ \A f \in touched :
             LET direct == UnApply(schematics, config, r)
             IN  MapGet(direct, f) \in {Missing, MapGet(config, f)}
                 /\ (~ EffectiveEquals(MapGet(config, f), MapGet(r, f)) => MapGet(direct, f) = MapGet(config, f))

(* A config compared to itself with a field replaced by an effectively      *)
(* equal one shows no difference, and to itself with any other value, the   *)
(* field that was changed.                                                  *)
CompareFindsChanges ==
  \A i \in DOMAIN KvConfigToMap(config), v \in Values :
    LET a == KvConfigToMap(config)
        b == [a EXCEPT ![i].value = v]
        d == EffectiveCompareConfig(schematics, a, b)
    IN  d = [onlyInA |-> {}, onlyInB |-> {},
             inBothButDifferent |->
               IF \/ a[i].key \notin FullKeysOf(schematics)
                  \/ a[i].value.checked = v.checked /\ (v.checked => a[i].value = v)
                 THEN {} ELSE {a[i].key}]

(* What is serialized is read again as it was, except for the fields whose  *)
(* parameter was overridden so that it rejects the default; a schematics    *)
(* that was read never fills in a default its own field rejects.            *)
SerializedIsReadAgain ==
  LET read == TryDeserialize(Serialize(schematics))
  IN  /\ Deserializes(Serialize(schematics)) => read = schematics
      /\ \A k \in DOMAIN schematics.fields :
           k \notin DOMAIN read.fields => schematics.fields[k].max = 0
      /\ \A k \in DOMAIN read.fields : Accepts(read.fields[k], ParseToMap(read, <<>>)[k])

=============================================================================
