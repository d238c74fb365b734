---------------------------- MODULE SlicedSignals ----------------------------
(***************************************************************************)
(* A slice of a writable signal (makeSlicedSignalFrom): what it shows, the *)
(* patches it tells its subscribers, and the writes it passes to its       *)
(* source, with the update queue of Signal that combines the updates made  *)
(* during an emission.                                                     *)
(*                                                                         *)
(* The source is an object {a: {n, l}, b} of which the slice shows a.n, a  *)
(* number, or a.l, a list that may be missing.  A second copy of the slice *)
(* is kept from its patches alone, as the other side of a port keeps one.  *)
(***************************************************************************)
EXTENDS Integers, Sequences, SequencesExt

CONSTANTS
    MaxEmissions,  \* Bound: emissions of the source.
    MaxCombined    \* Bound: updates combined in one emission.

Leaves == 0..1

(***************************************************************************)
(* Values.                                                                 *)
(***************************************************************************)

Leaf(n) == [leaf |-> n]
List(items) == [list |-> items]
Object(fields) == [object |-> fields]
Undefined == [undefined |-> TRUE]
ShortCircuited == [shortCircuited |-> TRUE]

IsList(v) == DOMAIN v = {"list"}
IsObject(v) == DOMAIN v = {"object"}

Lists == {List(<<>>), List(<<Leaf(1)>>)}
As == {Object([n |-> Leaf(n)]) : n \in Leaves}
        \cup {Object([n |-> Leaf(n), l |-> l]) : n \in Leaves, l \in Lists}
Roots == {Object([a |-> a, b |-> Leaf(0)]) : a \in As} \cup {Object([b |-> Leaf(0)])}

\* The positions of a list, as they appear in a path.
Positions == <<"0", "1", "2", "3", "4", "5">>
PositionOf(key) == CHOOSE i \in DOMAIN Positions : Positions[i] = key

ChildOf(v, key) ==
    CASE IsObject(v) -> IF key \in DOMAIN v.object THEN v.object[key] ELSE Undefined
      [] IsList(v) -> IF PositionOf(key) <= Len(v.list) THEN v.list[PositionOf(key)]
                      ELSE Undefined
      [] OTHER -> Undefined

-----------------------------------------------------------------------------
(* Patches.                                                                *)

Replacement(path, v) == [op |-> "replace", path |-> path, value |-> v]
Addition(path, v) == [op |-> "add", path |-> path, value |-> v]
Removal(path) == [op |-> "remove", path |-> path, value |-> Undefined]

\* The last step of a patch, in the object or the list it changes.
EditChild(v, key, op, new) ==
    CASE IsObject(v) /\ op = "remove" ->
            Object([k \in DOMAIN v.object \ {key} |-> v.object[k]])
      [] IsObject(v) /\ op # "remove" ->
            Object([k \in DOMAIN v.object \cup {key} |-> IF k = key THEN new ELSE v.object[k]])
      [] IsList(v) /\ op = "add" -> List(InsertAt(v.list, PositionOf(key), new))
      [] IsList(v) /\ op = "replace" -> List(ReplaceAt(v.list, PositionOf(key), new))
      [] IsList(v) /\ op = "remove" -> List(RemoveAt(v.list, PositionOf(key)))
      [] OTHER -> v

RECURSIVE ApplyAt(_, _, _)
ApplyAt(v, path, patch) ==
    CASE path = <<>> -> patch.value
      [] Len(path) = 1 -> EditChild(v, path[1], patch.op, patch.value)
      [] OTHER -> LET child == ApplyAt(ChildOf(v, path[1]), Tail(path), patch)
                  IN  IF IsObject(v) \/ IsList(v) THEN EditChild(v, path[1], "replace", child)
                      ELSE v

\* applyPatches of immer.
ApplyPatches(v, patches) == FoldLeft(LAMBDA w, p : ApplyAt(w, p.path, p), v, patches)

\* The patches of combined updates: all before the replacement of the root are dropped.
CombinePatches(patches, new) ==
    LET roots == {i \in DOMAIN new : new[i].op = "replace" /\ new[i].path = <<>>}
    IN  IF roots = {} THEN patches \o new
        ELSE SubSeq(new, CHOOSE i \in roots : \A j \in roots : i <= j, Len(new))

-----------------------------------------------------------------------------
(* The access path of a slice.                                             *)

Key(key) == [type |-> "key", key |-> key]
KeyWithDefault(key, v) == [type |-> "keyWithDefault", key |-> key, default |-> v]
KeyWithShortCircuit(key) == [type |-> "keyWithShortCircuit", key |-> key]

Accesses == {<<first, last>> : first \in {Key("a"), KeyWithShortCircuit("a")},
                               last \in {Key("n"), KeyWithDefault("l", List(<<>>))}}

PathOf(access) == [i \in DOMAIN access |-> access[i].key]

StepInto(v, segment) ==
    LET child == ChildOf(v, segment.key)
    IN  IF v = ShortCircuited THEN v
        ELSE CASE segment.type = "keyWithDefault" /\ child = Undefined -> segment.default
               [] segment.type = "keyWithShortCircuit" /\ child = Undefined -> ShortCircuited
               [] OTHER -> child

\* The value after each segment of the path.
DrillSteps(v, access) ==
    LET steps[i \in 0..Len(access)] == IF i = 0 THEN v ELSE StepInto(steps[i - 1], access[i])
    IN  steps

Drill(v, access) == DrillSteps(v, access)[Len(access)]

\* The segments whose default drill had to use.
DefaultsUsed(v, access) ==
    {i \in DOMAIN access : /\ access[i].type = "keyWithDefault"
                           /\ ChildOf(DrillSteps(v, access)[i - 1], access[i].key) = Undefined}

PathRelationship(a, b) ==
    CASE Len(a) < Len(b) /\ IsPrefix(a, b) -> "ancestor"
      [] Len(a) >= Len(b) /\ IsPrefix(b, a) -> "children"
      [] OTHER -> "neither"

-----------------------------------------------------------------------------
VARIABLES
    access,     \* The access path of the slice.
    source,     \* The source signal: its value and whether it is stale.
    emissions,  \* Emissions so far.
    slice,      \* The slice's LazySignal, subscribed throughout.
    replica,    \* A copy of the slice kept from its patches.
    tangled,    \* Whether one emission replaced the slice and then changed it inside.
    written,    \* Tags of the writes through the slice ...
    acked       \* ... and those its subscribers were told.

vars == <<access, source, emissions, slice, replica, tangled, written, acked>>

\* Only a slice that short-circuits has a source that may lack what it accesses.
RootsFor(path) == {r \in Roots : path[1].type = "key" => ChildOf(r, "a") # Undefined}

TypeOK ==
    /\ access \in Accesses
    /\ emissions \in 0..MaxEmissions
    /\ IsObject(source.value) /\ source.stale \in BOOLEAN
    /\ access[1].type = "key" => ChildOf(source.value, "a") # Undefined
    /\ slice.value # Undefined /\ slice.stale \in BOOLEAN
    /\ acked \subseteq written /\ written \subseteq 1..MaxEmissions

Init ==
    /\ access \in Accesses
    /\ source \in {[value |-> r, stale |-> FALSE] : r \in RootsFor(access)}
    /\ emissions = 0
    /\ slice = [value |-> Drill(source.value, access), stale |-> FALSE]
    /\ replica = slice.value
    /\ tangled = FALSE
    /\ written = {} /\ acked = {}

-----------------------------------------------------------------------------
(* What the slice makes of an emission of its source.                      *)

\* One patch of the source, for the subscribers of the slice.
TransformPatch(value, acc, patch) ==
    LET path == PathOf(access)
        relationship == PathRelationship(patch.path, path)
    IN  CASE \/ relationship = "ancestor"
             \/ relationship = "children" /\ Len(patch.path) = Len(path)
                -> <<Replacement(<<>>, Drill(value, access))>>
          [] relationship = "children" /\ Len(patch.path) > Len(path)
                -> Append(acc, [patch EXCEPT !.path = SubSeq(@, Len(path) + 1, Len(@))])
          [] OTHER -> acc

TransformPatches(value, patches) ==
    FoldLeft(LAMBDA acc, p : TransformPatch(value, acc, p), <<>>, patches)

\* A replacement that another patch of the same emission follows.
Tangles(patches) == \E i \in DOMAIN patches : patches[i].path = <<>> /\ i < Len(patches)

Forwarded(tags, stale) == tags

\* Mutant: the staleness of the source is not looked at.
MustStayStaleNever(now) == FALSE

MustStayStale(now) == now.stale

\* updateFromSource: the source commits this state with these patches and tags.
UpdateFromSource(now, patches, tags) ==
    LET value == Drill(now.value, access)
        told == TransformPatches(now.value, patches)
    IN  /\ acked' = acked \cup Forwarded(tags, now.stale)
        /\ IF MustStayStale(now)
           THEN slice' = [slice EXCEPT !.stale = TRUE] /\ UNCHANGED <<replica, tangled>>
           ELSE /\ slice' = [value |-> value, stale |-> FALSE]
                /\ IF slice.value # value \/ slice.stale \/ tags # {}
                   THEN /\ replica' = ApplyPatches(replica, told)
                        /\ tangled' = (tangled \/ Tangles(told))
                   ELSE UNCHANGED <<replica, tangled>>

-----------------------------------------------------------------------------
(* Updates: each is what its setter makes of the value before it.          *)

\* The writes of others, by the source's own setter.
SourceEdits(v) ==
    LET a == ChildOf(v, "a")
        l == ChildOf(a, "l")
    IN  {Replacement(<<>>, r) : r \in RootsFor(access)}
        \cup {Replacement(<<"a">>, x) : x \in As}
        \cup (IF access[1].type = "key" \/ a = Undefined THEN {} ELSE {Removal(<<"a">>)})
        \cup (IF a = Undefined THEN {} ELSE {Replacement(<<"a", "n">>, Leaf(n)) : n \in Leaves})
        \cup (IF IsList(l) /\ Len(l.list) < 2
              THEN {Removal(<<"a", "l">>),
                    Addition(<<"a", "l", Positions[Len(l.list) + 1]>>, Leaf(1))}
              ELSE {})
        \cup {Replacement(<<"b">>, Leaf(1))}

\* What a writer of the slice does with the value it is given.
SliceEdits(v) ==
    IF IsList(v)
    THEN {Replacement(<<>>, l) : l \in Lists}
            \cup (IF Len(v.list) < 2 THEN {Addition(<<Positions[Len(v.list) + 1]>>, Leaf(0))} ELSE {})
    ELSE {Replacement(<<>>, Leaf(n)) : n \in Leaves}

InjectDefaults(v) ==
    LET used == SetToSeq(DefaultsUsed(v, access))
    IN  [k \in DOMAIN used |-> Replacement(SubSeq(PathOf(access), 1, used[k]),
                                       access[used[k]].default)]

\* The patches the slice's setter gives its source.
SourcePatches(v, edit) ==
    IF Drill(v, access) = ShortCircuited THEN <<>>
    ELSE Append(InjectDefaults(v), [edit EXCEPT !.path = PathOf(access) \o @])

\* The updates that may follow a value: who makes it, and its patches.
Updates(v) ==
    {[through |-> FALSE, patches |-> <<e>>] : e \in SourceEdits(v)}
        \cup {[through |-> TRUE, patches |-> SourcePatches(v, e)] :
                e \in SliceEdits(Drill(v, access))}

\* The emission of a list of updates: the value they give, and their patches combined.
Emission(v, updates) ==
    FoldLeft(LAMBDA acc, u : [value |-> ApplyPatches(acc.value, u.patches),
                              patches |-> CombinePatches(acc.patches, u.patches)],
             [value |-> v, patches |-> <<>>], updates)

Commit(updates, fresh) ==
    LET committed == Emission(source.value, updates)
        stale == IF fresh THEN FALSE ELSE source.stale
        tags == IF \E u \in ToSet(updates) : u.through THEN {emissions + 1} ELSE {}
    IN  /\ emissions' = emissions + 1
        /\ source' = [value |-> committed.value, stale |-> stale]
        /\ written' = written \cup tags
        /\ UpdateFromSource(source', committed.patches, tags)
        /\ UNCHANGED access

\* The source emits one update, or several made while it was emitting.
SourceEmits ==
    /\ emissions < MaxEmissions
    /\ ~ source.stale
    /\ \E u \in Updates(source.value) :
          \/ Commit(<<u>>, FALSE)
          \/ /\ MaxCombined >= 2
             /\ \E w \in Updates(ApplyPatches(source.value, u.patches)) : Commit(<<u, w>>, FALSE)

\* While it is stale the source shows what is written optimistically, as one replacement.
SourceShowsOptimistic ==
    /\ emissions < MaxEmissions /\ source.stale
    /\ \E u \in Updates(source.value) :
          Commit(<<[u EXCEPT !.patches =
                     <<Replacement(<<>>, ApplyPatches(source.value, u.patches))>>]>>, FALSE)

\* The source recovers with a whole value.
SourceRecovers ==
    /\ emissions < MaxEmissions /\ source.stale
    /\ \E r \in RootsFor(access) :
          Commit(<<[through |-> FALSE, patches |-> <<Replacement(<<>>, r)>>]>>, TRUE)

SourceBecomesStale ==
    /\ emissions < MaxEmissions
    /\ ~ source.stale
    /\ emissions' = emissions + 1
    /\ source' = [source EXCEPT !.stale = TRUE]
    /\ slice' = [slice EXCEPT !.stale = TRUE]
    /\ UNCHANGED <<access, replica, tangled, written, acked>>

Next == SourceEmits \/ SourceShowsOptimistic \/ SourceRecovers \/ SourceBecomesStale

Spec == Init /\ [][Next]_vars

-----------------------------------------------------------------------------
(* Properties.                                                             *)

\* A slice that passes for fresh shows its part of a fresh source, whatever was combined,
\* shown optimistically or recovered since.
SliceFollows ==
    ~ slice.stale => ~ source.stale /\ slice.value = Drill(source.value, access)

\* A subscriber that applies the patches of a fresh slice has its value, as long as no
\* emission replaced the slice and then changed it inside.
ReplicaFollowsUnlessTangled ==
    ~ slice.stale /\ ~ tangled => replica = slice.value

\* The writes of a slice stay in it: what lies beside its path is as it was, and a write to a
\* missing list or a missing object does what it says, or nothing.
WritesStayInSlice ==
    \A e \in SliceEdits(Drill(source.value, access)) :
        LET before == source.value
            after == ApplyPatches(before, SourcePatches(before, e))
        IN  /\ ChildOf(after, "b") = ChildOf(before, "b")
            /\ access[2].key = "l" => ChildOf(ChildOf(after, "a"), "n") =
                                        ChildOf(ChildOf(before, "a"), "n")
            /\ access[2].key = "n" => ChildOf(ChildOf(after, "a"), "l") =
                                        ChildOf(ChildOf(before, "a"), "l")
            /\ Drill(after, access) =
                 IF Drill(before, access) = ShortCircuited THEN ShortCircuited
                 ELSE ApplyPatches(Drill(before, access), <<e>>)

\* The tag of each write through the slice is told to the slice's subscribers, also when the
\* source commits it while it is stale.
WritesAreAcknowledged == acked = written
=============================================================================
