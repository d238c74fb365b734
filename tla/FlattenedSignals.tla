--------------------------- MODULE FlattenedSignals ---------------------------
(***************************************************************************)
(* A signal of writable signals seen as one writable signal                *)
(* (flattenSignalOfWritableSignal; flattenSignalOfSignal is the same       *)
(* without writes).  The root says which inner signal is selected; writes  *)
(* made while there is no fresh inner signal wait in queuedUpdates, and a  *)
(* pull keeps the flattened signal subscribed until it is fresh.           *)
(*                                                                         *)
(* The value of an inner signal is the list of what was written to it.     *)
(* Signals and subscribers run synchronously: each action is one event of  *)
(* the root, of an inner signal or of the application, and all it causes.  *)
(***************************************************************************)
EXTENDS Integers, Sequences, SequencesExt

CONSTANTS
    Inners,     \* The inner signals.
    MaxWrites,  \* Bound: writes through the flattened signal.
    MaxOthers,  \* Bound: writes of others to an inner signal.
    MaxEvents   \* Bound: changes of the root and of staleness.

None == "none"
OtherWrite == 0

VARIABLES
    root,           \* The inner signal the root has selected, and whether it is stale.
    inner,          \* Per inner signal, its value and whether it is stale.
    reading,        \* Whether the application is subscribed.
    pulling,        \* Whether a pull of the setter waits.
    active,         \* LazySignal.isSubscribedToUpstream.
    selected,       \* The inner signal subscribed to.
    innerSetter,
    queuedUpdates,
    output,         \* LazySignal.signal and staleSignal.
    writes,         \* Writes made.
    events          \* Changes of the root and of staleness made.

vars == <<root, inner, reading, pulling, active, selected, innerSetter, queuedUpdates, output,
          writes, events>>

InnersOrNone == Inners \cup {None}

TypeOK ==
    /\ root \in [inner : InnersOrNone, stale : BOOLEAN]
    /\ \A i \in Inners : /\ inner[i].stale \in BOOLEAN
                         /\ ToSet(inner[i].value) \subseteq 0..writes
    /\ {reading, pulling, active} \subseteq BOOLEAN
    /\ {selected, innerSetter} \subseteq InnersOrNone
    /\ ToSet(queuedUpdates) \subseteq 1..writes
    /\ ToSet(output.value) \subseteq 0..writes
    /\ active <=> reading \/ pulling

Init ==
    /\ root \in [inner : InnersOrNone, stale : {TRUE}]
    /\ inner = [i \in Inners |-> [value |-> <<>>, stale |-> TRUE]]
    /\ reading = FALSE /\ pulling = FALSE /\ active = FALSE
    /\ selected = None /\ innerSetter = None
    /\ queuedUpdates = <<>>
    /\ output = [value |-> <<>>, stale |-> TRUE]
    /\ writes = 0 /\ events = 0

-----------------------------------------------------------------------------
(* The state one synchronous run works on.                                 *)

Current == [inner |-> inner, pulling |-> pulling, active |-> active, selected |-> selected,
            innerSetter |-> innerSetter, queuedUpdates |-> queuedUpdates, output |-> output]

Becomes(st) ==
    /\ inner' = st.inner /\ pulling' = st.pulling /\ active' = st.active
    /\ selected' = st.selected /\ innerSetter' = st.innerSetter
    /\ queuedUpdates' = st.queuedUpdates /\ output' = st.output

MarkStale(st) == [st EXCEPT !.output.stale = TRUE]

UnsubscribeInner(st) == [st EXCEPT !.selected = None, !.innerSetter = None]

\* LazySignal.unsubscribeFromUpstream.
Deactivate(st) == MarkStale([UnsubscribeInner(st) EXCEPT !.active = FALSE])

\* The waiting pull is answered and leaves; it may have been the last subscriber.
EndPull(st) ==
    LET ended == [st EXCEPT !.pulling = FALSE]
    IN  IF st.pulling /\ ~ reading THEN Deactivate(ended) ELSE ended

\* While it subscribes a pull cannot leave yet.
SetDownstream(st, value, subscribing) ==
    LET set == [st EXCEPT !.output = [value |-> value, stale |-> FALSE]]
    IN  IF subscribing THEN set ELSE EndPull(set)

\* Writes that waited are applied together to the selected signal.
Flush(st, i) ==
    [st EXCEPT !.inner[i].value = @ \o st.queuedUpdates, !.queuedUpdates = <<>>]

BothFresh(now, st, i) == ~ now.stale /\ ~ st.inner[i].stale

\* The selected signal i tells its value: it is shown, then the queue is applied to it, which
\* is heard if the subscription still lasts.
MaybeUpdateDownstream(now, st, i, subscribing) ==
    IF ~ BothFresh(now, st, i) THEN MarkStale([st EXCEPT !.innerSetter = None])
    ELSE LET shown == SetDownstream(st, st.inner[i].value, subscribing)
             flushed == Flush(shown, i)
             heard == IF flushed.active
                      THEN [flushed EXCEPT !.output.value = flushed.inner[i].value]
                      ELSE flushed
         IN  [heard EXCEPT !.innerSetter = i]

LeaveSelected(st) == UnsubscribeInner(st)

SubscribeToInner(now, st, subscribing) ==
    LET left == LeaveSelected(st)
    IN  IF now.inner = None THEN MarkStale(left)
        ELSE MaybeUpdateDownstream(now, [left EXCEPT !.selected = now.inner], now.inner,
                                   subscribing)

UpdateFromRoot(now, st, subscribing) ==
    IF now.stale THEN MarkStale([st EXCEPT !.innerSetter = None])
    ELSE SubscribeToInner(now, st, subscribing)

\* LazySignal.subscribeToUpstream, for the first subscriber.
Activate(st) == UpdateFromRoot(root, [st EXCEPT !.active = TRUE], TRUE)

-----------------------------------------------------------------------------
(* The root and the inner signals.                                         *)

RootTells(now) ==
    /\ root' = now
    /\ Becomes(IF active THEN UpdateFromRoot(now, Current, FALSE) ELSE Current)
    /\ UNCHANGED <<reading, writes>>

\* The root selects, or becomes fresh with what it had selected.
RootSets ==
    /\ events < MaxEvents
    /\ events' = events + 1
    /\ \E i \in InnersOrNone :
          /\ [inner |-> i, stale |-> FALSE] # root
          /\ RootTells([inner |-> i, stale |-> FALSE])

RootBecomesStale ==
    /\ events < MaxEvents
    /\ events' = events + 1
    /\ ~ root.stale
    /\ root' = [root EXCEPT !.stale = TRUE]
    /\ Becomes(IF active THEN MarkStale([Current EXCEPT !.innerSetter = None]) ELSE Current)
    /\ UNCHANGED <<reading, writes>>

\* The inner signal i is in this state, and tells whoever is subscribed.
InnerTells(i, now) ==
    LET st == [Current EXCEPT !.inner[i] = now]
    IN  IF active /\ selected = i THEN MaybeUpdateDownstream(root, st, i, FALSE) ELSE st

InnerRecovers(i) ==
    /\ events < MaxEvents
    /\ events' = events + 1
    /\ inner[i].stale
    /\ Becomes(InnerTells(i, [inner[i] EXCEPT !.stale = FALSE]))
    /\ UNCHANGED <<root, reading, writes>>

InnerBecomesStale(i) ==
    /\ events < MaxEvents
    /\ events' = events + 1
    /\ ~ inner[i].stale
    /\ Becomes(InnerTells(i, [inner[i] EXCEPT !.stale = TRUE]))
    /\ UNCHANGED <<root, reading, writes>>

OthersWrite(i) ==
    /\ ~ Contains(inner[i].value, OtherWrite) /\ MaxOthers > 0
    /\ Becomes(InnerTells(i, [inner[i] EXCEPT !.value = Append(@, OtherWrite)]))
    /\ UNCHANGED <<root, reading, writes, events>>

-----------------------------------------------------------------------------
(* The application.                                                        *)

\* signal.pull(): subscribes until the signal is fresh.
Pull(st) ==
    CASE ~ st.output.stale -> st
      [] st.output.stale /\ st.active -> [st EXCEPT !.pulling = TRUE]
      [] OTHER -> LET subscribed == Activate([st EXCEPT !.pulling = TRUE])
                  IN  IF subscribed.output.stale THEN subscribed ELSE EndPull(subscribed)

\* The flattened setter.
Write ==
    /\ writes < MaxWrites
    /\ writes' = writes + 1
    /\ Becomes(IF innerSetter # None
               THEN InnerTells(innerSetter, [inner[innerSetter] EXCEPT !.value = Append(@, writes')])
               ELSE Pull([Current EXCEPT !.queuedUpdates = Append(@, writes')]))
    /\ UNCHANGED <<root, reading, events>>

Read ==
    /\ ~ reading
    /\ reading' = TRUE
    /\ Becomes(IF active THEN Current ELSE Activate(Current))
    /\ UNCHANGED <<root, writes, events>>

StopReading ==
    /\ reading
    /\ reading' = FALSE
    /\ Becomes(IF pulling THEN Current ELSE Deactivate(Current))
    /\ UNCHANGED <<root, writes, events>>

Next ==
    \/ RootSets \/ RootBecomesStale
    \/ \E i \in Inners : InnerRecovers(i) \/ InnerBecomesStale(i) \/ OthersWrite(i)
    \/ Write \/ Read \/ StopReading

Spec == Init /\ [][Next]_vars

-----------------------------------------------------------------------------
(* Properties.                                                             *)

\* A flattened signal that passes for fresh is subscribed to the signal a fresh root has
\* selected, which is fresh and has that value.
FreshShowsSelected ==
    ~ output.stale =>
        /\ active /\ ~ root.stale /\ selected = root.inner
        /\ selected # None /\ ~ inner[selected].stale
        /\ output.value = inner[selected].value

\* Every write is applied once to one inner signal or waits, and each signal sees the writes
\* it is given in the order they were made.
WritesApplyOnceInOrder ==
    LET OwnWrites(s) == SelectSeq(s, LAMBDA w : w # OtherWrite)
        Places(w) == {i \in Inners : Contains(inner[i].value, w)}
                        \cup (IF Contains(queuedUpdates, w) THEN {None} ELSE {})
    IN  /\ \A w \in 1..writes : \E p \in InnersOrNone : Places(w) = {p}
        /\ \A i \in Inners : \A j, k \in DOMAIN OwnWrites(inner[i].value) :
              j < k => OwnWrites(inner[i].value)[j] < OwnWrites(inner[i].value)[k]

\* A write waits only for freshness: the signal stays subscribed for it, and once the root
\* and the signal it selects are fresh no write waits.
WritesWaitForFreshness ==
    queuedUpdates # <<>> =>
        /\ pulling
        /\ \/ root.stale \/ root.inner = None
           \/ inner[root.inner].stale

\* While the flattened signal is subscribed, a write made at once goes to the signal a fresh
\* root has selected.
SubscribedWritesReachSelected ==
    active /\ innerSetter # None => innerSetter = root.inner /\ ~ root.stale

=============================================================================
