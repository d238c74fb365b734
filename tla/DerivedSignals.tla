--------------------------- MODULE DerivedSignals ---------------------------
(***************************************************************************)
(* A LazySignal computed from other signals: deriveFrom, asyncDeriveFrom   *)
(* and blockingAsyncDeriveFromWithThrottling, with and without throttling. *)
(*                                                                         *)
(* The value of a source counts its changes, and what the deriver answers  *)
(* is the values it was called with, so that an answer computed from old   *)
(* values shows.  A signal and its subscribers run synchronously; what     *)
(* interleaves are the promises of the deriver, the throttling timer, the  *)
(* changes and staleness of the sources, and the subscribers that come and *)
(* go.  A deriver that throws is one that rejects at once.                 *)
(***************************************************************************)
EXTENDS Integers, FiniteSets

CONSTANTS
    Sources,
    Reentrant,         \* Whether a subscriber may change a source when it is told a value.
    MaxChanges,        \* Bound: changes of the sources.
    MaxStales,         \* Bound: times a source becomes stale.
    MaxSubscriptions,  \* Bound: subscriptions to the sources.
    MaxRejections      \* Bound: promises of the deriver that reject.

NotAvailable == 0
None == 0
Kinds == {"deriveFrom", "async", "blocking", "throttling"}

VARIABLES
    kind,            \* How the signal is derived.
    source,          \* Per source, its value and whether it is stale.
    stales,          \* Times a source became stale.
    subscriptions,   \* Subscriptions made so far; the last may have ended.
    subscribed,      \* Whether the last one lasts.
    output,          \* LazySignal.signal and staleSignal.
    closure,         \* The variables the subscriptions share.
    derives,         \* Calls of the deriver whose promise is not settled.
    rejected,        \* The values whose derivation was rejected.
    epoch            \* Auxiliary: times the output was marked stale.

vars == <<kind, source, stales, subscriptions, subscribed, output, closure, derives, rejected,
          epoch>>

Values == [s \in Sources |-> source[s].value]
Snapshots == [Sources -> 0..MaxChanges]
Available(values) == \A s \in Sources : values[s] # NotAvailable
AllFresh == \A s \in Sources : ~ source[s].stale
Blocking == kind \in {"blocking", "throttling"}

TypeOK ==
    /\ kind \in Kinds
    /\ source \in [Sources -> [value : 0..MaxChanges, stale : BOOLEAN]]
    /\ subscriptions \in 0..MaxSubscriptions
    /\ subscribed => subscriptions > 0
    /\ output.value \in Snapshots /\ output.stale \in BOOLEAN
    /\ closure.lastAppliedUpdateId <= closure.lastIssuedUpdateId
    /\ closure.pending \in {{}} \cup {{v} : v \in Snapshots}
    /\ \A d \in derives : d.values \in Snapshots /\ d.subscription \in 1..subscriptions
    /\ rejected \subseteq Snapshots

\* A source that was never told a value has none and is stale.
Init ==
    /\ kind \in Kinds
    /\ source = [s \in Sources |-> [value |-> NotAvailable, stale |-> TRUE]]
    /\ stales = 0
    /\ subscriptions = 0 /\ subscribed = FALSE
    /\ output = [value |-> Values, stale |-> TRUE, from |-> 0]
    /\ closure = [lastIssuedUpdateId |-> -1, lastAppliedUpdateId |-> -1, isRunning |-> FALSE,
                  pending |-> {}, timer |-> FALSE, recent |-> FALSE, freshnessGeneration |-> 0]
    /\ derives = {} /\ rejected = {}
    /\ epoch = 0

-----------------------------------------------------------------------------
(* The state one synchronous run works on.                                 *)

Current == [c |-> closure, derives |-> derives, output |-> output, epoch |-> epoch]

Becomes(st) ==
    /\ closure' = st.c /\ derives' = st.derives
    /\ output' = st.output /\ epoch' = st.epoch

\* setDownstream: a value commits with freshness.
SetDownstream(st, values, from) ==
    [st EXCEPT !.output = [value |-> values, stale |-> FALSE, from |-> from]]

MarkStale(st) == [st EXCEPT !.output.stale = TRUE, !.epoch = @ + 1]

\* A call of the deriver, numbered as asyncDeriveFrom numbers its updates.
CallDeriver(st, values) ==
    [st EXCEPT !.derives = @ \cup
        {[id |-> st.c.lastIssuedUpdateId, values |-> values, subscription |-> subscriptions,
          generation |-> st.c.freshnessGeneration, epoch |-> st.epoch]}]

-----------------------------------------------------------------------------
(* The throttled pipeline.                                                 *)

\* The number only tells the calls apart: the code has none here.
StartDerive(st, values) ==
    CallDeriver([st EXCEPT !.c.isRunning = TRUE, !.c.lastIssuedUpdateId = @ + 1], values)

PendingOf(st) == CHOOSE v \in st.c.pending : TRUE

ProcessPending(st) ==
    LET fired == [st EXCEPT !.c.timer = FALSE]
    IN  IF st.c.pending = {} THEN fired
        ELSE StartDerive([fired EXCEPT !.c.pending = {}], PendingOf(st))

AdvanceQueue(st) ==
    CASE st.c.pending = {} -> st
      [] st.c.pending # {} /\ kind = "throttling" -> [st EXCEPT !.c.timer = TRUE]
      [] OTHER -> ProcessPending(st)

ScheduleOrStartDerive(st, values) ==
    IF kind = "throttling" /\ st.c.recent
    THEN [st EXCEPT !.c.pending = {values}, !.c.timer = TRUE]
    ELSE StartDerive(st, values)

MustWait(st) == st.c.isRunning \/ st.c.timer

OnSourceChangeBlocking(st, values) ==
    CASE ~ Available(values) -> st
      [] Available(values) /\ MustWait(st) -> [st EXCEPT !.c.pending = {values}]
      [] OTHER -> ScheduleOrStartDerive(st, values)

\* The derive that ran is over, well or not.
DeriveEnds(st) == [st EXCEPT !.c.isRunning = FALSE, !.c.recent = TRUE]

-----------------------------------------------------------------------------
(* What each kind does when its sources changed, and when one is stale.    *)

DeriveAndUpdate(st, values) ==
    LET issued == [st EXCEPT !.c.lastIssuedUpdateId = @ + 1]
    IN  IF Available(values) THEN CallDeriver(issued, values) ELSE issued

OnSourceValuesChanged(st, values) ==
    CASE kind = "deriveFrom" ->
            IF Available(values) THEN SetDownstream(st, values, st.epoch) ELSE st
      [] kind = "async" -> DeriveAndUpdate(st, values)
      [] OTHER -> OnSourceChangeBlocking(st, values)

\* Mutant: what was started before is not invalidated.
OnStaleKeepingWork(st) == MarkStale(st)

OnStale(st) ==
    CASE kind = "deriveFrom" -> MarkStale(st)
      [] kind = "async" ->
            MarkStale([st EXCEPT !.c.lastIssuedUpdateId = @ + 1,
                                 !.c.lastAppliedUpdateId = st.c.lastIssuedUpdateId + 1])
      [] OTHER ->
            MarkStale([st EXCEPT !.c.freshnessGeneration = @ + 1, !.c.pending = {},
                                 !.c.timer = FALSE])

-----------------------------------------------------------------------------
(* The sources.                                                            *)

Changes == LET total[T \in SUBSET Sources] ==
                   IF T = {} THEN 0
                   ELSE LET s == CHOOSE s \in T : TRUE IN source[s].value + total[T \ {s}]
           IN  total[Sources]

\* updateIfSourcesAreFresh, told by a source that now has this state.
UpdateIfSourcesAreFresh(st, now) ==
    IF subscribed /\ \A s \in Sources : ~ now[s].stale
    THEN OnSourceValuesChanged(st, [s \in Sources |-> now[s].value])
    ELSE st

\* A source is set, and is fresh with it or keeps its staleness.
SourceSets(s, fresh) ==
    /\ Changes < MaxChanges
    /\ source' = [source EXCEPT ![s] = [value |-> @.value + 1, stale |-> @.stale /\ ~ fresh]]
    /\ Becomes(UpdateIfSourcesAreFresh(Current, source'))
    /\ UNCHANGED <<kind, stales, subscriptions, subscribed, rejected>>

\* A source becomes fresh with the value it had: its subscribers are told.
SourceRefreshes(s) ==
    /\ source[s].stale /\ source[s].value # NotAvailable
    /\ source' = [source EXCEPT ![s].stale = FALSE]
    /\ Becomes(UpdateIfSourcesAreFresh(Current, source'))
    /\ UNCHANGED <<kind, stales, subscriptions, subscribed, rejected>>

SourceBecomesStale(s) ==
    /\ stales < MaxStales
    /\ ~ source[s].stale
    /\ stales' = stales + 1
    /\ source' = [source EXCEPT ![s].stale = TRUE]
    /\ Becomes(IF subscribed THEN OnStale(Current) ELSE Current)
    /\ UNCHANGED <<kind, subscriptions, subscribed, rejected>>

-----------------------------------------------------------------------------
(* The first subscriber comes, the last one goes.                          *)

Subscribe ==
    /\ ~ subscribed /\ subscriptions < MaxSubscriptions
    /\ subscriptions' = subscriptions + 1
    /\ subscribed' = TRUE
    /\ LET st == [Current EXCEPT !.c.freshnessGeneration = 0]
           ready == IF AllFresh THEN OnSourceValuesChanged(st, Values) ELSE OnStale(st)
       IN  Becomes([ready EXCEPT !.derives =
               {IF d \in derives THEN d ELSE [d EXCEPT !.subscription = subscriptions'] :
                   d \in ready.derives}])
    /\ UNCHANGED <<kind, source, stales, rejected>>

\* The subscription ends: the throttled pipeline forgets what it was doing.
Unsubscribe ==
    /\ subscribed
    /\ subscribed' = FALSE
    /\ Becomes(MarkStale(IF Blocking
                         THEN [Current EXCEPT !.c.isRunning = FALSE, !.c.pending = {},
                                              !.c.recent = FALSE, !.c.timer = FALSE]
                         ELSE Current))
    /\ UNCHANGED <<kind, source, stales, subscriptions, rejected>>

-----------------------------------------------------------------------------
(* The deriver's promises and the timer.                                   *)

IsOfSubscription(d) == subscribed /\ d.subscription = subscriptions

\* Mutant: the last promise to resolve wins.
AppliesAlways(d) == TRUE

Applies(d) == d.id > closure.lastAppliedUpdateId

ResolvesAsync(d) ==
    LET gone == [Current EXCEPT !.derives = @ \ {d}]
        applied == [gone EXCEPT !.c.lastAppliedUpdateId = d.id]
    IN  CASE ~ Applies(d) -> gone
          [] Applies(d) /\ IsOfSubscription(d) -> SetDownstream(applied, d.values, d.epoch)
          [] OTHER -> applied

\* setDownstream tells a subscriber, which may change a source before it returns.
Told(st, d, now) ==
    IF d.generation # st.c.freshnessGeneration THEN st
    ELSE LET told == SetDownstream(st, d.values, d.epoch)
         IN  IF now = source THEN told ELSE UpdateIfSourcesAreFresh(told, now)

ResolvesBlocking(d, now) ==
    LET gone == [Current EXCEPT !.derives = @ \ {d}]
    IN  IF IsOfSubscription(d) THEN AdvanceQueue(Told(DeriveEnds(gone), d, now)) ELSE gone

\* The change a subscriber makes in answer to the value it is told.
Reaction(d) ==
    IF Reentrant /\ Blocking /\ IsOfSubscription(d) /\ Changes < MaxChanges
                 /\ d.generation = closure.freshnessGeneration
    THEN {[source EXCEPT ![s].value = @ + 1] : s \in Sources} \cup {source}
    ELSE {source}

DeriverResolves ==
    \E d \in derives : \E now \in Reaction(d) :
        /\ source' = now
        /\ Becomes(IF Blocking THEN ResolvesBlocking(d, now) ELSE ResolvesAsync(d))
        /\ UNCHANGED <<kind, stales, subscriptions, subscribed, rejected>>

\* onDeriveError; asyncDeriveFrom does not look.
DeriverRejects ==
    \E d \in derives :
        /\ Cardinality(rejected) < MaxRejections
        /\ rejected' = rejected \cup {d.values}
        /\ LET gone == [Current EXCEPT !.derives = @ \ {d}]
           IN  Becomes(IF Blocking /\ IsOfSubscription(d) THEN AdvanceQueue(DeriveEnds(gone))
                       ELSE gone)
        /\ UNCHANGED <<kind, source, stales, subscriptions, subscribed>>

\* throttleMs has passed since the last derive ended.
ThrottlePasses ==
    /\ kind = "throttling" /\ closure.recent
    /\ closure' = [closure EXCEPT !.recent = FALSE]
    /\ UNCHANGED <<kind, source, stales, subscriptions, subscribed, output, derives, rejected,
                   epoch>>

TimerFires ==
    /\ closure.timer /\ ~ closure.recent
    /\ Becomes(ProcessPending(Current))
    /\ UNCHANGED <<kind, source, stales, subscriptions, subscribed, rejected>>

Next ==
    \/ \E s \in Sources : \/ \E fresh \in BOOLEAN : SourceSets(s, fresh)
                          \/ SourceRefreshes(s) \/ SourceBecomesStale(s)
    \/ Subscribe \/ Unsubscribe
    \/ DeriverResolves \/ DeriverRejects
    \/ ThrottlePasses \/ TimerFires

Settles == DeriverResolves \/ DeriverRejects

Spec == Init /\ [][Next]_vars

\* Promises settle and timers fire; the sources and the subscribers owe nothing.
Progress == Settles \/ ThrottlePasses \/ TimerFires

-----------------------------------------------------------------------------
(* Properties.                                                             *)

\* While the output passes for fresh every source is fresh, and the value comes from a
\* derivation begun after the last time it was stale: "Work started before a source became
\* stale must not make the output fresh again."  A deriveFrom shows its sources as they are.
FreshIsSinceStale ==
    ~ output.stale =>
        /\ subscribed /\ AllFresh
        /\ output.from = epoch
        /\ kind = "deriveFrom" => output.value = Values

\* At most one call of the throttled deriver runs for a subscription ("Only one derive runs at
\* a time"), whatever changes while it runs and whenever the timer fires.
OneDeriveAtATime ==
    Blocking => Cardinality({d \in derives : IsOfSubscription(d)}) <= 1

\* The output never goes back to older values of a source, although promises resolve in any
\* order, subscriptions end before their promises do, and changes are dropped.
NeverBackwards ==
    [][\A s \in Sources : output'.value[s] >= output.value[s]]_vars

\* Once the sources stay fresh and the signal stays subscribed, it ends fresh with their
\* values, unless the derivation of those very values was rejected: no change that came while
\* a derive ran, or while the timer waited, is forgotten.
Settled ==
    subscribed /\ AllFresh /\ Available(Values)
        => \/ ~ output.stale /\ output.value = Values
           \/ Values \in rejected
=============================================================================
