--------------------------- MODULE BufferedEvents ---------------------------
(***************************************************************************)
(* BufferedEvent: events wait in a queue until there is a subscriber, and  *)
(* reach it in a later microtask, in order.                                *)
(*                                                                         *)
(* The notifier is an async function: it goes through the queue without a  *)
(* break, calling the subscriber for each event, and suspends itself at a  *)
(* mark.  While it is suspended anything may happen to the event; while it *)
(* runs, only what the subscriber does when it is called.                  *)
(***************************************************************************)
EXTENDS Naturals, Sequences, FiniteSets

CONSTANTS
    MaxEmitted,      \* Bound: events emitted.
    MaxSubscribed    \* Bound: subscriptions.

WaitForNextMicroTask == 0
Unlimited == MaxEmitted + 1

VARIABLES
    lengthLimit, sizeLimit,
    queued,            \* Events, and marks where the notifier suspends itself.
    queuedItemsCount, queuedSize,
    isNotifying,
    overflowed,        \* overflowError.
    subscriber,        \* The current subscription, or 0.
    subscribed,        \* Subscriptions made so far.
    notifier,          \* "ended", "suspended", "running", or "thrown".
    called,            \* Whether the notifier is in a call of the subscriber.
    size,              \* Sizes of the events emitted so far.
    heard              \* Auxiliary: for each event heard, the subscription that heard it.

queueVars == <<queued, queuedItemsCount, queuedSize>>
vars == <<lengthLimit, sizeLimit, queueVars, isNotifying, overflowed, subscriber, subscribed,
          notifier, called, size, heard>>

TypeOK ==
    /\ {lengthLimit, sizeLimit} \subseteq 0..Unlimited
    /\ queued \in Seq(0..MaxEmitted)
    /\ queuedItemsCount \in 0..MaxEmitted /\ queuedSize \in 0..MaxEmitted
    /\ {isNotifying, overflowed, called} \subseteq BOOLEAN
    /\ subscribed \in 0..MaxSubscribed /\ subscriber \in 0..subscribed
    /\ notifier \in {"ended", "suspended", "running", "thrown"}
    /\ size \in Seq(0..1) /\ heard \in Seq(1..MaxSubscribed)

Init ==
    /\ \/ lengthLimit \in {1, Unlimited} /\ sizeLimit = Unlimited
       \/ lengthLimit = Unlimited /\ sizeLimit = 1
    /\ queued = <<>> /\ queuedItemsCount = 0 /\ queuedSize = 0
    /\ isNotifying = FALSE /\ overflowed = FALSE
    /\ subscriber = 0 /\ subscribed = 0
    /\ notifier = "ended" /\ called = FALSE
    /\ size = <<>> /\ heard = <<>>

\* Code runs outside of the notifier, or in the subscriber.
MayRun == notifier # "running" \/ called

\* filter: the k-th event of a queue is the item with k events up to it.
Events(q) ==
    LET EventsTo(i) == {j \in 1..i : q[j] # WaitForNextMicroTask}
        at(k) == CHOOSE i \in EventsTo(Len(q)) : Cardinality(EventsTo(i)) = k
    IN  [k \in 1..Cardinality(EventsTo(Len(q))) |-> q[at(k)]]

\* The notifier starts: it stops at once without a subscriber, otherwise it suspends itself at
\* the mark the queue starts with.
Notify(q) ==
    IF subscriber' = 0
    THEN queued' = q /\ UNCHANGED <<isNotifying, notifier>>
    ELSE queued' = Tail(q) /\ isNotifying' = TRUE /\ notifier' = "suspended"

-----------------------------------------------------------------------------

\* emitWithSize.  A failure inside the subscriber ends the notifier, as any error there does.
Overflows(itemSize) ==
    queuedItemsCount + 1 > lengthLimit \/ queuedSize + itemSize > sizeLimit

Marked == IF queued = <<>> THEN <<WaitForNextMicroTask>> ELSE queued

Accept(itemSize) ==
    LET q == Append(Marked, Len(size) + 1)
    IN  /\ queuedItemsCount' = queuedItemsCount + 1
        /\ queuedSize' = queuedSize + itemSize
        /\ IF isNotifying THEN queued' = q /\ UNCHANGED <<isNotifying, notifier>> ELSE Notify(q)

Overflow ==
    /\ queued' = <<>> /\ queuedItemsCount' = 0 /\ queuedSize' = 0
    /\ UNCHANGED <<isNotifying, notifier>>

Emit(itemSize) ==
    /\ MayRun /\ Len(size) < MaxEmitted /\ ~ overflowed
    /\ size' = Append(size, itemSize)
    /\ overflowed' = Overflows(itemSize)
    /\ UNCHANGED subscriber
    /\ IF Overflows(itemSize) THEN Overflow ELSE Accept(itemSize)
    /\ UNCHANGED <<lengthLimit, sizeLimit, subscribed, called, heard>>

Subscribe ==
    /\ MayRun /\ ~ overflowed /\ subscriber = 0 /\ subscribed < MaxSubscribed
    /\ subscribed' = subscribed + 1 /\ subscriber' = subscribed + 1
    /\ IF isNotifying \/ queued = <<>>
       THEN UNCHANGED <<queued, isNotifying, notifier>>
       ELSE Notify(<<WaitForNextMicroTask>> \o Events(queued))
    /\ UNCHANGED <<lengthLimit, sizeLimit, queuedItemsCount, queuedSize, overflowed, called, size,
                   heard>>

\* The function subscribe returned, which ends whatever subscription is current.
Unsubscribe ==
    /\ MayRun /\ subscriber # 0
    /\ subscriber' = 0
    /\ UNCHANGED <<lengthLimit, sizeLimit, queueVars, isNotifying, overflowed, subscribed,
                   notifier, called, size, heard>>

-----------------------------------------------------------------------------

Resume ==
    /\ notifier = "suspended"
    /\ notifier' = "running"
    /\ UNCHANGED <<lengthLimit, sizeLimit, queueVars, isNotifying, overflowed, subscriber,
                   subscribed, called, size, heard>>

Stop ==
    /\ notifier = "running" /\ ~ called
    /\ subscriber = 0 \/ queued = <<>>
    /\ notifier' = "ended" /\ isNotifying' = FALSE
    /\ UNCHANGED <<lengthLimit, sizeLimit, queueVars, overflowed, subscriber, subscribed, called,
                   size, heard>>

Call ==
    /\ notifier = "running" /\ ~ called /\ subscriber # 0
    /\ queued # <<>> /\ Head(queued) # WaitForNextMicroTask
    /\ queued' = Tail(queued)
    /\ queuedItemsCount' = queuedItemsCount - 1
    /\ queuedSize' = queuedSize - size[Head(queued)]
    /\ called' = TRUE /\ heard' = Append(heard, subscriber)
    /\ UNCHANGED <<lengthLimit, sizeLimit, isNotifying, overflowed, subscriber, subscribed,
                   notifier, size>>

Suspend ==
    /\ notifier = "running" /\ ~ called /\ subscriber # 0
    /\ queued # <<>> /\ Head(queued) = WaitForNextMicroTask
    /\ queued' = Tail(queued)
    /\ notifier' = "suspended"
    /\ UNCHANGED <<lengthLimit, sizeLimit, queuedItemsCount, queuedSize, isNotifying, overflowed,
                   subscriber, subscribed, called, size, heard>>

Return ==
    /\ called
    /\ called' = FALSE
    /\ UNCHANGED <<lengthLimit, sizeLimit, queueVars, isNotifying, overflowed, subscriber,
                   subscribed, notifier, size, heard>>

\* The subscriber throws: the notifier is over, and nothing resets isNotifying.
Throw ==
    /\ called
    /\ called' = FALSE /\ notifier' = "thrown"
    /\ UNCHANGED <<lengthLimit, sizeLimit, queueVars, isNotifying, overflowed, subscriber,
                   subscribed, size, heard>>

Next ==
    \/ \E itemSize \in 0..1 : Emit(itemSize)
    \/ Subscribe \/ Unsubscribe
    \/ Resume \/ Stop \/ Call \/ Suspend \/ Return \/ Throw

\* Microtasks run, the loop goes on, and the subscriber returns or throws.
Progress == Resume \/ Stop \/ Call \/ Suspend \/ Return

Spec == Init /\ [][Next]_vars

-----------------------------------------------------------------------------
(* Properties.                                                             *)

\* Whatever is emitted, by whom and when, events are heard in the order they were emitted, each
\* once: the ones not heard yet are the ones in the queue, and the limits count exactly those.
HeardOnceInOrder ==
    ~ overflowed =>
        /\ Events(queued) = [k \in 1..(Len(size) - Len(heard)) |-> Len(heard) + k]
        /\ queuedItemsCount = Len(size) - Len(heard)

\* A subscriber that stays hears every event, unless one threw or the queue overflowed.
Settled ==
    subscriber # 0 => Len(heard) = Len(size) \/ overflowed \/ notifier = "thrown"
=============================================================================
