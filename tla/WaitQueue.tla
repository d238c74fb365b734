------------------------------ MODULE WaitQueue ------------------------------
(***************************************************************************)
(* WaitQueue: pagers wait, by priority, for the one holder there is.       *)
(*                                                                         *)
(* A pager that is served owns the holder whether it looks or not; one who *)
(* leaves without looking leaves the holder to the garbage collector.      *)
(***************************************************************************)
EXTENDS Integers, Sequences, FiniteSets

CONSTANTS
    Pagers,      \* Calls of enterQueue, in the order they may be made: 1..n.
    Priorities

Nobody == 0

VARIABLES
    pagers,              \* Those waiting, in the order they are to be served.
    currentlyServing,
    queueLength,         \* queueLengthSignal.
    priority,            \* The priority each pager entered with.
    promise,             \* What became of the promise each pager waits for.
    holder               \* What became of the holder of each pager.

vars == <<pagers, currentlyServing, queueLength, priority, promise, holder>>

Entered == DOMAIN priority

TypeOK ==
    /\ pagers \in Seq(Pagers) /\ currentlyServing \in Pagers \cup {Nobody}
    /\ queueLength \in 0..Cardinality(Pagers)
    /\ priority \in Seq(Priorities)
    /\ promise \in [Pagers -> {"pending", "resolved", "rejected"}]
    /\ holder \in [Pagers -> {"none", "registered", "dropped", "unreachable", "finalized"}]

Init ==
    /\ pagers = <<>> /\ currentlyServing = Nobody /\ queueLength = 0
    /\ priority = <<>>
    /\ promise = [p \in Pagers |-> "pending"]
    /\ holder = [p \in Pagers |-> "none"]

\* The queue is sorted by priority, keeping the order of those with the same one.
Enter(queue, p, given) ==
    LET n == Cardinality({k \in DOMAIN queue : given[queue[k]] <= given[p]})
    IN  SubSeq(queue, 1, n) \o <<p>> \o SubSeq(queue, n + 1, Len(queue))

\* tryAdvancingQueue, from a queue, whom it serves and the holders.
TryAdvancingQueue(queue, serving, holders) ==
    LET served == serving = Nobody /\ queue # <<>>
    IN  /\ pagers' = IF served THEN Tail(queue) ELSE queue
        /\ currentlyServing' = IF served THEN Head(queue) ELSE serving
        /\ holder' = IF served THEN [holders EXCEPT ![Head(queue)] = "registered"] ELSE holders
        /\ promise' = IF served THEN [promise EXCEPT ![Head(queue)] = "resolved"] ELSE promise
        /\ queueLength' = Len(pagers') + (IF currentlyServing' = Nobody THEN 0 ELSE 1)

EnterQueue(p, given) ==
    /\ p = Len(priority) + 1
    /\ priority' = Append(priority, given)
    /\ TryAdvancingQueue(Enter(pagers, p, priority'), currentlyServing, holder)

ClearQueue ==
    /\ pagers # <<>>
    /\ promise' = [p \in Pagers |-> IF \E k \in DOMAIN pagers : pagers[k] = p
                                    THEN "rejected" ELSE promise[p]]
    /\ pagers' = <<>>
    /\ queueLength' = IF currentlyServing = Nobody THEN 0 ELSE 1
    /\ UNCHANGED <<currentlyServing, priority, holder>>

\* drop; a second drop of the same holder throws and changes nothing.
Drop(p) ==
    /\ holder[p] = "registered"
    /\ TryAdvancingQueue(pagers, Nobody, [holder EXCEPT ![p] = "dropped"])
    /\ UNCHANGED priority

\* indexOf and splice
Without(queue, p) ==
    LET index == CHOOSE k \in DOMAIN queue : queue[k] = p
    IN  IF \E k \in DOMAIN queue : queue[k] = p
        THEN [k \in 1..(Len(queue) - 1) |-> queue[IF k < index THEN k ELSE k + 1]]
        ELSE queue

\* Mutant: a pager that leaves gives up its holder, whoever is served.
ExitReleasing(p) ==
    /\ p \in Entered /\ promise[p] # "rejected"
    /\ promise' = [promise EXCEPT ![p] = IF @ = "pending" THEN "rejected" ELSE @]
    /\ pagers' = Without(pagers, p)
    /\ currentlyServing' = Nobody
    /\ queueLength' = Len(pagers')
    /\ UNCHANGED <<priority, holder>>

\* exit: a pager that is waiting is rejected; for one that is served nothing happens, and nobody
\* has its holder any more.
Exit(p) ==
    /\ p \in Entered /\ promise[p] # "rejected"
    /\ promise' = [promise EXCEPT ![p] = IF @ = "pending" THEN "rejected" ELSE @]
    /\ pagers' = Without(pagers, p)
    /\ queueLength' = Len(pagers') + (IF currentlyServing = Nobody THEN 0 ELSE 1)
    /\ holder' = [holder EXCEPT ![p] = IF @ = "registered" THEN "unreachable" ELSE @]
    /\ UNCHANGED <<currentlyServing, priority>>

\* The finalization registry is told that a holder was collected.
Finalize(p) ==
    /\ holder[p] = "unreachable"
    /\ TryAdvancingQueue(pagers, Nobody, [holder EXCEPT ![p] = "finalized"])
    /\ UNCHANGED priority

Next ==
    \/ \E p \in Pagers, given \in Priorities : EnterQueue(p, given)
    \/ ClearQueue
    \/ \E p \in Pagers : Drop(p) \/ Exit(p) \/ Finalize(p)

\* Those who have a holder drop it.  Nothing makes the garbage collector run.
Progress == \E p \in Pagers : Drop(p)

Spec == Init /\ [][Next]_vars

-----------------------------------------------------------------------------
(* Properties.                                                             *)

\* However pagers leave, are served, cleared or collected, there is at most one holder in use,
\* it is the one of the pager that is served, and nobody waits while nobody is served.
OneHolder ==
    /\ {p \in Pagers : holder[p] \in {"registered", "unreachable"}} = {currentlyServing} \ {Nobody}
    /\ pagers # <<>> => currentlyServing # Nobody
    /\ queueLength = Cardinality({p \in Pagers : holder[p] \in {"registered", "unreachable"}})
                       + Cardinality({p \in Entered : promise[p] = "pending"})

\* The pager served next is the one with the lowest priority, and the first of those.
ServedInOrder ==
    [][\A p, q \in Entered :
         promise[p] = "pending" /\ promise'[p] = "resolved" /\ promise[q] = "pending"
         /\ promise'[q] = "pending"
           => priority[p] < priority[q] \/ (priority[p] = priority[q] /\ p < q)]_vars

\* Every pager hears something in the end, unless a served one left.
Settled ==
    \A p \in Entered : promise[p] = "pending" => \E q \in Pagers : holder[q] = "unreachable"
=============================================================================
