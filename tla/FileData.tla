------------------------------ MODULE FileData ------------------------------
(***************************************************************************)
(* FileData: a value kept in a file, read once, written with every set     *)
(* and, while someone is subscribed, read again when the file changes.     *)
(*                                                                         *)
(* Reading is asynchronous: the file is read at one moment and what was    *)
(* read is looked at later, with sets, changes by others and the end of    *)
(* the subscription in between.  A watcher handles one event at a time and *)
(* finishes the one it is handling after it was aborted.                   *)
(***************************************************************************)
EXTENDS Integers, FiniteSets

CONSTANTS
    MaxSets,           \* Bound: sets of the application.
    MaxOthers,         \* Bound: changes of the file by others.
    MaxSubscriptions   \* Bound: subscriptions.

DefaultData == 0
Absent == -1
Corrupt == -2        \* A content the deserializer refuses.
None == -3
Contents == 0..(MaxSets + MaxOthers + 1)

VARIABLES
    file,            \* What the file holds.
    data,            \* innerSignal.
    lastWroteBuffer,
    shown,           \* outerSignal: its value and whether it is stale.
    subscriptions,   \* Subscriptions made; the last may have ended.
    subscribed,
    watching,        \* Whether its watcher got the file to watch.
    event,           \* What the watcher has not handled yet.
    reads,           \* Reads under way: whose, and what was read.
    sets, others,    \* Sets and changes by others so far.
    overtaken        \* Auxiliary: whether a read was looked at too late, or not at all.

vars == <<file, data, lastWroteBuffer, shown, subscriptions, subscribed, watching, event, reads,
          sets, others, overtaken>>

Events == {"none", "change", "rename"}

TypeOK ==
    /\ file \in Contents \cup {Absent, Corrupt}
    /\ data \in Contents
    /\ lastWroteBuffer \in Contents \cup {None}
    /\ shown \in [value : Contents, stale : BOOLEAN]
    /\ subscriptions \in 0..MaxSubscriptions
    /\ {subscribed, watching, overtaken} \subseteq BOOLEAN
    /\ event \in Events
    /\ reads \subseteq [watcher : 1..subscriptions, got : Contents \cup {Absent, Corrupt, None}]

\* initInternal: the file is read, or the default is written unless told not to.
Init ==
    /\ \E doNotCreateOnInit \in BOOLEAN, found \in {Absent, Corrupt, 1} :
          /\ data = IF found = 1 THEN 1 ELSE DefaultData
          /\ file = IF found = Corrupt \/ (found = Absent /\ ~ doNotCreateOnInit)
                    THEN DefaultData ELSE found
          /\ lastWroteBuffer = IF found = 1 \/ (found = Absent /\ doNotCreateOnInit)
                               THEN None ELSE DefaultData
    /\ shown = [value |-> data, stale |-> TRUE]
    /\ subscriptions = 0 /\ subscribed = FALSE /\ watching = FALSE
    /\ event = "none" /\ reads = {}
    /\ sets = 0 /\ others = 0 /\ overtaken = FALSE

\* The inner signal is set, and the outer one with it while it is subscribed to.
SetData(value) ==
    /\ data' = value
    /\ shown' = IF subscribed THEN [value |-> value, stale |-> FALSE] ELSE shown

\* What a watcher is told; changes it has not been told of become one.
Notified(kind) == IF ~ watching THEN event ELSE IF event = "rename" THEN event ELSE kind

NewContent == sets + others + 2

-----------------------------------------------------------------------------
(* Subscribers.                                                            *)

\* The watcher fails at once when there is no file, and is not started again.
Subscribe ==
    /\ ~ subscribed /\ subscriptions < MaxSubscriptions
    /\ subscribed' = TRUE /\ subscriptions' = subscriptions + 1
    /\ shown' = [value |-> data, stale |-> FALSE]
    /\ watching' = (file # Absent)
    /\ event' = "none"
    /\ UNCHANGED <<file, data, lastWroteBuffer, reads, sets, others, overtaken>>

Unsubscribe ==
    /\ subscribed
    /\ subscribed' = FALSE /\ watching' = FALSE /\ event' = "none"
    /\ shown' = [shown EXCEPT !.stale = TRUE]
    /\ UNCHANGED <<file, data, lastWroteBuffer, subscriptions, reads, sets, others, overtaken>>

-----------------------------------------------------------------------------
(* Writes.                                                                 *)

\* writeData; a write that fails is only logged.
WriteData(content) ==
    /\ lastWroteBuffer' = content
    /\ \/ (file' = content /\ event' = Notified("change"))
       \/ UNCHANGED <<file, event>>

Set ==
    /\ sets < MaxSets
    /\ sets' = sets + 1
    /\ SetData(NewContent)
    /\ WriteData(NewContent)
    /\ overtaken' = (overtaken \/ file' # NewContent)
    /\ UNCHANGED <<subscriptions, subscribed, watching, reads, others>>

\* Another program writes the file: something new, what it held before, or nonsense.
OthersWrite ==
    /\ others < MaxOthers
    /\ others' = others + 1
    /\ file' \in ({NewContent, Corrupt, lastWroteBuffer} \ {None, file})
    /\ event' = Notified("change")
    /\ overtaken' = (overtaken \/ ~ watching)
    /\ UNCHANGED <<data, lastWroteBuffer, shown, subscriptions, subscribed, watching, reads, sets>>

\* Another program deletes the file or puts another in its place.
OthersReplace ==
    /\ others < MaxOthers
    /\ others' = others + 1
    /\ file' \in {NewContent, Absent}
    /\ event' = Notified("rename")
    /\ overtaken' = TRUE
    /\ UNCHANGED <<data, lastWroteBuffer, shown, subscriptions, subscribed, watching, reads, sets>>

-----------------------------------------------------------------------------
(* The watcher.                                                            *)

Busy == \E r \in reads : r.watcher = subscriptions

StartRead ==
    /\ watching /\ event = "change" /\ ~ Busy
    /\ event' = "none"
    /\ reads' = reads \cup {[watcher |-> subscriptions, got |-> None]}
    /\ UNCHANGED <<file, data, lastWroteBuffer, shown, subscriptions, subscribed, watching, sets,
                   others, overtaken>>

ReadFile(r) ==
    /\ r.got = None
    /\ reads' = (reads \ {r}) \cup {[r EXCEPT !.got = file]}
    /\ UNCHANGED <<file, data, lastWroteBuffer, shown, subscriptions, subscribed, watching, event,
                   sets, others, overtaken>>

\* The content is our own, or was refused.
Skips(content) == content = lastWroteBuffer \/ content \in {Absent, Corrupt}

\* The rest of readData, and setData.
EndRead(r) ==
    /\ r.got # None
    /\ reads' = reads \ {r}
    /\ IF Skips(r.got) THEN UNCHANGED <<data, shown>> ELSE SetData(r.got)
    /\ overtaken' = (overtaken \/ r.got \notin {file, Absent, Corrupt}
                               \/ (r.got = lastWroteBuffer /\ data # lastWroteBuffer))
    /\ UNCHANGED <<file, lastWroteBuffer, subscriptions, subscribed, watching, event, sets,
                   others>>

\* The file was renamed or replaced: the default is shown, and nothing is written.
Renamed ==
    /\ watching /\ event = "rename" /\ ~ Busy
    /\ event' = "none"
    /\ SetData(DefaultData)
    /\ UNCHANGED <<file, lastWroteBuffer, subscriptions, subscribed, watching, reads, sets, others,
                   overtaken>>

Next ==
    \/ Subscribe \/ Unsubscribe \/ Set \/ OthersWrite \/ OthersReplace
    \/ StartRead \/ Renamed
    \/ \E r \in reads : ReadFile(r) \/ EndRead(r)

Spec == Init /\ [][Next]_vars

-----------------------------------------------------------------------------
(* Properties.                                                             *)

Quiet == watching /\ subscriptions = 1 /\ event = "none" /\ reads = {}
Readable == file \notin {Absent, Corrupt}

\* Once the first watcher has handled everything, the value shown is what the file holds,
\* whoever wrote it, unless a read was overtaken by a set, an own content came back, a write
\* failed or the file was replaced.
ShowsTheFile == Quiet /\ Readable /\ ~ overtaken => shown.value = file

=============================================================================
