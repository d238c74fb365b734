------------------------------- MODULE MCData ------------------------------
(***************************************************************************)
(* The signals made from other signals, file data, configs, chats and      *)
(* processing blocks, for TLC: small instances, checked in one run.  They  *)
(* share no state; the run picks the one that takes steps, and the others  *)
(* stay as they began, in the first of their states.                       *)
(***************************************************************************)
EXTENDS Integers, Sequences

VARIABLES
    subject,   \* The component that runs.
    access, source, emissions, slice, replica, tangled, written, acked,
    root, inner, reading, pulling, active, selected, innerSetter, queuedUpdates, output, writes,
    events,
    file, data, lastWroteBuffer, shown, subscriptions, subscribed, watching, event, reads, sets,
    others, overtaken,
    schematics, config,
    base, format, request, loaded, loadShown, loads, outcome,
    arrays, messages, lists, chats, owned, consumers, edits,
    blocks, kind, role, indentation, parent, lastSubStatus, lastState, wanted, removed,
    blockEdits, updates, conversation, blockShown

SlicedOnes == INSTANCE SlicedSignals WITH MaxEmissions <- 3, MaxCombined <- 2
Flattened == INSTANCE FlattenedSignals
    WITH Inners <- {"i", "j"}, MaxWrites <- 2, MaxOthers <- 1, MaxEvents <- 5
Files == INSTANCE FileData WITH MaxSets <- 2, MaxOthers <- 2, MaxSubscriptions <- 2
Configs == INSTANCE KVConfig
Loads == INSTANCE LoadConfig WITH shown <- loadShown
Chats == INSTANCE Chat WITH Consumers <- {1}, MaxEdits <- 2
Blocks == INSTANCE ProcessingBlocks
    WITH MaxBlocks <- 4, MaxOthers <- 1, MaxEdits <- 2, MaxUnderWay <- 1, edits <- blockEdits,
         shown <- blockShown

slicedOnesVars == <<access, source, emissions, slice, replica, tangled, written, acked>>
flattenedVars == <<root, inner, reading, pulling, active, selected, innerSetter, queuedUpdates,
                   output, writes, events>>
filesVars == <<file, data, lastWroteBuffer, shown, subscriptions, subscribed, watching, event,
               reads, sets, others, overtaken>>
configsVars == <<schematics, config>>
loadsVars == <<base, format, request, loaded, loadShown, loads, outcome>>
chatsVars == <<arrays, messages, lists, chats, owned, consumers, edits>>
blocksVars == <<blocks, kind, role, indentation, parent, lastSubStatus, lastState, wanted,
                removed, blockEdits, updates, conversation, blockShown>>

Subjects == {"sliced signals", "flattened signals", "file data", "configs", "load configs",
             "chats", "processing blocks"}

InitData ==
    /\ subject \in Subjects
    /\ SlicedOnes!Init
    /\ subject # "sliced signals" =>
         /\ access = CHOOSE a \in SlicedOnes!Accesses : TRUE
         /\ source.value = CHOOSE r \in SlicedOnes!RootsFor(access) : TRUE
    /\ Flattened!Init /\ (subject # "flattened signals" => root.inner = "i")
    /\ Files!Init /\ (subject # "file data" => file = 1)
    /\ Configs!Init
    /\ Loads!Init
    /\ subject # "load configs" => format = "gguf" /\ base = CHOOSE b \in Loads!Bases : TRUE
    /\ Chats!Init
    /\ subject # "chats" => Len(lists[1]) = 1 /\ arrays[1][1].type = "text"
    /\ Blocks!Init

NextData ==
    /\ UNCHANGED subject
    /\ IF subject = "sliced signals" THEN SlicedOnes!Next ELSE UNCHANGED slicedOnesVars
    /\ IF subject = "flattened signals" THEN Flattened!Next ELSE UNCHANGED flattenedVars
    /\ IF subject = "file data" THEN Files!Next ELSE UNCHANGED filesVars
    /\ IF subject = "configs" THEN Configs!Next ELSE UNCHANGED configsVars
    /\ IF subject = "load configs" THEN Loads!Next ELSE UNCHANGED loadsVars
    /\ IF subject = "chats" THEN Chats!Next ELSE UNCHANGED chatsVars
    /\ IF subject = "processing blocks" THEN Blocks!Next ELSE UNCHANGED blocksVars

dataVars == <<subject, slicedOnesVars, flattenedVars, filesVars, configsVars, loadsVars,
              chatsVars, blocksVars>>

SpecData == InitData /\ [][NextData]_dataVars

-----------------------------------------------------------------------------
(* Properties.                                                             *)

(* A sliced signal follows its source, stale or not, and what is written   *)
(* through it stays in the slice and is acknowledged (SlicedSignal.ts); a  *)
(* flattened signal shows the selected signal when it passes for fresh,    *)
(* and queued writes reach it once and in order (flattenSignal.ts); a file *)
(* that is watched shows what it holds (FileData.ts).                      *)
SignalsFollow ==
    /\ subject = "sliced signals" =>
         /\ SlicedOnes!TypeOK
         /\ SlicedOnes!SliceFollows /\ SlicedOnes!ReplicaFollowsUnlessTangled
         /\ SlicedOnes!WritesStayInSlice /\ SlicedOnes!WritesAreAcknowledged
    /\ subject = "flattened signals" =>
         /\ Flattened!TypeOK
         /\ Flattened!FreshShowsSelected /\ Flattened!WritesApplyOnceInOrder
         /\ Flattened!WritesWaitForFreshness /\ Flattened!SubscribedWritesReachSelected
    /\ subject = "file data" => Files!TypeOK /\ Files!ShowsTheFile

(* However schematics are scoped, sliced, united and flattened, they parse *)
(* what they accept, read the same fields, and collapse, compare, take     *)
(* away and serialize stacks of configs alike (KVConfig.ts).               *)
ConfigsAgree ==
    subject = "configs" =>
        /\ Configs!LenientIsParsed /\ Configs!DerivedReadsSameField
        /\ Configs!FilterCommutesWithCollapse /\ Configs!UnApplyUndoes
        /\ Configs!CompareFindsChanges /\ Configs!SerializedIsReadAgain

(* A load config decides over the server's own and, shown to the client,   *)
(* can be given to load again, with the same result (the conversions of    *)
(* llmLoadModelConfig.ts).                                                 *)
LoadsAgree ==
    subject = "load configs" =>
        /\ Loads!RequestDecidesMode /\ Loads!ShownIsAccepted
        /\ Loads!ShownIsReloaded /\ Loads!OnlySeedThrows

(* No message is in two chats that may change it, whatever is copied, and  *)
(* consuming files leaves what was there (Chat.ts); LM Studio shows the    *)
(* blocks as the tree the plugin built and all that was set of each        *)
(* (ProcessingController.ts).                                              *)
ChatsAndBlocksAgree ==
    /\ subject = "chats" => Chats!TypeOK /\ Chats!NoMessageTwice /\ Chats!QuietConsumption
    /\ subject = "processing blocks" =>
         Blocks!TypeOK /\ Blocks!ShownAsTree /\ Blocks!ShowsAllThatWasSet

(* Nothing that is done to a chat or to its messages changes an immutable  *)
(* one (MaybeMutable.ts).                                                  *)
ImmutableStays == Chats!ImmutableStays
=============================================================================
