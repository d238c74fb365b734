-------------------------- MODULE ProcessingBlocks --------------------------
(***************************************************************************)
(* The blocks one ProcessingController shows in a conversation: statuses   *)
(* and their sub-statuses, content blocks, tool statuses, citations and    *)
(* debug information.  A controller of a block keeps what it last sent and *)
(* sends updates, each an rpc nobody waits for.                            *)
(*                                                                         *)
(* LM Studio, which keeps the conversation, is not in this repository: it  *)
(* is taken to apply the updates in the order they come and to fail one    *)
(* that names a block it does not have, which the plugin only logs.        *)
(***************************************************************************)
EXTENDS Integers, FiniteSets, SequencesExt

CONSTANTS
    MaxBlocks,    \* Bound: blocks created.
    MaxOthers,    \* Bound: blocks among them that are not statuses.
    MaxEdits,     \* Bound: changes made to them.
    MaxUnderWay   \* Bound: updates on their way to LM Studio.

Ids == 1..MaxBlocks
Roles == {"user", "assistant", "system", "tool"}
Statuses == {"loading", "done"}
Texts == {"a", "b"}
Parts == {"text", "toolRequest", "toolResult"}

VARIABLES
    blocks,         \* How many were created; createId numbers them.
    kind, role, indentation,
    parent,         \* The status a sub-status was added to, or 0.
    lastSubStatus,  \* Of a status, the controller it refers to, or itself.
    lastState,      \* What its controller last sent of a block.
    wanted,         \* What the application asked it to show.
    removed,        \* The statuses that were removed.
    edits,
    updates,        \* On their way to LM Studio.
    conversation,   \* The blocks, in the order they are shown.
    shown           \* What each shows.

controllerVars == <<blocks, kind, role, indentation, parent, lastSubStatus>>
stateVars == <<lastState, wanted, removed, edits>>
studioVars == <<conversation, shown>>
vars == <<controllerVars, stateVars, updates, studioVars>>

(* What a block shows: a status, its text, the warnings of a tool status,  *)
(* the parts of a content block.                                           *)
Blank == [status |-> "loading", text |-> "a", warnings |-> 0, parts |-> <<>>]
State == [status : Statuses, text : Texts, warnings : 0..MaxEdits,
          parts : Seq(Parts \cup {"replaced"})]

TypeOK ==
    /\ blocks \in 0..MaxBlocks /\ edits \in 0..MaxEdits
    /\ kind \in [Ids -> {"none", "status", "content", "toolStatus", "citation", "debugInfo"}]
    /\ role \in [Ids -> Roles]
    /\ indentation \in [Ids -> 0..MaxBlocks]
    /\ parent \in [Ids -> 0..MaxBlocks]
    /\ lastSubStatus \in [Ids -> Ids]
    /\ \A id \in Ids : {lastState[id], wanted[id], shown[id]} \subseteq State
    /\ removed \subseteq Ids
    /\ \A i \in DOMAIN updates : updates[i].id \in Ids
    /\ conversation \in Seq(Ids)

Init ==
    /\ blocks = 0 /\ edits = 0
    /\ kind = [id \in Ids |-> "none"] /\ role = [id \in Ids |-> "assistant"]
    /\ indentation = [id \in Ids |-> 0] /\ parent = [id \in Ids |-> 0]
    /\ lastSubStatus = [id \in Ids |-> id]
    /\ lastState = [id \in Ids |-> Blank] /\ wanted = [id \in Ids |-> Blank]
    /\ removed = {} /\ updates = <<>> /\ conversation = <<>>
    /\ shown = [id \in Ids |-> Blank]

sendUpdate(update) == Len(updates) < MaxUnderWay /\ updates' = Append(updates, update)

-----------------------------------------------------------------------------
(* Creating blocks.                                                        *)

NewId == blocks + 1

(* The state a new block starts with is the caller's.                      *)
Created(id, newKind, newRole, under, depth, afterId) ==
    /\ blocks < MaxBlocks
    /\ newKind # "status" => Cardinality({b \in Ids : kind[b] \notin {"none", "status"}}) < MaxOthers
    /\ blocks' = id
    /\ kind' = [kind EXCEPT ![id] = newKind]
    /\ role' = [role EXCEPT ![id] = newRole]
    /\ parent' = [parent EXCEPT ![id] = under]
    /\ indentation' = [indentation EXCEPT ![id] = depth]
    /\ sendUpdate([type |-> "create", id |-> id, afterId |-> afterId])
    /\ UNCHANGED <<stateVars, studioVars>>

CreateStatus ==
    /\ Created(NewId, "status", "assistant", 0, 0, 0)
    /\ UNCHANGED lastSubStatus

CreateContentBlock(newRole) ==
    /\ Created(NewId, "content", newRole, 0, 0, 0)
    /\ UNCHANGED lastSubStatus

CreateToolStatus ==
    /\ Created(NewId, "toolStatus", "assistant", 0, 0, 0)
    /\ UNCHANGED lastSubStatus

CreateCitationBlock ==
    /\ Created(NewId, "citation", "assistant", 0, 0, 0)
    /\ UNCHANGED lastSubStatus

CreateDebugInfoBlock ==
    /\ Created(NewId, "debugInfo", "assistant", 0, 0, 0)
    /\ UNCHANGED lastSubStatus

(* Following lastSubStatus to one that refers to itself: no chain is       *)
(* longer than there are blocks.                                           *)
NestedLastSubStatus(id) ==
    LET follow[n \in 0..MaxBlocks] == IF n = 0 THEN lastSubStatus[id] ELSE lastSubStatus[follow[n - 1]]
    IN follow[MaxBlocks]

AddSubStatus(id) ==
    /\ id <= blocks /\ kind[id] = "status"
    /\ Created(NewId, "status", "assistant", id, indentation[id] + 1, NestedLastSubStatus(id))
    /\ lastSubStatus' = [lastSubStatus EXCEPT ![id] = NewId]

-----------------------------------------------------------------------------
(* Changing them.                                                          *)

(* A block shows state, and its controller remembers remembered.           *)
Shows(id, state, remembered, asked) ==
    /\ edits < MaxEdits
    /\ edits' = edits + 1
    /\ lastState' = [lastState EXCEPT ![id] = remembered]
    /\ wanted' = [wanted EXCEPT ![id] = asked]
    /\ sendUpdate([type |-> "update", id |-> id, state |-> state])
    /\ UNCHANGED <<controllerVars, removed, studioVars>>

SetText(id, text) ==
    LET state == [lastState[id] EXCEPT !.text = text] IN
    /\ kind[id] = "status"
    /\ Shows(id, state, state, [wanted[id] EXCEPT !.text = text])

SetState(id, status, text) ==
    LET state == [lastState[id] EXCEPT !.status = status, !.text = text] IN
    /\ kind[id] = "status"
    /\ Shows(id, state, state, [wanted[id] EXCEPT !.status = status, !.text = text])

(* A tool status sends all it has each time.                               *)
SetToolStatus(id, status) ==
    LET state == [lastState[id] EXCEPT !.status = status] IN
    /\ kind[id] = "toolStatus"
    /\ Shows(id, state, state, [wanted[id] EXCEPT !.status = status])

SetCustomStatusText(id, text) ==
    LET state == [lastState[id] EXCEPT !.text = text] IN
    /\ kind[id] = "toolStatus"
    /\ Shows(id, state, state, [wanted[id] EXCEPT !.text = text])

AddWarning(id) ==
    LET state == [lastState[id] EXCEPT !.warnings = @ + 1] IN
    /\ kind[id] = "toolStatus"
    /\ Shows(id, state, state, [wanted[id] EXCEPT !.warnings = @ + 1])

(* What the role of a content block lets be appended to it.                *)
MayAppendText(id) == role[id] # "tool"
MayAppendToolRequest(id) == role[id] = "assistant"
MayAppendToolResult(id) == role[id] = "tool"

MayAppend(id, part) == CASE part = "text" -> MayAppendText(id)
                         [] part = "toolRequest" -> MayAppendToolRequest(id)
                         [] part = "toolResult" -> MayAppendToolResult(id)

AppendPart(id, part) ==
    LET state == [lastState[id] EXCEPT !.parts = Append(@, part)] IN
    /\ kind[id] = "content" /\ MayAppend(id, part)
    /\ Shows(id, state, state, [wanted[id] EXCEPT !.parts = Append(@, part)])

ReplaceText(id) ==
    LET state == [lastState[id] EXCEPT !.parts = <<"replaced">>] IN
    /\ kind[id] = "content" /\ MayAppendText(id)
    /\ Shows(id, state, state, [wanted[id] EXCEPT !.parts = <<"replaced">>])

(* A status is removed; the status it was added to still refers to it.     *)
RemoveStatus(id) ==
    /\ kind[id] = "status" /\ id \notin removed
    /\ edits < MaxEdits
    /\ edits' = edits + 1
    /\ removed' = removed \cup {id}
    /\ sendUpdate([type |-> "remove", id |-> id])
    /\ UNCHANGED <<controllerVars, lastState, wanted, studioVars>>

-----------------------------------------------------------------------------
(* LM Studio.                                                              *)

Position(id) == CHOOSE i \in DOMAIN conversation : conversation[i] = id

InConversation(id) == id \in ToSet(conversation)

ApplyUpdate ==
    /\ updates # <<>>
    /\ updates' = Tail(updates)
    /\ LET update == Head(updates) IN
       \/ /\ update.type = "create"
          /\ conversation' =
                CASE update.afterId = 0 -> Append(conversation, update.id)
                  [] update.afterId # 0 /\ InConversation(update.afterId) ->
                        InsertAt(conversation, Position(update.afterId) + 1, update.id)
                  [] OTHER -> conversation
          /\ UNCHANGED shown
       \/ /\ update.type = "update"
          /\ shown' = IF InConversation(update.id) THEN [shown EXCEPT ![update.id] = update.state]
                      ELSE shown
          /\ UNCHANGED conversation
       \/ /\ update.type = "remove"
          /\ conversation' = SelectSeq(conversation, LAMBDA id : id # update.id)
          /\ UNCHANGED shown
    /\ UNCHANGED <<controllerVars, stateVars>>

Creates == \/ CreateStatus \/ CreateToolStatus \/ CreateCitationBlock \/ CreateDebugInfoBlock
           \/ \E newRole \in Roles : CreateContentBlock(newRole)
           \/ \E id \in Ids : AddSubStatus(id)

Changes(id) ==
    \/ RemoveStatus(id) \/ AddWarning(id) \/ ReplaceText(id)
    \/ \E text \in Texts : SetText(id, text) \/ SetCustomStatusText(id, text)
    \/ \E status \in Statuses : \/ SetToolStatus(id, status)
                                \/ \E text \in Texts : SetState(id, status, text)
    \/ \E part \in Parts : AppendPart(id, part)

Next == ApplyUpdate \/ Creates \/ \E id \in Ids : Changes(id)

Spec == Init /\ [][Next]_vars

-----------------------------------------------------------------------------
(* Properties.                                                             *)

(* The statuses id was added to, id included. *)
Above(id) ==
    LET up[n \in 0..MaxBlocks] == IF n = 0 \/ parent[id] = 0 THEN {id}
                                  ELSE up[n - 1] \cup {parent[b] : b \in up[n - 1] \ {b \in Ids : parent[b] = 0}}
    IN up[MaxBlocks]

(* Sub-statuses are shown below the status they were added to, after the   *)
(* sub-statuses added to it before and all that is below those, and before *)
(* the statuses that came later beside it, as long as no status was        *)
(* removed (getNestedLastSubStatusBlockId).                                *)
ShownAsTree ==
    removed = {} =>
        \A a, b \in ToSet(conversation) :
            /\ kind[a] = "status" /\ kind[b] = "status"
            /\ a # b /\ a \in Above(b)
            => /\ Position(a) < Position(b)
               /\ \A c \in ToSet(conversation) :
                     Position(a) < Position(c) /\ Position(c) < Position(b) => a \in Above(c)

(* When every update has arrived, each block shows all that was asked of   *)
(* it, in part or as a whole (lastState, updateState, and the rpcs that    *)
(* are not awaited).                                                       *)
ShowsAllThatWasSet ==
    updates = <<>> => \A id \in ToSet(conversation) : shown[id] = wanted[id]
=============================================================================
