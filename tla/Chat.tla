--------------------------------- MODULE Chat ---------------------------------
(***************************************************************************)
(* Chats and messages (lms-client/src/Chat.ts, lms-common/MaybeMutable.ts): *)
(* objects that are mutable or not, views that share the data of a chat,   *)
(* copies that must not, and files taken out of a chat by a predicate that *)
(* answers later.                                                          *)
(*                                                                         *)
(* Objects are heaps: a chat has a list of messages, a message an array of *)
(* parts, and both are replaced by some operations and changed in place by *)
(* others, which an iteration under way can tell apart.                    *)
(***************************************************************************)
EXTENDS Integers, Sequences, SequencesExt

CONSTANTS Consumers,  \* calls of consumeFilesAsync
          MaxEdits    \* bound: edits of chats and messages

VARIABLES arrays,     \* heap of content arrays: sequences of parts
          messages,   \* heap of messages: a role and the index of an array
          lists,      \* heap of lists of messages
          chats,      \* the chats of the program: a list, and whether it may change
          owned,      \* plain message data the program keeps
          consumers,  \* calls of consumeFilesAsync
          edits

vars == <<arrays, messages, lists, chats, owned, consumers, edits>>

Names   == {"chat", "copy"}
NoChat  == [list |-> 0, mutable |-> FALSE]
Text    == [type |-> "text", id |-> 0]
File(n) == [type |-> "file", id |-> n]
Result  == [type |-> "toolCallResult", id |-> 0]

IsText(p) == p.type = "text"
IsFile(p) == p.type = "file"

PartsOf(m)    == arrays[messages[m].content]
MessagesOf(c) == lists[chats[c].list]
ValueOf(c)    == [i \in DOMAIN MessagesOf(c) |->
                    [role |-> messages[MessagesOf(c)[i]].role, parts |-> PartsOf(MessagesOf(c)[i])]]

(* What chatMessageDataSchema accepts: copies are made by parsing.          *)
CanClone(m) == \A p \in Range(PartsOf(m)) : (messages[m].role = "tool") <=> (p = Result)

Idle == [status |-> "idle", list |-> 1, at |-> 0, message |-> 1, array |-> 1, index |-> 0,
         toRemove |-> {}, taken |-> {}, removed |-> {}, quiet |-> TRUE]

Init ==
  /\ \E parts \in {<<Text, File(1), File(2)>>, <<File(1), Text, File(2)>>} :
       arrays = <<parts, <<Text>>, <<Result>>>>
  /\ messages = <<[role |-> "user", content |-> 1], [role |-> "user", content |-> 2],
                  [role |-> "tool", content |-> 3]>>
  /\ lists \in {<<<<1>>>>, <<<<3, 1>>>>}
  /\ chats = [c \in Names |-> IF c = "chat" THEN [list |-> 1, mutable |-> TRUE] ELSE NoChat]
  /\ owned = {2} /\ consumers = [k \in Consumers |-> Idle] /\ edits = 0

-----------------------------------------------------------------------------
(* Objects *)

GuardMutable(c) == chats[c].mutable

(* The messages a view that may change them can be had of. *)
Editable == owned \cup UNION {Range(MessagesOf(c)) : c \in {n \in Names : chats[n].mutable}}

Disturbed == [k \in Consumers |-> IF consumers[k].status \in {"asking", "next"}
                                    THEN [consumers[k] EXCEPT !.quiet = FALSE] ELSE consumers[k]]

Edits == /\ edits < MaxEdits /\ edits' = edits + 1 /\ consumers' = Disturbed

(* Changes of a message in place, and of the array it has. *)
SetParts(m, parts) ==
  /\ arrays' = [arrays EXCEPT ![messages[m].content] = parts]
  /\ UNCHANGED <<messages, lists, chats, owned>>
NewParts(m, parts) ==
  /\ arrays' = Append(arrays, parts)
  /\ messages' = [messages EXCEPT ![m].content = Len(arrays')]
  /\ UNCHANGED <<lists, chats, owned>>

(* A chat gets a message of its own, in its list or with a new list.        *)
SetList(c, list) == lists' = [lists EXCEPT ![chats[c].list] = list] /\ UNCHANGED chats
NewList(c, list) == /\ lists' = Append(lists, list)
                    /\ chats' = [chats EXCEPT ![c].list = Len(lists')]
NewMessage(role, parts) == /\ arrays' = Append(arrays, parts)
                           /\ messages' = Append(messages, [role |-> role, content |-> Len(arrays')])

-----------------------------------------------------------------------------
(* Messages *)

AppendText == \E m \in Editable : /\ messages[m].role # "tool" /\ Edits
                                  /\ SetParts(m, Append(PartsOf(m), Text))
AppendFile == \E m \in Editable : /\ messages[m].role # "tool" /\ Edits
                                  /\ SetParts(m, Append(PartsOf(m), File(3 + edits)))
ReplaceText ==
  \E m \in Editable : /\ messages[m].role # "tool" /\ Edits
                      /\ NewParts(m, <<Text>> \o SelectSeq(PartsOf(m), LAMBDA p : ~ IsText(p)))
SetRole ==
  \E m \in Editable, role \in {"system", "tool"} :
    /\ messages[m].role # role /\ Edits
    /\ messages' = [messages EXCEPT ![m].role = role]
    /\ UNCHANGED <<arrays, lists, chats, owned>>

-----------------------------------------------------------------------------
(* Chats *)

AppendRole == \E c \in Names : /\ GuardMutable(c) /\ Edits
                               /\ NewMessage("user", <<Text>>)
                               /\ SetList(c, Append(MessagesOf(c), Len(messages')))
                               /\ UNCHANGED owned

(* Bug: a ChatMessage is appended as it is. *)
AppendSharing(c, m) == /\ SetList(c, Append(MessagesOf(c), m))
                       /\ UNCHANGED <<arrays, messages>>

(* ChatMessage.from copies a ChatMessage. *)
AppendCopy(c, m) == /\ CanClone(m) /\ NewMessage(messages[m].role, PartsOf(m))
                    /\ SetList(c, Append(MessagesOf(c), Len(messages')))

AppendMessage == \E c \in Names, m \in Editable \ owned :
                   GuardMutable(c) /\ Edits /\ AppendCopy(c, m) /\ UNCHANGED owned

(* It takes plain data as it is. *)
AppendData == \E c \in Names, m \in owned :
                /\ GuardMutable(c) /\ Edits
                /\ SetList(c, Append(MessagesOf(c), m))
                /\ UNCHANGED <<arrays, messages, owned>>

Pop == \E c \in Names : /\ GuardMutable(c) /\ MessagesOf(c) # <<>> /\ Edits
                        /\ SetList(c, Front(MessagesOf(c)))
                        /\ UNCHANGED <<arrays, messages, owned>>

ReplaceSystemPrompt ==
  \E c \in Names :
    /\ GuardMutable(c) /\ Edits /\ NewMessage("system", <<Text>>)
    /\ NewList(c, <<Len(messages')>> \o SelectSeq(MessagesOf(c), LAMBDA m : messages[m].role # "system"))
    /\ UNCHANGED owned

FilterInPlace ==
  \E c \in {n \in Names : GuardMutable(n)} : \E out \in Range(MessagesOf(c)) :
    /\ Edits
    /\ NewList(c, SelectSeq(MessagesOf(c), LAMBDA m : m # out))
    /\ UNCHANGED <<arrays, messages, owned>>

(* Bug: the list is copied and the messages are not. *)
CloneShallow(c) == /\ lists' = Append(lists, MessagesOf(c))
                   /\ UNCHANGED <<arrays, messages>>

(* Every message and its parts are copied. *)
CloneData(c) ==
  LET n == Len(MessagesOf(c))
  IN  /\ \A m \in Range(MessagesOf(c)) : CanClone(m)
      /\ arrays' = arrays \o [i \in 1 .. n |-> PartsOf(MessagesOf(c)[i])]
      /\ messages' = messages \o [i \in 1 .. n |-> [role    |-> messages[MessagesOf(c)[i]].role,
                                                    content |-> Len(arrays) + i]]
      /\ lists' = Append(lists, [i \in 1 .. n |-> Len(messages) + i])

Copy(c, mutable) ==
  /\ Edits /\ CloneData(c)
  /\ chats' = [chats EXCEPT !["copy"] = [list |-> Len(lists'), mutable |-> mutable]]
  /\ UNCHANGED owned

AsMutableCopy   == \E c \in Names : chats[c] # NoChat /\ Copy(c, TRUE)
AsImmutableCopy == \E c \in Names : GuardMutable(c) /\ Copy(c, FALSE)   \* else it is the chat itself

-----------------------------------------------------------------------------
(* Taking files out *)

RemovingIndexes(parts, indexes) ==
  LET kept == SelectSeq([i \in DOMAIN parts |-> i], LAMBDA i : i \notin indexes)
  IN  [j \in DOMAIN kept |-> parts[kept[j]]]

FilesAfter(parts, i) == {j \in DOMAIN parts : j > i /\ IsFile(parts[j])}

(* All of a chat at once, with a predicate that accepts some files. *)
ConsumeFiles ==
  \E c \in {n \in Names : GuardMutable(n)}, accepted \in SUBSET (1 .. 2) :
    LET m == MessagesOf(c)[1]
    IN  /\ Len(MessagesOf(c)) = 1 /\ Edits                              \* bound: chats of one message
        /\ NewParts(m, RemovingIndexes(PartsOf(m), {i \in FilesAfter(PartsOf(m), 0) : PartsOf(m)[i].id \in accepted}))

(* The call k has seen its array up to index i: it asks about the next file *)
(* or replaces the content the message has by now.                          *)
Proceed(k, from, i) ==
  LET parts == arrays[from.array]
      now   == PartsOf(from.message)
  IN  IF FilesAfter(parts, i) # {}
        THEN /\ consumers' = [consumers EXCEPT ![k] =
                  [from EXCEPT !.status = "asking",
                               !.index = CHOOSE j \in FilesAfter(parts, i) :
                                           \A l \in FilesAfter(parts, i) : j <= l]]
             /\ UNCHANGED <<arrays, messages>>
        ELSE /\ arrays' = Append(arrays, RemovingIndexes(now, from.toRemove))
             /\ messages' = [messages EXCEPT ![from.message].content = Len(arrays')]
             /\ consumers' = [Disturbed EXCEPT ![k] =
                  [from EXCEPT !.status = "next",
                               !.removed = @ \cup {p.id : p \in Range(now) \ Range(arrays'[Len(arrays')])}]]

(* Message by message, of the list the chat had when the call was made. *)
NextMessage(k, from) ==
  LET list == lists[from.list]
  IN  IF from.at < Len(list)
        THEN LET m == list[from.at + 1]
             IN  Proceed(k, [from EXCEPT !.at = @ + 1, !.message = m, !.array = messages[m].content,
                                         !.toRemove = {}], 0)
        ELSE /\ consumers' = [consumers EXCEPT ![k] = [from EXCEPT !.status = "done"]]
             /\ UNCHANGED <<arrays, messages>>

ConsumeFilesAsync ==
  \E k \in Consumers :
    /\ consumers[k].status = "idle" /\ GuardMutable("chat")
    /\ NextMessage(k, [Idle EXCEPT !.list = chats["chat"].list])
    /\ UNCHANGED <<lists, chats, owned, edits>>

PredicateAnswers ==
  \E k \in Consumers, accepts \in BOOLEAN :
    LET now == consumers[k]
    IN  /\ now.status = "asking"
        /\ Proceed(k, IF accepts
                        THEN [now EXCEPT !.toRemove = @ \cup {now.index},
                                         !.taken = @ \cup {arrays[now.array][now.index].id}]
                        ELSE now, now.index)
        /\ UNCHANGED <<lists, chats, owned, edits>>

MessageDone ==
  \E k \in Consumers : /\ consumers[k].status = "next" /\ NextMessage(k, consumers[k])
                       /\ UNCHANGED <<lists, chats, owned, edits>>

Next ==
  \/ AppendText \/ AppendFile \/ ReplaceText \/ SetRole
  \/ AppendRole \/ AppendMessage \/ AppendData \/ Pop \/ ReplaceSystemPrompt \/ FilterInPlace
  \/ AsMutableCopy \/ AsImmutableCopy
  \/ ConsumeFiles \/ ConsumeFilesAsync \/ PredicateAnswers \/ MessageDone

Spec == Init /\ [][Next]_vars

-----------------------------------------------------------------------------
(* Properties *)

TypeOK ==
  /\ \A m \in DOMAIN messages : messages[m].content \in DOMAIN arrays
  /\ \A l \in DOMAIN lists : Range(lists[l]) \subseteq DOMAIN messages
  /\ \A c \in Names : chats[c] = NoChat \/ chats[c].list \in DOMAIN lists
  /\ edits \in 0 .. MaxEdits

(* Whoever edits what, an immutable copy keeps the value it was made with.  *)
ImmutableStays ==
  [][chats["copy"] # NoChat /\ ~ chats["copy"].mutable /\ chats'["copy"] = chats["copy"]
       => ValueOf("copy")' = ValueOf("copy")]_vars

(* An edit of one message is seen in one place of one chat, unless the      *)
(* message is data the program appended itself: two chats share no message, *)
(* and none has one twice.                                                  *)
NoMessageTwice ==
  /\ \A c \in Names : chats[c] # NoChat =>
       \A i, j \in DOMAIN MessagesOf(c) :
         i # j /\ MessagesOf(c)[i] = MessagesOf(c)[j] => MessagesOf(c)[i] \in owned
  /\ chats["copy"] # NoChat =>
       Range(MessagesOf("chat")) \cap Range(MessagesOf("copy")) \subseteq owned

(* A call of consumeFilesAsync during which nobody edits anything takes out *)
(* of the chat exactly the files it returns.                                *)
QuietConsumption ==
  \A k \in Consumers : consumers[k].quiet /\ consumers[k].status = "done" =>
    consumers[k].removed = consumers[k].taken

=============================================================================
