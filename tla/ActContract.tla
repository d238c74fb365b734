----------------------------- MODULE ActContract -----------------------------
(***************************************************************************)
(* What the chat of one act() call looks like from outside, whatever the   *)
(* tools, their guards and the network do: assistant messages with the     *)
(* calls they request alternate with tool messages that answer some of     *)
(* the calls just requested, each once and in the order of the requests.   *)
(***************************************************************************)
EXTENDS Integers, FiniteSets, SequencesExt

CONSTANTS
    Call,                 \* The numbers of the tool calls.
    MaxPredictionRounds   \* Zero when there is no limit.

VARIABLES
    chat,   \* The messages added to the chat: who wrote it, about which calls.
    act     \* "running", "resolved" or "rejected".

Init == chat = <<>> /\ act = "running"

(* The calls of one message, in the order of their numbers. *)
Ascending == {s \in SeqOf(Call, Cardinality(Call)) : \A i, j \in DOMAIN s : i < j => s[i] < s[j]}

Wrote(role, calls) == chat' = Append(chat, [role |-> role, calls |-> calls])

Requested == UNION {ToSet(chat[i].calls) : i \in DOMAIN chat}

Rounds == Cardinality({i \in DOMAIN chat : chat[i].role = "assistant"})

(* The model's message; it may still come when the act has failed.  The    *)
(* last prediction requests no tools.                                      *)
Predict(calls) ==
    /\ act # "resolved"
    /\ chat # <<>> => Last(chat).role = "tool"
    /\ \A c \in ToSet(calls), d \in Requested : c > d
    /\ MaxPredictionRounds # 0 => /\ Rounds < MaxPredictionRounds
                                  /\ Rounds + 1 = MaxPredictionRounds => calls = <<>>
    /\ Wrote("assistant", calls)
    /\ UNCHANGED act

(* The tools' message, after which the act may be over. *)
Answer(calls) ==
    /\ act = "running"
    /\ chat # <<>> /\ Last(chat).role = "assistant"
    /\ calls # <<>> /\ ToSet(calls) \subseteq ToSet(Last(chat).calls)
    /\ Wrote("tool", calls)
    /\ act' \in {"running", "resolved", "rejected"}

End ==
    /\ act = "running"
    /\ \/ act' = "rejected"
       \/ act' = "resolved" /\ chat # <<>> /\ Last(chat).role = "assistant"
    /\ UNCHANGED chat

Next ==
    \/ \E calls \in Ascending : Predict(calls) \/ Answer(calls)
    \/ End

Spec == Init /\ [][Next]_<<chat, act>>
=============================================================================
