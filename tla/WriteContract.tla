---------------------------- MODULE WriteContract ----------------------------
(***************************************************************************)
(* What the single writer of a remote signal may rely on, whatever happens *)
(* to the connections: a write is applied at most once, the writes that    *)
(* were sent together are applied together and in order, a write is        *)
(* acknowledged only after it was applied, and writes settle in the order  *)
(* they were made.                                                         *)
(*                                                                         *)
(* A rejected write says nothing: it may have been applied, or be applied  *)
(* later.  An ignored one, made while the signal was in error, is never    *)
(* applied.                                                                *)
(***************************************************************************)
EXTENDS Integers, FiniteSets, SequencesExt

CONSTANT Updates

VARIABLES
    source,   \* The signal's value: the writes applied to it.
    outcome   \* What became of each write, as far as the writer knows.

(* The value of a signal that has none yet. *)
NotAvailable == <<-1>>

Init ==
    /\ source \in {NotAvailable, <<>>}
    /\ outcome = [u \in Updates |-> "none"]

BecomeAvailable ==
    /\ source = NotAvailable
    /\ source' = <<>>
    /\ UNCHANGED outcome

Write(u) ==
    /\ outcome[u] = "none"
    /\ \E result \in {"queued", "ignored"} : outcome' = [outcome EXCEPT ![u] = result]
    /\ UNCHANGED source

(* Writes in the order they were made. *)
Ascending ==
    {s \in SeqOf(Updates, Cardinality(Updates)) : \A i, j \in DOMAIN s : i < j => s[i] < s[j]}

(* The writes of a batch are applied. *)
Apply(batch) ==
    /\ source # NotAvailable
    /\ ToSet(batch) \cap ToSet(source) = {}
    /\ \A u \in ToSet(batch) : outcome[u] \in {"queued", "rejected"}
    /\ source' = source \o batch
    /\ UNCHANGED outcome

(* The writes of a batch settle together; no earlier one is left. *)
Settle(batch) ==
    /\ \A u \in batch : outcome[u] = "queued"
    /\ \A u \in Updates \ batch, v \in batch : u < v => outcome[u] # "queued"
    /\ \E result \in {"resolved", "rejected"} :
         /\ result = "resolved" => batch \subseteq ToSet(source)
         /\ outcome' = [u \in Updates |-> IF u \in batch THEN result ELSE outcome[u]]
    /\ UNCHANGED source

Next ==
    \/ BecomeAvailable
    \/ \E u \in Updates : Write(u)
    \/ \E batch \in Ascending : Apply(batch)
    \/ \E batch \in SUBSET Updates : Settle(batch)

Spec == Init /\ [][Next]_<<source, outcome>>
=============================================================================
