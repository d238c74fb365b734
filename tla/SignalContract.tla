--------------------------- MODULE SignalContract ---------------------------
(***************************************************************************)
(* What a reader of a remote signal may rely on, whatever happens to the   *)
(* connections: the value it sees is one the server's signal had, and it   *)
(* never goes back to an earlier one.                                      *)
(*                                                                         *)
(* The server's values are numbered in the order it takes them; a reader   *)
(* may skip values, and falls behind while its value is stale.             *)
(***************************************************************************)
EXTENDS Integers

(* The value of a signal that has none yet, below all the others. *)
NotAvailable == -1

VARIABLES source, value, stale

Init ==
    /\ source \in {NotAvailable, 0}
    /\ value = NotAvailable
    /\ stale = TRUE

Change ==
    /\ source' = source + 1
    /\ UNCHANGED <<value, stale>>

(* A value arrives; a pull that it satisfies may end the subscription. *)
Deliver ==
    /\ value' \in 0..source
    /\ value' >= value
    /\ stale' \in BOOLEAN
    /\ UNCHANGED source

BecomeStale ==
    /\ stale' = TRUE
    /\ UNCHANGED <<source, value>>

Next == Change \/ Deliver \/ BecomeStale

Spec == Init /\ [][Next]_<<source, value, stale>>
=============================================================================
