------------------------------- MODULE BestEffort -------------------------------
(***************************************************************************)
(* What the exporters that first ask a backend for a list (Jaeger services,*)
(* Parca profile types) and then fetch its entries one by one promise:     *)
(* every entry is settled exactly once, in the order of the listing,       *)
(* whatever becomes of the others; only a listing can end the collection   *)
(* early, and only what follows the last entry can still fail it.          *)
(***************************************************************************)
EXTENDS Sequences

CONSTANT Items

VARIABLES
    phase,      \* "listing", "collecting", then "succeeded", "skipped" or "failed"
    todo,       \* the entries not settled yet, in listing order
    settled     \* the settled entries, in order, with whether each was kept

vars == <<phase, todo, settled>>

Init == phase = "listing" /\ todo = <<>> /\ settled = <<>>

\* No listing could be obtained.
GiveUp ==
    /\ phase = "listing"
    /\ phase' \in {"skipped", "failed"}
    /\ UNCHANGED <<todo, settled>>

List(entries) ==
    /\ phase = "listing"
    /\ phase' = "collecting"
    /\ todo' = entries
    /\ UNCHANGED settled

Settle(kept) ==
    /\ phase = "collecting"
    /\ todo # <<>>
    /\ settled' = Append(settled, [item |-> Head(todo), kept |-> kept])
    /\ todo' = Tail(todo)
    /\ UNCHANGED phase

Finish ==
    /\ phase = "collecting"
    /\ todo = <<>>
    /\ phase' \in {"succeeded", "failed"}
    /\ UNCHANGED <<todo, settled>>

Next ==
    \/ GiveUp
    \/ phase = "listing" /\ todo' \in Seq(Items) /\ List(todo')
    \/ \E kept \in BOOLEAN : Settle(kept)
    \/ Finish

Spec == Init /\ [][Next]_vars

=============================================================================
