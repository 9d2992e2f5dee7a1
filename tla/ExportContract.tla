--------------------------- MODULE ExportContract ---------------------------
(***************************************************************************)
(* What one run of `observability-export` promises its caller: every       *)
(* requested exporter is settled exactly once, in the fixed order, whatever *)
(* happened to the ones before it, and the exit code is a function of the  *)
(* outcomes alone.  A run may also be abandoned before the first exporter. *)
(***************************************************************************)
EXTENDS Integers, Sequences

CONSTANT Exporters          \* exporter names, in the order they are run

Names == {Exporters[k] : k \in DOMAIN Exporters}

VARIABLES
  skip,                     \* exporters the caller asked to leave out
  outcome,                  \* what became of each exporter
  exit                      \* process exit code, Running until it has one

cvars == <<skip, outcome, exit>>

Running == -1
Outcomes == {"pending", "skipped", "ok", "failed"}

Init ==
  /\ skip \in SUBSET Names
  /\ outcome = [e \in Names |-> "pending"]
  /\ exit = Running

(* The exporters before position k have all been settled. *)
Turn(k) == \A j \in 1 .. k - 1 : outcome[Exporters[j]] # "pending"

Settle(k) ==
  /\ exit = Running
  /\ Turn(k)
  /\ outcome[Exporters[k]] = "pending"
  /\ \E o \in Outcomes \ {"pending"} :
       /\ (o = "skipped") <=> (Exporters[k] \in skip)
       /\ outcome' = [outcome EXCEPT ![Exporters[k]] = o]
  /\ UNCHANGED <<skip, exit>>

(* 0: nothing failed; 1: something failed and something succeeded; *)
(* 2: something failed and nothing succeeded.                      *)
ExitCode(o) ==
  IF \A e \in Names : o[e] # "failed" THEN 0
  ELSE IF \E e \in Names : o[e] = "ok" THEN 1
  ELSE 2

Finish ==
  /\ exit = Running
  /\ \A e \in Names : outcome[e] # "pending"
  /\ exit' = ExitCode(outcome)
  /\ UNCHANGED <<skip, outcome>>

(* Setting the run up failed: no exporter is tried. *)
Abandon ==
  /\ exit = Running
  /\ \A e \in Names : outcome[e] = "pending"
  /\ exit' = 2
  /\ UNCHANGED <<skip, outcome>>

Next ==
  \/ \E k \in DOMAIN Exporters : Settle(k)
  \/ Finish
  \/ Abandon

Spec == Init /\ [][Next]_cvars
=============================================================================
