------------------------------ MODULE MCTraceExport ------------------------------
(* Values for the model checker's runs of TraceExport. *)
EXTENDS TraceExport

\* A trace through three services and a trace of one of them alone.
MCSpans == {"root", "call", "leaf", "alone"}
MCTraceOf == [s \in MCSpans |-> IF s = "alone" THEN "t2" ELSE "t1"]
MCServiceOf == [s \in MCSpans |->
                   CASE s = "call" -> "cart" [] s = "leaf" -> "db" [] OTHER -> "web"]

=============================================================================
