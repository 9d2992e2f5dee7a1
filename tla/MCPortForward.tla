------------------------------ MODULE MCPortForward ------------------------------
(* Values for the model checker's runs of PortForward. *)
EXTENDS PortForward

\* A backend whose pod is being replaced by another, and one with a single pod.
MCOwnerOf == [p \in Pods |-> IF p = "vl1" THEN "victorialogs" ELSE "victoriametrics"]

=============================================================================
