------------------------------ MODULE MCStackConfig ------------------------------
(* Values for the model checker's runs of StackConfig. *)
EXTENDS StackConfig, TLC

\* Partial functions from a set of keys.
Dicts(keys, values) == UNION {[D -> values] : D \in SUBSET keys}

\* The flags the dependencies relate, and the same by their component names.
MCFlags == Dicts({"logs", "prometheus_metrics"}, BOOLEAN)
           \cup {[otel |-> TRUE, traces |-> t, metrics |-> m] : t, m \in BOOLEAN}
MCComponents == Dicts({"metrics", "logs", "otel_operator"}, BOOLEAN)
MCOdd == {[vector |-> TRUE, logs |-> FALSE], [vm_operator |-> TRUE],
          [vm_operator |-> TRUE, vmagent |-> TRUE], [vector |-> FALSE],
          [metrics |-> FALSE, logs |-> FALSE, traces |-> FALSE],
          [profiling |-> TRUE, grafana |-> FALSE], [parca_agent |-> FALSE],
          [otel_operator |-> TRUE, metrics |-> FALSE, traces |-> FALSE]}

\* The ends of the range of ports and what is next to them.
MCPorts == {[metrics |-> 9090], [logs |-> 1, grafana |-> 65535], [traces |-> 0],
            [parca |-> 65536], [web |-> 80]}

Named == {Empty, [namespace |-> "monitoring"]}

MCDictionaries ==
    {f @@ n : f \in MCFlags, n \in Named}
    \cup {f @@ [components |-> c] : f \in MCFlags, c \in MCComponents \cup MCOdd}
    \cup {n @@ [ports |-> p] : p \in MCPorts, n \in Named}
    \cup {[ports |-> Empty], [namespace |-> "My.Namespace"], [metric |-> TRUE],
          [profiling |-> TRUE, metrics |-> FALSE, logs |-> FALSE, traces |-> FALSE,
           ports |-> [parca |-> 7071]]}

MCEnvironments ==
    {Empty, [namespace |-> "ci"], [ports |-> [metrics |-> 9091]], [ports |-> [parca |-> 0]],
     [namespace |-> "CI"], [namespace |-> "ci", ports |-> [metrics |-> 9091, traces |-> 65535]]}

MCValidNamespaces == {"observability", "default", "monitoring", "ci"}

=============================================================================
