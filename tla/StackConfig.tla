------------------------------- MODULE StackConfig -------------------------------
(***************************************************************************)
(* One load of a Tiltfile that uses the extension (extension.star): it     *)
(* passes one config dictionary to enable_observability, export_telemetry  *)
(* and otel_env, in any order and leaving any of them out, while the       *)
(* TILT_OBSERVABILITY_* variables override parts of it.  _validate_config  *)
(* merges, maps and checks the dictionary for the first two; otel_env      *)
(* reads it as it is.                                                      *)
(*                                                                         *)
(* Dictionaries are functions.  What a value of the wrong type and one     *)
(* outside its range have in common, that the load fails, is modelled by   *)
(* the latter.  Starlark is external: the globals of a loaded module, and  *)
(* all they hold, are frozen, and a write to a frozen value fails.         *)
(***************************************************************************)
EXTENDS Naturals

CONSTANTS
    Dictionaries,       \* the config dictionaries considered
    Environments,       \* the overrides considered: [namespace, ports], partial
    ValidNamespaces     \* the names that pass the RFC 1123 checks

ASSUME DefaultsAreValid == {"observability", "default"} \subseteq ValidNamespaces

Signals == {"metrics", "logs", "traces"}
Flags == Signals \cup {"prometheus_metrics", "otel", "profiling", "parca_agent"}
PortKeys == Signals \cup {"grafana", "parca"}

DefaultConfig == [metrics |-> TRUE, logs |-> TRUE, traces |-> TRUE,
                  prometheus_metrics |-> FALSE, otel |-> FALSE, profiling |-> FALSE,
                  parca_agent |-> TRUE]
DefaultPorts == [metrics |-> 8428, logs |-> 9428, traces |-> 10428,
                 grafana |-> 3000, parca |-> 7070]

\* The dictionary keys whose values matter here.
ConfigKeys == Flags \cup {"namespace", "ports", "components"}
ComponentKeys == {"metrics", "logs", "traces", "grafana", "vmagent", "otel_operator",
                  "vector", "vm_operator", "profiling"}

\* The component that stands for a flag.  There is none for parca_agent.
ComponentOf == [f \in Flags |-> IF f = "prometheus_metrics" THEN "vmagent"
                                ELSE IF f = "otel" THEN "otel_operator" ELSE f]

VARIABLES
    cfg,        \* the dictionary the Tiltfile passes
    env,        \* the environment variables that are set
    todo,       \* the calls the Tiltfile has still to make
    load,       \* "running", "loaded" or "failed"
    stack,      \* what enable_observability registered, if it did
    button,     \* what export_telemetry registered, if it did
    app         \* the endpoints otel_env returned

vars == <<cfg, env, todo, load, stack, button, app>>

Get(dict, key, default) == IF key \in DOMAIN dict THEN dict[key] ELSE default
Empty == [k \in {} |-> 0]

-----------------------------------------------------------------------------
(* _validate_config *)

Components == Get(cfg, "components", Empty)
UserPorts == Get(cfg, "ports", Empty)
EnvPorts == Get(env, "ports", Empty)

\* A component overrides the flag it stands for.
Flag(f) == Get(Components, ComponentOf[f], Get(cfg, f, DefaultConfig[f]))

Enabled == {f \in Flags : Flag(f)}

Namespace == Get(env, "namespace", Get(cfg, "namespace", "observability"))

AllPorts == DOMAIN EnvPorts \cup DOMAIN UserPorts \cup DOMAIN DefaultPorts

\* The bug of letting the dictionary win over the environment.
DictionaryWins ==
    [k \in AllPorts |-> Get(UserPorts, k, Get(EnvPorts, k, DefaultPorts[k]))]

Ports == [k \in AllPorts |-> Get(EnvPorts, k, Get(UserPorts, k, DefaultPorts[k]))]

UnknownKey ==
    \/ DOMAIN cfg \ ConfigKeys # {}
    \/ DOMAIN UserPorts \ PortKeys # {}
    \/ DOMAIN Components \ ComponentKeys # {}

\* The bug of checking the flags before the components are mapped to them.
UnmetBeforeMapping ==
    LET Flat(f) == Get(cfg, f, DefaultConfig[f]) IN
    \/ Flat("prometheus_metrics") /\ ~Flat("metrics")
    \/ Flat("otel") /\ ~\E s \in Signals : Flat(s)

UnmetDependency ==
    \/ Flag("prometheus_metrics") /\ ~Flag("metrics")
    \/ Flag("otel") /\ ~\E s \in Signals : Flag(s)

\* Components without a flag of their own.
UnmetComponent ==
    \/ Get(Components, "vector", FALSE) /\ ~Get(Components, "logs", TRUE)
    \/ Get(Components, "vm_operator", FALSE) /\ ~Flag("prometheus_metrics")

\* dict(_DEFAULT_CONFIG) is a shallow copy: without ports of the caller's the
\* override is written into the dictionary of the frozen global.
WritesFrozenPorts == DOMAIN EnvPorts # {} /\ "ports" \notin DOMAIN cfg

PortOutOfRange == \E k \in AllPorts : Ports[k] \notin 1 .. 65535

Refused ==
    \/ UnknownKey
    \/ UnmetComponent
    \/ Namespace \notin ValidNamespaces
    \/ UnmetDependency
    \/ WritesFrozenPorts
    \/ PortOutOfRange

-----------------------------------------------------------------------------
(* The three functions *)

Calls == {"enable_observability", "export_telemetry", "otel_env"}

Nothing == [flags |-> {}]

Init ==
    /\ cfg \in Dictionaries
    /\ env \in Environments
    /\ todo \in SUBSET Calls
    /\ load = "running"
    /\ stack = Nothing
    /\ button = Nothing
    /\ app = {}

Call(f) == load = "running" /\ f \in todo /\ todo' = todo \ {f} /\ UNCHANGED <<cfg, env>>

\* fail() ends the load, and with it everything the load registered.
Fail ==
    /\ load' = "failed"
    /\ stack' = Nothing /\ button' = Nothing /\ app' = {}

Noop == Enabled \subseteq {"parca_agent"}

\* The local port at which Tilt forwards each deployed backend.
Forwards == [b \in {k \in Signals : Flag(k)} \cup {k \in {"parca"} : Flag("profiling")} |->
                 Ports[b]]

EnabledSignals == Signals \cap Enabled

\* An address inside an object of the stack: which object holds it, and the service,
\* namespace and port it names.
Link(from, to, port) == [from |-> from, to |-> to, namespace |-> Namespace, port |-> port]

SignalPort == [metrics |-> 8428, logs |-> 9428, traces |-> 10428]

\* The bug of a last "else" for the last two cases.
TracesElseMetrics == IF Flag("traces") THEN "traces" ELSE "metrics"

\* Where instrumented pods send what has no endpoint of its own.
DefaultBackend ==
    IF Flag("traces") THEN "traces"
    ELSE IF Flag("metrics") THEN "metrics"
    ELSE IF Flag("logs") THEN "logs" ELSE "none"

\* The bug of injecting the endpoints without asking for the flags.
ToAllSignals(from) == {Link(from, s, SignalPort[s]) : s \in Signals}

ToSignals(from) == {Link(from, s, SignalPort[s]) : s \in EnabledSignals}

Generated(object) ==
    /\ object = "vector" => Flag("logs")
    /\ object = "vmagent" => Flag("prometheus_metrics")
    /\ object = "parca-agent" => Flag("profiling") /\ Flag("parca_agent")
    /\ object \in {"instrumentation", "exporter"} => Flag("otel")

\* Every address in the objects of a stack: Grafana's data sources, the environment that
\* the Instrumentation object injects and its default exporter, vector's sink, and where
\* vmagent and parca-agent store what they collect.
Links ==
    {l \in ToSignals("grafana") \cup ToSignals("instrumentation") \cup
           {Link("exporter", DefaultBackend, Get(SignalPort, DefaultBackend, 0)),
            Link("vector", "logs", 9428), Link("vmagent", "metrics", 8428),
            Link("parca-agent", "parca", 7070)} :
        Generated(l.from)}

EnableObservability ==
    /\ Call("enable_observability")
    /\ IF Refused THEN Fail
       ELSE /\ stack' = IF Noop THEN Nothing
                        ELSE [flags |-> Enabled, namespace |-> Namespace,
                              forwards |-> Forwards, links |-> Links]
            /\ UNCHANGED <<load, button, app>>

\* The backend each exporter of the CLI reads from.
BackendOf == [metrics |-> "metrics", logs |-> "logs", traces |-> "traces", profiles |-> "parca"]

\* The bug of forgetting the exporter whose flag is inverted in the code.
SkippedButProfiles == {e \in Signals : ~Flag(e)}

Skipped == {e \in Signals : ~Flag(e)} \cup {e \in {"profiles"} : ~Flag("profiling")}

\* The port in each --...-url of the command line.
Urls == [e \in DOMAIN BackendOf |-> Ports[BackendOf[e]]]

ExportTelemetry ==
    /\ Call("export_telemetry")
    /\ IF Refused THEN Fail
       ELSE /\ button' = [flags |-> Enabled, skip |-> Skipped, urls |-> Urls]
            /\ UNCHANGED <<load, stack, app>>

\* The service ports that SetupPortForward routes to.
RoutePort == [metrics |-> 8428, traces |-> 10428, logs |-> 9428, profiles |-> 7070]

\* What the CLI reads when the button is pressed.  The command line neither disables
\* port-forwarding nor names a namespace, so the URLs are replaced by the services of
\* the CLI's default namespace (run, SetupPortForward).
Reads == {[to |-> BackendOf[e], namespace |-> "observability", port |-> RoutePort[e]] :
              e \in DOMAIN BackendOf \ button.skip}

OtlpPort == [metrics |-> 8428, logs |-> 9428, traces |-> 4317]

\* The bug of the default namespace taking the place of the caller's.
OtlpOfDefaultNamespace ==
    {[to |-> s, namespace |-> "default", port |-> OtlpPort[s]] :
         s \in {t \in Signals : Get(cfg, t, TRUE)}}

\* The endpoints for the application containers.
Otlp ==
    {[to |-> s, namespace |-> Get(cfg, "namespace", "default"), port |-> OtlpPort[s]] :
         s \in {t \in Signals : Get(cfg, t, TRUE)}}

OtelEnv ==
    /\ Call("otel_env")
    /\ app' = Otlp
    /\ UNCHANGED <<load, stack, button>>

EndOfTiltfile ==
    /\ load = "running" /\ todo = {}
    /\ load' = "loaded"
    /\ UNCHANGED <<cfg, env, todo, stack, button, app>>

Next == EnableObservability \/ ExportTelemetry \/ OtelEnv \/ EndOfTiltfile

Spec == Init /\ [][Next]_vars

-----------------------------------------------------------------------------
(* Properties *)

\* Whatever mix of flags, components and overrides is accepted, Tilt can deploy it:
\* every resource it registers depends on registered resources only (StackDeploy).
Deployment == INSTANCE StackDeploy WITH
    Configs <- SUBSET Flags,
    MaxFaults <- 0,
    config <- stack.flags,
    tiltfile <- IF stack = Nothing THEN "unloaded" ELSE "loaded",
    status <- [r \in {} |-> "waiting"],
    succeeded <- {},
    cluster <- {},
    faults <- 0

AcceptedDeploys == Deployment!DepsRegistered

\* The export button and the stack of one load agree: the command line skips exactly
\* the backends that are not deployed and names every other one by the local port where
\* Tilt forwards it, however flags, components and ports were given and overridden.
ButtonMatchesStack ==
    stack # Nothing /\ button # Nothing =>
        \A e \in DOMAIN BackendOf :
            /\ e \notin button.skip <=> BackendOf[e] \in DOMAIN stack.forwards
            /\ e \notin button.skip => button.urls[e] = stack.forwards[BackendOf[e]]

\* "Environment variables take precedence over the config dict" (extension README):
\* the ports and the namespace of an accepted stack are those of the environment
\* where it sets them, and the dictionary's where only that does.
EnvironmentWins ==
    stack # Nothing =>
        /\ "namespace" \in DOMAIN env => stack.namespace = env.namespace
        /\ \A b \in DOMAIN stack.forwards :
               /\ b \in DOMAIN EnvPorts => stack.forwards[b] = EnvPorts[b]
               /\ b \in DOMAIN UserPorts \ DOMAIN EnvPorts => stack.forwards[b] = UserPorts[b]

\* The ports at which the backends' services listen (assets).
Serves == [metrics |-> {8428}, logs |-> {9428}, traces |-> {10428, 4317}, parca |-> {7070}]

\* Every endpoint is a port that a deployed backend of the stack serves.
Reached(endpoints) ==
    \A p \in endpoints :
        /\ p.to \in DOMAIN stack.forwards
        /\ p.namespace = stack.namespace
        /\ p.port \in Serves[p.to]

\* No object of an accepted stack is given the address of a backend that the same
\* configuration leaves out, or a port its service does not have: Grafana, vector,
\* vmagent, parca-agent and instrumented pods all find what they are pointed at.
LinksResolve == stack # Nothing => Reached(stack.links)

\* With flags and namespace at the top level of the dictionary, and the namespace not
\* overridden, every endpoint of otel_env is a deployed backend.
FlatConfigReaches ==
    /\ load = "loaded" /\ stack # Nothing
    /\ "namespace" \in DOMAIN cfg /\ "components" \notin DOMAIN cfg
    /\ "namespace" \notin DOMAIN env
    => Reached(app)

Signalling(endpoints) == {<<p.to, p.namespace>> : p \in endpoints}

\* Two ways lead an application to the stack: otel_env and the Instrumentation object.
\* A flat dictionary, its namespace not overridden, sends each signal of either to the
\* same service ("env vars match those returned by otel_env()"); the ports may differ.
FlatConfigInjectsTheSame ==
    /\ load = "loaded" /\ stack # Nothing /\ "otel" \in stack.flags /\ app # {}
    /\ "namespace" \in DOMAIN cfg /\ "components" \notin DOMAIN cfg
    /\ "namespace" \notin DOMAIN env
    => Signalling({l \in stack.links : l.from = "instrumentation"}) = Signalling(app)

\* "Pass the same config dict you gave to enable_observability() to keep namespace
\* and component settings consistent" (extension README).
SameDictionaryReaches == load = "loaded" /\ stack # Nothing => Reached(app)

\* The exporters of the button find every backend they are told to read, at the port
\* its service has, when the stack is in the namespace that the CLI assumes.  (In any
\* other the button reads another stack or none: it passes no namespace on.)
ButtonFindsDefaultStack ==
    /\ load = "loaded" /\ stack # Nothing /\ button # Nothing
    /\ stack.namespace = "observability"
    => Reached(Reads)

\* "Override ... via config or environment variable" (extension README,
\* Troubleshooting): setting a valid port in the environment fails no load.
PortOverridesWork ==
    load = "failed" =>
        \/ UnknownKey \/ UnmetComponent \/ UnmetDependency
        \/ Namespace \notin ValidNamespaces \/ PortOutOfRange

=============================================================================
