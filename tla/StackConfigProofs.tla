---------------------------- MODULE StackConfigProofs ----------------------------
(***************************************************************************)
(* Proofs of the properties of StackConfig, for every set of dictionaries  *)
(* and environments.                                                       *)
(***************************************************************************)
EXTENDS StackConfig, TLAPS

Registered == [flags |-> Enabled, namespace |-> Namespace, forwards |-> Forwards,
               links |-> Links]
\* The backends that a stack forwards.
EnabledBackends == {k \in Signals : Flag(k)} \cup {k \in {"parca"} : Flag("profiling")}
Command == [flags |-> Enabled, skip |-> Skipped, urls |-> Urls]

\* What the three functions leave behind is computed from one dictionary and one
\* environment, and only from a pair that passed validation.
Outcome ==
    /\ stack # Nothing => stack = Registered /\ ~Refused
    /\ button # Nothing => button = Command
    /\ app = {} \/ app = Otlp

-----------------------------------------------------------------------------
\* The dictionary and the environment stay, and with them all that is computed
\* from them.
LEMMA InputsStay ==
    ASSUME UNCHANGED <<cfg, env>>
    PROVE  /\ Registered' = Registered /\ Command' = Command
           /\ (Refused' <=> Refused) /\ Otlp' = Otlp
<1>1. cfg' = cfg /\ env' = env
  OBVIOUS
<1>2. Components' = Components /\ UserPorts' = UserPorts /\ EnvPorts' = EnvPorts
  BY <1>1 DEF Components, UserPorts, EnvPorts
<1>3. \A f : Flag(f)' = Flag(f)
  BY <1>1, <1>2 DEF Flag
<1>4. Ports' = Ports /\ Namespace' = Namespace
  BY <1>1, <1>2 DEF Ports, AllPorts, Namespace
<1>5. Enabled' = Enabled /\ Forwards' = Forwards /\ Skipped' = Skipped /\ Urls' = Urls
  BY <1>3, <1>4 DEF Enabled, Forwards, Skipped, Urls
<1>6. Refused' <=> Refused
  <2>1. UnknownKey' <=> UnknownKey
    BY <1>1, <1>2 DEF UnknownKey
  <2>2. UnmetComponent' <=> UnmetComponent
    BY <1>2, <1>3 DEF UnmetComponent
  <2>3. UnmetDependency' <=> UnmetDependency
    BY <1>3 DEF UnmetDependency
  <2>4. WritesFrozenPorts' <=> WritesFrozenPorts
    BY <1>1, <1>2 DEF WritesFrozenPorts
  <2>5. PortOutOfRange' <=> PortOutOfRange
    BY <1>2, <1>4 DEF PortOutOfRange, AllPorts
  <2>6. QED
    BY <1>4, <2>1, <2>2, <2>3, <2>4, <2>5 DEF Refused
<1>7. Otlp' = Otlp
  BY <1>1 DEF Otlp
<1>8. Links' = Links
  <2>1. EnabledSignals' = EnabledSignals /\ DefaultBackend' = DefaultBackend
    BY <1>3, <1>5 DEF EnabledSignals, DefaultBackend
  <2>2. \A o : Generated(o)' <=> Generated(o)
    BY <1>3 DEF Generated
  <2>3. \A o, b, n : Link(o, b, n)' = Link(o, b, n)
    BY <1>4 DEF Link
  <2>4. \A o : ToSignals(o)' = ToSignals(o)
    BY <2>1, <2>3 DEF ToSignals
  <2>5. QED
    BY <2>1, <2>2, <2>3, <2>4 DEF Links
<1>9. QED
  BY <1>4, <1>5, <1>6, <1>7, <1>8 DEF Registered, Command

LEMMA OutcomeHolds == Spec => []Outcome
<1>1. Init => Outcome
  BY DEF Init, Outcome
<1>2. Outcome /\ [Next]_vars => Outcome'
  <2> SUFFICES ASSUME Outcome, [Next]_vars
               PROVE  Outcome'
    OBVIOUS
  <2>1. UNCHANGED <<cfg, env>>
    BY DEF Next, vars, EnableObservability, ExportTelemetry, OtelEnv, EndOfTiltfile, Call
  <2>2. /\ Registered' = Registered /\ Command' = Command
        /\ (Refused' <=> Refused) /\ Otlp' = Otlp
    BY <2>1, InputsStay
  <2>3. Nothing' = Nothing
    BY DEF Nothing
  <2>4. CASE EnableObservability
    BY <2>2, <2>3, <2>4 DEF EnableObservability, Fail, Outcome, Registered
  <2>5. CASE ExportTelemetry
    BY <2>2, <2>3, <2>5 DEF ExportTelemetry, Fail, Outcome, Command
  <2>6. CASE OtelEnv
    BY <2>2, <2>3, <2>6 DEF OtelEnv, Outcome
  <2>7. CASE EndOfTiltfile \/ UNCHANGED vars
    BY <2>2, <2>3, <2>7 DEF EndOfTiltfile, vars, Outcome
  <2>8. QED
    BY <2>4, <2>5, <2>6, <2>7 DEF Next
<1>3. QED
  BY <1>1, <1>2, PTL DEF Spec

-----------------------------------------------------------------------------
\* The export button skips exactly what is not deployed and finds the rest where
\* Tilt forwards it.
THEOREM ButtonAgrees == Spec => []ButtonMatchesStack
<1>1. Outcome => ButtonMatchesStack
  <2> SUFFICES ASSUME Outcome, stack # Nothing, button # Nothing, NEW e \in DOMAIN BackendOf
               PROVE  /\ e \notin button.skip <=> BackendOf[e] \in DOMAIN stack.forwards
                      /\ e \notin button.skip =>
                             button.urls[e] = stack.forwards[BackendOf[e]]
    BY DEF ButtonMatchesStack
  <2>1. stack.forwards = Forwards /\ button.skip = Skipped /\ button.urls = Urls
    BY DEF Outcome, Registered, Command
  <2>2. e \notin Skipped <=> BackendOf[e] \in DOMAIN Forwards
    BY DEF BackendOf, Skipped, Forwards, Signals
  <2>3. BackendOf[e] \in DOMAIN Forwards => Urls[e] = Forwards[BackendOf[e]]
    BY DEF Urls, Forwards
  <2>4. QED
    BY <2>1, <2>2, <2>3
<1>2. QED
  BY <1>1, OutcomeHolds, PTL

\* What validation accepts, Tilt can deploy: no resource waits for one that is not
\* registered.
THEOREM AcceptedIsDeployable == Spec => []AcceptedDeploys
<1>1. Outcome => AcceptedDeploys
  <2> SUFFICES ASSUME Outcome, stack # Nothing, NEW r \in Deployment!Registered
               PROVE  Deployment!Deps(r) \subseteq Deployment!Registered
    BY DEF AcceptedDeploys, Deployment!DepsRegistered
  <2>1. stack.flags = Enabled /\ ~UnmetDependency
    <3>1. stack = Registered /\ ~Refused
      BY DEF Outcome
    <3>2. stack.flags = Enabled
      BY <3>1 DEF Registered
    <3>3. ~UnmetDependency
      BY <3>1 DEF Refused
    <3>4. QED
      BY <3>2, <3>3
  <2>2. Deployment!Valid
    BY <2>1 DEF Deployment!Valid, Deployment!On, UnmetDependency, Enabled, Flags, Signals
  <2>3. Deployment!EnabledBackends \cup {"namespace"} \subseteq Deployment!Registered
    BY DEF Deployment!Registered
  <2>4. CASE r \in Deployment!GrafanaResources
    <3>1. Deployment!GrafanaResources \subseteq Deployment!Registered
      <4>1. Deployment!EnabledBackends # {}
        <5> SUFFICES ASSUME Deployment!EnabledBackends = {} PROVE FALSE
          OBVIOUS
        <5>1. QED
          BY <2>4 DEF Deployment!Registered, Deployment!GrafanaResources
      <4>2. QED
        BY <4>1 DEF Deployment!Registered
    <3>2. Deployment!Deps(r) \subseteq
              Deployment!EnabledBackends \cup {"namespace"} \cup Deployment!GrafanaResources
      <4>1. r \notin Deployment!Backends \cup {"Parca", "otel-operator-helm"}
        BY <2>4 DEF Deployment!GrafanaResources, Deployment!Backends
      <4>2. CASE r = "grafana-operator-helm"
        BY <4>1, <4>2 DEF Deployment!Deps, Deployment!HelmDeps, Deployment!GrafanaResources
      <4>3. CASE r = "grafana-cr-apply"
        BY <4>1, <4>3 DEF Deployment!Deps, Deployment!GrafanaCRDeps,
                          Deployment!GrafanaResources
      <4>4. CASE r \notin {"grafana-operator-helm", "grafana-cr-apply"}
        BY <2>4, <4>1, <4>4 DEF Deployment!Deps, Deployment!GrafanaResources
      <4>5. QED
        BY <4>2, <4>3, <4>4
    <3>3. QED
      BY <2>3, <3>1, <3>2
  <2>5. CASE r \notin Deployment!GrafanaResources
    <3> USE DEF Deployment!Registered, Deployment!GrafanaResources,
                Deployment!EnabledBackends, Deployment!Backends, Deployment!On
    <3>1. r = "VMAgent" => "VictoriaMetrics" \in Deployment!EnabledBackends
      BY <2>2 DEF Deployment!Valid
    <3>2. r = "Vector" => "VictoriaLogs" \in Deployment!EnabledBackends
      OBVIOUS
    <3>3. r = "Parca Agent" => "Parca" \in Deployment!Registered
      OBVIOUS
    <3>4. r = "otel-instrumentation" => "otel-operator-helm" \in Deployment!Registered
      OBVIOUS
    <3> HIDE DEF Deployment!Registered, Deployment!EnabledBackends, Deployment!Backends,
                 Deployment!On
    <3>5. QED
      BY <2>3, <2>5, <3>1, <3>2, <3>3, <3>4 DEF Deployment!Deps
  <2>6. QED
    BY <2>4, <2>5
<1>2. QED
  BY <1>1, OutcomeHolds, PTL

\* The environment wins over the dictionary, the dictionary over the defaults.
THEOREM Precedence == Spec => []EnvironmentWins
<1>1. Outcome => EnvironmentWins
  <2> SUFFICES ASSUME Outcome, stack # Nothing
               PROVE  EnvironmentWins
    BY DEF EnvironmentWins
  <2>1. stack.forwards = Forwards /\ stack.namespace = Namespace
    BY DEF Outcome, Registered
  <2>2. "namespace" \in DOMAIN env => Namespace = env.namespace
    BY DEF Namespace, Get
  <2>3. ASSUME NEW b \in DOMAIN Forwards
        PROVE  /\ b \in DOMAIN EnvPorts => Forwards[b] = EnvPorts[b]
               /\ b \in DOMAIN UserPorts \ DOMAIN EnvPorts => Forwards[b] = UserPorts[b]
    <3>1. Forwards[b] = Ports[b]
      BY DEF Forwards
    <3>2. \A k \in AllPorts : Ports[k] = Get(EnvPorts, k, Get(UserPorts, k, DefaultPorts[k]))
      BY DEF Ports
    <3>3. QED
      BY <3>1, <3>2 DEF AllPorts, Get
  <2>4. QED
    BY <2>1, <2>2, <2>3 DEF EnvironmentWins
<1>2. QED
  BY <1>1, OutcomeHolds, PTL

\* A dictionary with its flags and namespace at the top level describes the same
\* stack to otel_env as to enable_observability.
THEOREM FlatConfigWorks == Spec => []FlatConfigReaches
<1>1. Outcome => FlatConfigReaches
  <2> SUFFICES ASSUME Outcome, stack # Nothing, "namespace" \in DOMAIN cfg,
                      "components" \notin DOMAIN cfg, "namespace" \notin DOMAIN env,
                      NEW p \in app
               PROVE  /\ p.to \in DOMAIN stack.forwards
                      /\ p.namespace = stack.namespace
                      /\ p.port \in Serves[p.to]
    BY DEF FlatConfigReaches, Reached
  <2>1. stack.forwards = Forwards /\ stack.namespace = Namespace /\ p \in Otlp
    BY DEF Outcome, Registered
  <2>2. PICK s \in Signals : /\ Get(cfg, s, TRUE)
                             /\ p = [to |-> s, namespace |-> Get(cfg, "namespace", "default"),
                                     port |-> OtlpPort[s]]
    BY <2>1 DEF Otlp
  <2>3. Flag(s) <=> Get(cfg, s, TRUE)
    BY DEF Flag, Components, Get, Empty, ComponentOf, DefaultConfig, Signals, Flags
  <2>4. p.to = s /\ p.port = OtlpPort[s] /\ OtlpPort[s] \in Serves[s]
    BY <2>2 DEF OtlpPort, Serves, Signals
  <2>5. QED
    BY <2>1, <2>2, <2>3, <2>4 DEF Forwards, Namespace, Get
<1>2. QED
  BY <1>1, OutcomeHolds, PTL

\* What the objects of an accepted stack are pointed at is there.
THEOREM AddressesResolve == Spec => []LinksResolve
<1>1. Outcome => LinksResolve
  <2> SUFFICES ASSUME Outcome, stack # Nothing, NEW l \in stack.links
               PROVE  /\ l.to \in DOMAIN stack.forwards
                      /\ l.namespace = stack.namespace
                      /\ l.port \in Serves[l.to]
    BY DEF LinksResolve, Reached
  <2>1. stack = Registered /\ ~Refused
    BY DEF Outcome
  <2>2. /\ stack.forwards = Forwards /\ stack.namespace = Namespace /\ l \in Links
    BY <2>1 DEF Registered
  <2>3. ~UnmetDependency
    BY <2>1 DEF Refused
  <2>4. DOMAIN Forwards = EnabledBackends
    BY DEF Forwards, EnabledBackends
  <2>5. CASE l \in ToSignals("grafana") \cup ToSignals("instrumentation")
    <3>1. PICK o \in {"grafana", "instrumentation"}, s \in EnabledSignals :
              l = Link(o, s, SignalPort[s])
      BY <2>5 DEF ToSignals
    <3>2. l.to = s /\ l.namespace = Namespace /\ l.port = SignalPort[s]
      BY <3>1 DEF Link
    <3>3. s \in Signals /\ Flag(s)
      BY DEF EnabledSignals, Enabled
    <3>4. SignalPort[s] \in Serves[s] /\ s \in EnabledBackends
      BY <3>3 DEF SignalPort, Serves, Signals, EnabledBackends
    <3>5. QED
      BY <2>2, <2>4, <3>2, <3>4
  <2>6. CASE l = Link("exporter", DefaultBackend, Get(SignalPort, DefaultBackend, 0))
    <3>1. /\ l.from = "exporter" /\ l.to = DefaultBackend /\ l.namespace = Namespace
          /\ l.port = Get(SignalPort, DefaultBackend, 0)
      BY <2>6 DEF Link
    <3>2. Flag("otel")
      BY <2>2, <3>1 DEF Links, Generated
    <3>3. Flag("metrics") \/ Flag("logs") \/ Flag("traces")
      BY <2>3, <3>2 DEF UnmetDependency, Signals
    <3>4. DefaultBackend \in Signals /\ Flag(DefaultBackend)
      BY <3>3 DEF DefaultBackend, Signals
    <3>5. /\ Get(SignalPort, DefaultBackend, 0) \in Serves[DefaultBackend]
          /\ DefaultBackend \in EnabledBackends
      BY <3>4 DEF Get, SignalPort, Serves, Signals, EnabledBackends
    <3>6. QED
      BY <2>2, <2>4, <3>1, <3>5
  <2>7. CASE l = Link("vector", "logs", 9428)
    <3>1. /\ l.from = "vector" /\ l.to = "logs" /\ l.namespace = Namespace
          /\ l.port = 9428
      BY <2>7 DEF Link
    <3>2. Flag("logs")
      BY <2>2, <3>1 DEF Links, Generated
    <3>3. QED
      BY <2>2, <2>4, <3>1, <3>2 DEF Serves, Signals, EnabledBackends
  <2>8. CASE l = Link("vmagent", "metrics", 8428)
    <3>1. /\ l.from = "vmagent" /\ l.to = "metrics" /\ l.namespace = Namespace
          /\ l.port = 8428
      BY <2>8 DEF Link
    <3>2. Flag("metrics")
      BY <2>2, <2>3, <3>1 DEF Links, Generated, UnmetDependency
    <3>3. QED
      BY <2>2, <2>4, <3>1, <3>2 DEF Serves, Signals, EnabledBackends
  <2>9. CASE l = Link("parca-agent", "parca", 7070)
    <3>1. /\ l.from = "parca-agent" /\ l.to = "parca" /\ l.namespace = Namespace
          /\ l.port = 7070
      BY <2>9 DEF Link
    <3>2. Flag("profiling")
      BY <2>2, <3>1 DEF Links, Generated
    <3>3. QED
      BY <2>2, <2>4, <3>1, <3>2 DEF Serves, Signals, EnabledBackends
  <2>10. QED
    BY <2>2, <2>5, <2>6, <2>7, <2>8, <2>9 DEF Links
<1>2. QED
  BY <1>1, OutcomeHolds, PTL

\* otel_env and the Instrumentation object lead a signal to the same service.
THEOREM InjectionAgrees == Spec => []FlatConfigInjectsTheSame
<1>1. Outcome => FlatConfigInjectsTheSame
  <2> SUFFICES ASSUME Outcome, stack # Nothing, "otel" \in stack.flags, app # {},
                      "namespace" \in DOMAIN cfg, "components" \notin DOMAIN cfg,
                      "namespace" \notin DOMAIN env
               PROVE  Signalling({l \in stack.links : l.from = "instrumentation"})
                          = Signalling(app)
    BY DEF FlatConfigInjectsTheSame
  <2>1. stack.links = Links /\ stack.flags = Enabled /\ app = Otlp
    BY DEF Outcome, Registered
  <2>2. Flag("otel")
    BY <2>1 DEF Enabled
  <2>3. \A s \in Signals : Flag(s) <=> Get(cfg, s, TRUE)
    BY DEF Flag, Components, Get, Empty, ComponentOf, DefaultConfig, Signals, Flags
  <2>4. EnabledSignals = {s \in Signals : Get(cfg, s, TRUE)}
    BY <2>3 DEF EnabledSignals, Enabled, Signals, Flags
  <2>5. Namespace = Get(cfg, "namespace", "default")
    BY DEF Namespace, Get
  <2>6. {l \in Links : l.from = "instrumentation"} = ToSignals("instrumentation")
    BY <2>2 DEF Links, ToSignals, Link, Generated
  <2>7. Signalling(ToSignals("instrumentation")) = {<<s, Namespace>> : s \in EnabledSignals}
    <3> DEFINE End(s) == Link("instrumentation", s, SignalPort[s])
    <3>1. \A s : <<End(s).to, End(s).namespace>> = <<s, Namespace>>
      BY DEF Link
    <3>2. Signalling(ToSignals("instrumentation"))
              = {<<End(s).to, End(s).namespace>> : s \in EnabledSignals}
      BY Zenon DEF Signalling, ToSignals
    <3>3. QED
      BY <3>1, <3>2
  <2>8. Signalling(Otlp) = {<<s, Namespace>> : s \in EnabledSignals}
    <3> DEFINE End(s) == [to |-> s, namespace |-> Get(cfg, "namespace", "default"),
                          port |-> OtlpPort[s]]
    <3>1. \A s : <<End(s).to, End(s).namespace>> = <<s, Namespace>>
      BY <2>5
    <3>2. Otlp = {End(s) : s \in EnabledSignals}
      BY <2>4 DEF Otlp
    <3>3. Signalling(Otlp) = {<<End(s).to, End(s).namespace>> : s \in EnabledSignals}
      BY <3>2, Zenon DEF Signalling
    <3>4. QED
      BY <3>1, <3>3
  <2>9. QED
    BY <2>1, <2>6, <2>7, <2>8
<1>2. QED
  BY <1>1, OutcomeHolds, PTL

\* The button finds the stack of the namespace the CLI assumes.
THEOREM ButtonFinds == Spec => []ButtonFindsDefaultStack
<1>1. Outcome => ButtonFindsDefaultStack
  <2> SUFFICES ASSUME Outcome, stack # Nothing, button # Nothing,
                      stack.namespace = "observability", NEW p \in Reads
               PROVE  /\ p.to \in DOMAIN stack.forwards
                      /\ p.namespace = stack.namespace
                      /\ p.port \in Serves[p.to]
    BY DEF ButtonFindsDefaultStack, Reached
  <2>1. stack.forwards = Forwards /\ button.skip = Skipped
    BY DEF Outcome, Registered, Command
  <2>2. PICK e \in DOMAIN BackendOf \ Skipped :
            p = [to |-> BackendOf[e], namespace |-> "observability", port |-> RoutePort[e]]
    BY <2>1 DEF Reads
  <2>3. BackendOf[e] \in DOMAIN Forwards /\ RoutePort[e] \in Serves[BackendOf[e]]
    BY DEF BackendOf, Skipped, Forwards, Signals, RoutePort, Serves
  <2>4. QED
    BY <2>1, <2>2, <2>3
<1>2. QED
  BY <1>1, OutcomeHolds, PTL

=============================================================================
