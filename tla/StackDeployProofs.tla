---------------------------- MODULE StackDeployProofs ----------------------------
(***************************************************************************)
(* Proofs of the safety properties of StackDeploy, for every set of        *)
(* configurations and every number of failures.                            *)
(***************************************************************************)
EXTENDS StackDeploy, TLAPS

\* The dependencies of what runs, or has succeeded, have succeeded.
DepsFirst ==
    \A r \in Resource : status[r] = "running" \/ r \in succeeded => Deps(r) \subseteq succeeded

\* A resource that has succeeded found what it waited for and left what it
\* creates; nothing else creates the Grafana objects.
EffectsStay ==
    /\ \A r \in succeeded : Awaits(r) \cup Creates(r) \subseteq cluster
    /\ "grafana-cr" \in cluster => "grafana-cr-apply" \in succeeded
    /\ "datasources" \in cluster => "grafana-datasources-apply" \in succeeded

LoadedIsValid == tiltfile = "loaded" => Valid

ReadyHasSucceeded == \A r \in Resource : status[r] = "ready" => r \in succeeded

IInv == TypeOK /\ DepsFirst /\ EffectsStay /\ LoadedIsValid /\ ReadyHasSucceeded

-----------------------------------------------------------------------------
LEMMA CreatesFacts == \A r \in Resource : Creates(r) \subseteq Fact
  BY DEF Creates, Fact, Resource, Backends

LEMMA InitEstablishes == Init => IInv
  BY MaxFaultsAssumption
     DEF Init, IInv, TypeOK, DepsFirst, EffectsStay, LoadedIsValid, ReadyHasSucceeded

\* The configuration never changes, so neither do the operators defined from it.
LEMMA ConfigStays == ASSUME UNCHANGED config
                     PROVE  /\ \A r \in Resource : Deps(r)' = Deps(r)
                            /\ Valid' = Valid
  BY DEF Deps, HelmDeps, GrafanaCRDeps, EnabledBackends, Valid, On, Backends

\* Every step preserves the invariant.
LEMMA StepPreserves == IInv /\ [Next]_vars => IInv'
<1> SUFFICES ASSUME IInv, [Next]_vars
             PROVE  IInv'
  OBVIOUS
<1> USE DEF IInv
<1>0. UNCHANGED config
  BY DEF Next, vars, EnableObservability, Start, Succeed, Reject, Fault, Retrigger,
         Controllers, Reconcile, Pending
<1>d. (\A r \in Resource : Deps(r)' = Deps(r)) /\ (Valid' = Valid)
  BY <1>0, ConfigStays
<1>1. CASE EnableObservability
  BY <1>1, <1>d DEF EnableObservability, TypeOK, DepsFirst, EffectsStay, LoadedIsValid, ReadyHasSucceeded
<1>2. ASSUME NEW r \in Resource, Start(r)
      PROVE  IInv'
  BY <1>2, <1>d DEF Start, TypeOK, DepsFirst, EffectsStay, LoadedIsValid, ReadyHasSucceeded
<1>3. ASSUME NEW r \in Resource, Succeed(r)
      PROVE  IInv'
  <2>1. TypeOK'
    BY <1>3, CreatesFacts DEF Succeed, TypeOK
  <2>2. DepsFirst'
    BY <1>3, <1>d DEF Succeed, TypeOK, DepsFirst
  <2>3. EffectsStay'
    <3>1. \A q \in succeeded' : Awaits(q) \cup Creates(q) \subseteq cluster'
      BY <1>3 DEF Succeed, EffectsStay
    <3>2. ("grafana-cr" \in Creates(r) => r = "grafana-cr-apply")
          /\ ("datasources" \in Creates(r) => r = "grafana-datasources-apply")
      BY DEF Creates, Resource, Backends
    <3>3. QED
      BY <1>3, <3>1, <3>2 DEF Succeed, EffectsStay
  <2>4. LoadedIsValid'
    BY <1>3, <1>d DEF Succeed, LoadedIsValid
  <2>5. ReadyHasSucceeded'
    BY <1>3 DEF Succeed, TypeOK, ReadyHasSucceeded
  <2>6. QED
    BY <2>1, <2>2, <2>3, <2>4, <2>5
<1>4. ASSUME NEW r \in Resource, Reject(r) \/ Retrigger(r)
      PROVE  IInv'
  BY <1>4, <1>d DEF Reject, Retrigger, TypeOK, DepsFirst, EffectsStay, LoadedIsValid, ReadyHasSucceeded
<1>5. ASSUME NEW r \in Resource, Fault(r)
      PROVE  IInv'
  <2>1. TypeOK'
    BY <1>5, MaxFaultsAssumption DEF Fault, TypeOK
  <2>2. DepsFirst' /\ EffectsStay' /\ LoadedIsValid' /\ ReadyHasSucceeded'
    BY <1>5, <1>d DEF Fault, TypeOK, DepsFirst, EffectsStay, LoadedIsValid, ReadyHasSucceeded
  <2>3. QED
    BY <2>1, <2>2
<1>6. CASE Controllers
  <2>1. PICK fact \in {"grafana-operator-up", "grafana", "grafana-up"} :
            cluster' = cluster \cup {fact}
            /\ UNCHANGED <<config, tiltfile, status, succeeded, faults>>
    BY <1>6 DEF Controllers, Reconcile, Pending, Pending
  <2>2. TypeOK'
    BY <2>1 DEF TypeOK, Fact
  <2>3. DepsFirst' /\ EffectsStay' /\ LoadedIsValid' /\ ReadyHasSucceeded'
    BY <2>1, <1>d DEF DepsFirst, EffectsStay, LoadedIsValid, ReadyHasSucceeded
  <2>4. QED
    BY <2>2, <2>3
<1>7. CASE UNCHANGED vars
  BY <1>7, <1>d DEF vars, TypeOK, DepsFirst, EffectsStay, LoadedIsValid, ReadyHasSucceeded
<1>8. QED
  BY <1>1, <1>2, <1>3, <1>4, <1>5, <1>6, <1>7 DEF Next

LEMMA Inductive == Spec => []IInv
<1>1. Init => IInv
  BY InitEstablishes
<1>2. IInv /\ [Next]_vars => IInv'
  BY StepPreserves
<1>3. QED
  BY <1>1, <1>2, PTL DEF Spec

\* The chain that the order of the deployment rests on: what runs or has run
\* behind the namespace, directly or through a backend or Parca, finds it.
LEMMA NamespaceChain ==
    ASSUME IInv,
           NEW r \in Resource \ {"namespace", "uncategorized", "grafana-operator-crds",
                                 "prometheus-operator-crds"},
           status[r] = "running" \/ r \in succeeded
    PROVE  "namespace" \in cluster
<1> USE DEF IInv
<1>1. Deps(r) \subseteq succeeded
  BY DEF DepsFirst
<1>2. \A q \in {"namespace", "Parca", "VictoriaMetrics", "VictoriaLogs", "VictoriaTraces",
                "grafana-operator-helm", "otel-operator-helm"} :
          q \in succeeded => "namespace" \in cluster
  <2>1. "namespace" \in succeeded => "namespace" \in cluster
    BY DEF EffectsStay, Creates, Backends
  <2>2. \A q \in {"Parca", "VictoriaMetrics", "VictoriaLogs", "VictoriaTraces",
                  "grafana-operator-helm", "otel-operator-helm"} :
            "namespace" \in Deps(q)
    BY DEF Deps, HelmDeps, Backends
  <2>3. QED
    BY <2>1, <2>2 DEF DepsFirst, TypeOK
<1>3. "grafana-operator-ready" \in succeeded => "namespace" \in cluster
  BY <1>2 DEF DepsFirst, TypeOK, Deps, Backends
<1>4. "grafana-cr-apply" \in succeeded => "namespace" \in cluster
  BY <1>3 DEF DepsFirst, TypeOK, Deps, GrafanaCRDeps, Backends
<1>5. \E q \in Deps(r) : q \in {"namespace", "Parca", "VictoriaMetrics", "VictoriaLogs",
                "VictoriaTraces", "grafana-operator-helm", "otel-operator-helm",
                "grafana-operator-ready", "grafana-cr-apply"}
  BY DEF Deps, HelmDeps, GrafanaCRDeps, Resource, Backends
<1>6. QED
  BY <1>1, <1>2, <1>3, <1>4, <1>5

\* Behind the Grafana operator's readiness there are its CRDs.
LEMMA OperatorChain ==
    ASSUME IInv, "grafana-operator-ready" \in succeeded
    PROVE  {"grafana-crds", "grafana-operator-up"} \subseteq cluster
<1>1. "grafana-operator-helm" \in succeeded
  BY DEF IInv, DepsFirst, TypeOK, Deps, Backends
<1>2. "grafana-operator-crds" \in succeeded
  BY <1>1 DEF IInv, DepsFirst, TypeOK, Deps, HelmDeps, Backends
<1>3. QED
  BY <1>2 DEF IInv, EffectsStay, Creates, Awaits, Backends

\* Every command that the extension orders runs after the namespace, the CRDs and
\* the operators it needs, for every configuration.
THEOREM CommandsInOrder == Spec => []NothingRunsTooEarly
<1>1. IInv => NothingRunsTooEarly
  <2> SUFFICES ASSUME IInv, NEW r \in Resource \ Unordered, status[r] = "running"
               PROVE  Requires(r) \subseteq cluster
    BY DEF NothingRunsTooEarly
  <2>1. Deps(r) \subseteq succeeded
    BY DEF IInv, DepsFirst
  <2>2. "namespace" \in Requires(r) => "namespace" \in cluster
    BY NamespaceChain DEF Requires, Unordered, Resource, Backends
  <2>3. "grafana-operator" \in Requires(r) => "grafana-operator" \in cluster
    BY <2>1 DEF IInv, EffectsStay, Requires, Deps, Creates, Resource, Backends
  <2>4. "grafana-crds" \in Requires(r) => "grafana-crds" \in cluster
    BY <2>1, OperatorChain DEF Requires, Deps, GrafanaCRDeps, Resource, Backends
  <2>5. "otel-operator" \in Requires(r) => "otel-operator" \in cluster
    BY <2>1 DEF IInv, EffectsStay, Requires, Deps, Creates, Resource, Backends
  <2>6. Requires(r) \subseteq {"namespace", "grafana-operator", "grafana-crds", "otel-operator"}
    BY DEF Requires, Unordered, Resource, Backends
  <2>7. QED
    BY <2>2, <2>3, <2>4, <2>5, <2>6
<1>2. QED
  BY <1>1, Inductive, PTL

\* Grafana's objects are applied after the operator is available and every enabled
\* backend has been ready.
THEOREM GrafanaAfterBackends == Spec => []GrafanaIsLast
<1>1. IInv => GrafanaIsLast
  <2> SUFFICES ASSUME IInv
               PROVE  GrafanaIsLast
    OBVIOUS
  <2>1. "grafana-cr-apply" \in succeeded =>
            EnabledBackends \cup {"grafana-operator-ready"} \subseteq succeeded
    BY DEF IInv, DepsFirst, TypeOK, Deps, GrafanaCRDeps, Backends
  <2>2. "grafana-datasources-apply" \in succeeded => "grafana-cr" \in cluster
    <3>1. "grafana-datasources-apply" \in succeeded => "grafana-cr-apply" \in succeeded
      BY DEF IInv, DepsFirst, TypeOK, Deps, Backends
    <3>2. QED
      BY <3>1 DEF IInv, EffectsStay, Creates, Backends
  <2>3. QED
    BY <2>1, <2>2, OperatorChain DEF IInv, EffectsStay, GrafanaIsLast
<1>2. QED
  BY <1>1, Inductive, PTL

\* No valid configuration registers a resource that waits for one it does not register.
THEOREM NoDanglingDependency == Spec => []DepsRegistered
<1>1. IInv => DepsRegistered
  <2> SUFFICES ASSUME Valid, NEW r \in Registered
               PROVE  Deps(r) \subseteq Registered
    BY DEF IInv, LoadedIsValid, DepsRegistered
  <2>1. EnabledBackends \cup {"namespace"} \subseteq Registered
    BY DEF Registered
  <2>2. CASE r \in GrafanaResources
    <3>1. GrafanaResources \subseteq Registered
      <4>1. EnabledBackends # {}
        <5> SUFFICES ASSUME EnabledBackends = {} PROVE FALSE
          OBVIOUS
        <5>1. QED
          BY <2>2 DEF Registered, GrafanaResources
      <4>2. QED
        BY <4>1 DEF Registered
    <3>2. Deps(r) \subseteq EnabledBackends \cup {"namespace"} \cup GrafanaResources
      <4>1. r \notin Backends \cup {"Parca", "otel-operator-helm"}
        BY <2>2 DEF GrafanaResources, Backends
      <4>2. CASE r = "grafana-operator-helm"
        BY <4>1, <4>2 DEF Deps, HelmDeps, GrafanaResources
      <4>3. CASE r = "grafana-cr-apply"
        BY <4>1, <4>3 DEF Deps, GrafanaCRDeps, GrafanaResources
      <4>4. CASE r \notin {"grafana-operator-helm", "grafana-cr-apply"}
        BY <2>2, <4>1, <4>4 DEF Deps, GrafanaResources
      <4>5. QED
        BY <4>2, <4>3, <4>4
    <3>3. QED
      BY <2>1, <3>1, <3>2
  <2>3. CASE r \notin GrafanaResources
    <3>1. r = "VMAgent" => "VictoriaMetrics" \in EnabledBackends
      BY DEF Registered, GrafanaResources, EnabledBackends, Backends, Valid, On
    <3>2. r = "Vector" => "VictoriaLogs" \in EnabledBackends
      BY DEF Registered, GrafanaResources, EnabledBackends, Backends, On
    <3>3. r = "Parca Agent" => "Parca" \in Registered
      BY DEF Registered, GrafanaResources, EnabledBackends, Backends
    <3>4. r = "otel-instrumentation" => "otel-operator-helm" \in Registered
      BY DEF Registered, GrafanaResources, EnabledBackends, Backends
    <3>5. QED
      BY <2>1, <2>3, <3>1, <3>2, <3>3, <3>4 DEF Deps, GrafanaResources
  <2>4. QED
    BY <2>2, <2>3
<1>2. QED
  BY <1>1, Inductive, PTL

\* While nothing may proceed and nothing has failed, what has its dependencies and what it
\* needs has been ready.
Still ==
    /\ \A r \in Registered : status[r] # "failed" /\ ~ MayProceed(r)
    /\ ~ Pending({"grafana-operator"}, "grafana-operator-up")
    /\ ~ Pending({"grafana-cr", "grafana-operator-up"}, "grafana")
    /\ ~ Pending({"grafana"}, "grafana-up")

LEMMA StillSucceeds ==
    ASSUME IInv, Still, NEW r \in Registered, r \in Resource, Deps(r) \subseteq succeeded,
           Requires(r) \subseteq cluster => Awaits(r) \subseteq cluster
    PROVE  r \in succeeded /\ Creates(r) \subseteq cluster
<1>1. status[r] \notin {"failed", "waiting", "running"}
  BY DEF Still, MayProceed
<1>2. status[r] = "ready"
  BY <1>1 DEF IInv, TypeOK
<1>3. r \in succeeded
  BY <1>2 DEF IInv, ReadyHasSucceeded
<1>4. QED
  BY <1>3 DEF IInv, EffectsStay

\* No configuration that passes validation deadlocks: taken in the order of the steps below,
\* each registered resource finds its dependencies ready and what it waits for created.
THEOREM NoDeadlock == Spec => []NeverStuck
<1>1. ASSUME IInv, tiltfile = "loaded", Still PROVE Registered \subseteq succeeded
  <2>0. "namespace" \in Registered /\ Registered \subseteq Resource
    <3>1. "namespace" \in Registered
      BY DEF Registered
    <3>2. GrafanaResources \subseteq Resource /\ EnabledBackends \subseteq Resource
      BY DEF GrafanaResources, EnabledBackends, Resource
    <3>3. {"namespace", "uncategorized", "prometheus-operator-crds", "VMAgent", "Parca",
           "Parca Agent", "Vector", "otel-operator-helm", "otel-instrumentation"} \subseteq Resource
      BY DEF Resource
    <3>4. ASSUME NEW r \in Registered PROVE r \in Resource
      <4>1. \/ r \in GrafanaResources \/ r \in EnabledBackends
            \/ r \in {"namespace", "uncategorized", "prometheus-operator-crds", "VMAgent", "Parca",
                     "Parca Agent", "Vector", "otel-operator-helm", "otel-instrumentation"}
        BY Zenon DEF Registered
      <4>2. QED
        BY <3>2, <3>3, <4>1
    <3>5. QED
      BY <3>1, <3>4
  <2>1. "namespace" \in succeeded /\ "namespace" \in cluster
    <3>1. Deps("namespace") = {} /\ Awaits("namespace") = {} /\ Creates("namespace") = {"namespace"}
      BY DEF Deps, Awaits, Creates, Backends
    <3>2. QED
      BY <1>1, <2>0, <3>1, StillSucceeds
  <2>2. EnabledBackends \subseteq succeeded
    <3> SUFFICES ASSUME NEW b \in EnabledBackends PROVE b \in succeeded
      OBVIOUS
    <3>1. b \in Registered /\ b \in Resource
      BY <2>0 DEF Registered
    <3>2. Deps(b) = {"namespace"} /\ Awaits(b) = {}
      BY DEF EnabledBackends, Deps, Awaits, Backends
    <3>3. QED
      BY <1>1, <2>1, <3>1, <3>2, StillSucceeds
  <2>3. HasSupportObjects => "support" \in cluster
    <3> SUFFICES ASSUME HasSupportObjects PROVE "support" \in cluster
      OBVIOUS
    <3>1. "uncategorized" \in Registered /\ "uncategorized" \in Resource
      BY <2>0 DEF Registered
    <3>2. /\ Deps("uncategorized") = {} /\ Awaits("uncategorized") = {}
          /\ Creates("uncategorized") = {"support"}
      BY DEF Deps, Awaits, Creates, Backends
    <3>3. QED
      BY <1>1, <3>1, <3>2, StillSucceeds
  <2>4. EnabledBackends # {} => GrafanaResources \subseteq succeeded
    <3> SUFFICES ASSUME EnabledBackends # {} PROVE GrafanaResources \subseteq succeeded
      OBVIOUS
    <3>0. GrafanaResources \subseteq Registered /\ GrafanaResources \subseteq Resource
      BY <2>0 DEF Registered
    <3>1. "grafana-operator-crds" \in succeeded
      <4>1. /\ Deps("grafana-operator-crds") = {} /\ Awaits("grafana-operator-crds") = {}
            /\ "grafana-operator-crds" \in GrafanaResources
        BY DEF Deps, Awaits, Backends, GrafanaResources
      <4>2. QED
        BY <1>1, <3>0, <4>1, StillSucceeds
    <3>2. "grafana-operator-helm" \in succeeded /\ "grafana-operator" \in cluster
      <4>1. /\ Deps("grafana-operator-helm") = {"grafana-operator-crds", "namespace"}
            /\ Awaits("grafana-operator-helm") = {}
            /\ Creates("grafana-operator-helm") = {"grafana-operator"}
            /\ "grafana-operator-helm" \in GrafanaResources
        BY DEF Deps, HelmDeps, Awaits, Creates, Backends, GrafanaResources
      <4>2. QED
        BY <1>1, <2>1, <3>0, <3>1, <4>1, StillSucceeds
    <3>3. "grafana-operator-up" \in cluster
      BY <1>1, <3>2 DEF Still, Pending
    <3>4. "grafana-operator-ready" \in succeeded
      <4>1. /\ Deps("grafana-operator-ready") = {"grafana-operator-helm"}
            /\ Awaits("grafana-operator-ready") = {"grafana-operator-up"}
            /\ "grafana-operator-ready" \in GrafanaResources
        BY DEF Deps, Awaits, Backends, GrafanaResources
      <4>2. QED
        BY <1>1, <3>0, <3>2, <3>3, <4>1, StillSucceeds
    <3>5. "grafana-cr-apply" \in succeeded /\ "grafana-cr" \in cluster
      <4>1. /\ Deps("grafana-cr-apply") = EnabledBackends \cup {"grafana-operator-ready"}
            /\ Awaits("grafana-cr-apply") = {} /\ Creates("grafana-cr-apply") = {"grafana-cr"}
            /\ "grafana-cr-apply" \in GrafanaResources
        BY DEF Deps, GrafanaCRDeps, Awaits, Creates, Backends, GrafanaResources
      <4>2. QED
        BY <1>1, <2>2, <3>0, <3>4, <4>1, StillSucceeds
    <3>6. "grafana" \in cluster /\ "grafana-up" \in cluster
      BY <1>1, <3>3, <3>5 DEF Still, Pending
    <3>7. "grafana-port-forward" \in succeeded
      <4>1. /\ Deps("grafana-port-forward") = {"grafana-cr-apply"}
            /\ Awaits("grafana-port-forward") = {"grafana-up"}
            /\ "grafana-port-forward" \in GrafanaResources
        BY DEF Deps, Awaits, Backends, GrafanaResources
      <4>2. QED
        BY <1>1, <3>0, <3>5, <3>6, <4>1, StillSucceeds
    <3>8. "grafana-datasources-apply" \in succeeded
      <4>1. /\ Deps("grafana-datasources-apply") = {"grafana-cr-apply", "grafana-operator-ready"}
            /\ Awaits("grafana-datasources-apply") = {}
            /\ "grafana-datasources-apply" \in GrafanaResources
        BY DEF Deps, Awaits, Backends, GrafanaResources
      <4>2. QED
        BY <1>1, <3>0, <3>4, <3>5, <4>1, StillSucceeds
    <3>9. QED
      BY <3>1, <3>2, <3>4, <3>5, <3>7, <3>8 DEF GrafanaResources
  <2>5. \A r \in {"prometheus-operator-crds", "otel-operator-helm"} : r \in Registered => r \in succeeded
    <3>1. /\ Deps("prometheus-operator-crds") = {} /\ Awaits("prometheus-operator-crds") = {}
          /\ Deps("otel-operator-helm") = {"namespace"} /\ Awaits("otel-operator-helm") = {}
      BY DEF Deps, Awaits, Backends
    <3>2. QED
      BY <1>1, <2>0, <2>1, <3>1, StillSucceeds
  <2>6. \A r \in {"VMAgent", "Parca", "Vector", "Parca Agent", "otel-instrumentation"} :
            r \in Registered => r \in succeeded
    <3>1. "VMAgent" \in Registered =>
              /\ HasSupportObjects /\ "VictoriaMetrics" \in EnabledBackends
              /\ Deps("VMAgent") = {"namespace", "VictoriaMetrics"} /\ Awaits("VMAgent") = {"support"}
      BY <1>1 DEF IInv, LoadedIsValid, Valid, Registered, GrafanaResources, EnabledBackends,
                  HasSupportObjects, On, Deps, Awaits, Backends
    <3>2. "Parca" \in Registered =>
              HasSupportObjects /\ Deps("Parca") = {"namespace"} /\ Awaits("Parca") = {"support"}
      BY DEF Registered, GrafanaResources, EnabledBackends, HasSupportObjects, On, Deps, Awaits,
             Backends
    <3>3. "Vector" \in Registered =>
              /\ HasSupportObjects /\ "VictoriaLogs" \in EnabledBackends
              /\ Deps("Vector") = {"VictoriaLogs"} /\ Awaits("Vector") = {"support"}
      BY DEF Registered, GrafanaResources, EnabledBackends, HasSupportObjects, On, Deps, Awaits,
             Backends
    <3>4. "Parca Agent" \in Registered =>
              /\ HasSupportObjects /\ "Parca" \in Registered
              /\ Deps("Parca Agent") = {"Parca"} /\ Awaits("Parca Agent") = {"support"}
      BY DEF Registered, GrafanaResources, EnabledBackends, HasSupportObjects, On, Deps, Awaits,
             Backends
    <3>5. "otel-instrumentation" \in Registered =>
              /\ "otel-operator-helm" \in Registered
              /\ Deps("otel-instrumentation") = EnabledBackends \cup {"otel-operator-helm"}
              /\ Awaits("otel-instrumentation") = {}
      BY DEF Registered, GrafanaResources, EnabledBackends, Deps, Awaits, Backends
    <3>6. "VMAgent" \in Registered => "VMAgent" \in succeeded
      BY <1>1, <2>0, <2>1, <2>2, <2>3, <3>1, StillSucceeds
    <3>7. "Parca" \in Registered => "Parca" \in succeeded
      BY <1>1, <2>0, <2>1, <2>3, <3>2, StillSucceeds
    <3>8. "Vector" \in Registered => "Vector" \in succeeded
      BY <1>1, <2>0, <2>2, <2>3, <3>3, StillSucceeds
    <3>9. "Parca Agent" \in Registered => "Parca Agent" \in succeeded
      BY <1>1, <2>0, <2>3, <3>4, <3>7, StillSucceeds
    <3>10. "otel-instrumentation" \in Registered => "otel-instrumentation" \in succeeded
      BY <1>1, <2>0, <2>2, <2>5, <3>5, StillSucceeds
    <3>11. QED
      BY <3>6, <3>7, <3>8, <3>9, <3>10
  <2>7. "uncategorized" \in Registered => "uncategorized" \in succeeded
    <3>1. Deps("uncategorized") = {} /\ Awaits("uncategorized") = {}
      BY DEF Deps, Awaits, Backends
    <3>2. QED
      BY <1>1, <2>0, <3>1, StillSucceeds
  <2>8. QED
    <3> SUFFICES ASSUME NEW r \in Registered PROVE r \in succeeded
      OBVIOUS
    <3>1. \/ r \in EnabledBackends
          \/ EnabledBackends # {} /\ r \in GrafanaResources
          \/ r \in {"namespace", "uncategorized"}
          \/ r \in {"prometheus-operator-crds", "otel-operator-helm"}
          \/ r \in {"VMAgent", "Parca", "Vector", "Parca Agent", "otel-instrumentation"}
      BY DEF Registered
    <3>2. QED
      BY <2>1, <2>2, <2>4, <2>5, <2>6, <2>7, <3>1
<1>2. IInv => NeverStuck
  BY <1>1 DEF NeverStuck, Still
<1>3. QED
  BY <1>2, Inductive, PTL

=============================================================================
