------------------------------- MODULE StackDeploy -------------------------------
(***************************************************************************)
(* The deployment that enable_observability() (extension.star) sets up:    *)
(* which Tilt resources a configuration registers, in which order their    *)
(* resource_deps let them run, and what their commands find in the cluster *)
(* when they do.  The registered graph is the extension's own; Tilt's      *)
(* scheduler and the cluster are external and modelled from how the        *)
(* extension uses them: a resource first runs once each of its             *)
(* dependencies has succeeded, kubectl fails at once on a namespace, kind  *)
(* or object that does not exist, and the cluster's controllers act some   *)
(* time after an object is applied.                                        *)
(***************************************************************************)
EXTENDS Naturals, FiniteSets

CONSTANTS
    Configs,    \* the configurations considered: each the set of its True flags
    MaxFaults   \* bound on outside failures (downloads, image pulls, wait timeouts)

Flags == {"metrics", "logs", "traces", "prometheus_metrics", "otel",
          "profiling", "parca_agent"}

ASSUME ConfigsAssumption == Configs \subseteq SUBSET Flags
ASSUME MaxFaultsAssumption == MaxFaults \in Nat

Backends == {"VictoriaMetrics", "VictoriaLogs", "VictoriaTraces"}

\* The Tilt resources.  "uncategorized" is where Tilt puts the objects of k8s_yaml
\* that no k8s_resource claims: here the ServiceAccounts, RBAC rules and ConfigMaps.
Resource == Backends \cup
    {"namespace", "uncategorized",
     "grafana-operator-crds", "grafana-operator-helm", "grafana-operator-ready",
     "grafana-cr-apply", "grafana-port-forward", "grafana-datasources-apply",
     "prometheus-operator-crds", "VMAgent", "Parca", "Parca Agent", "Vector",
     "otel-operator-helm", "otel-instrumentation"}

\* What commands and pods look for in the cluster; an "...-up" fact is a
\* condition a controller reports later than the object it is about.
Fact == {"namespace", "support", "grafana-crds", "grafana-operator",
         "grafana-operator-up", "grafana-cr", "grafana", "grafana-up",
         "datasources", "otel-operator", "instrumentation"}

VARIABLES
    config,     \* the True flags of the merged configuration
    tiltfile,   \* "unloaded", "invalid" (fail()), "noop" or "loaded"
    status,     \* per resource: "waiting", "running", "ready" or "failed"
    succeeded,  \* the resources that have been ready at least once
    cluster,    \* the facts that hold in the cluster
    faults      \* outside failures so far

vars == <<config, tiltfile, status, succeeded, cluster, faults>>

On(flag) == flag \in config

-----------------------------------------------------------------------------
(* What the Tiltfile registers *)

\* The two dependency checks of _validate_config.
Valid ==
    /\ On("prometheus_metrics") => On("metrics")
    /\ On("otel") => \E f \in {"metrics", "logs", "traces"} : On(f)

Noop == config \subseteq {"parca_agent"}

EnabledBackends ==
    {b \in Backends : \/ b = "VictoriaMetrics" /\ On("metrics")
                      \/ b = "VictoriaLogs" /\ On("logs")
                      \/ b = "VictoriaTraces" /\ On("traces")}

GrafanaResources ==
    {"grafana-operator-crds", "grafana-operator-helm", "grafana-operator-ready",
     "grafana-cr-apply", "grafana-port-forward", "grafana-datasources-apply"}

\* The objects of vector.yaml, vmagent.yaml and parca.yaml (and the two ConfigMaps)
\* that _deploy_to_tilt hands to k8s_yaml without a k8s_resource of their own.
\* The bug of leaving out Parca's.
SupportForCollectorsOnly == \E f \in {"logs", "prometheus_metrics"} : On(f)

HasSupportObjects == \E f \in {"logs", "prometheus_metrics", "profiling"} : On(f)

Registered ==
    {"namespace"}
    \cup EnabledBackends
    \cup (IF EnabledBackends # {} THEN GrafanaResources ELSE {})
    \cup (IF HasSupportObjects THEN {"uncategorized"} ELSE {})
    \cup (IF On("prometheus_metrics") THEN {"prometheus-operator-crds", "VMAgent"} ELSE {})
    \cup (IF On("profiling") THEN {"Parca"} ELSE {})
    \cup (IF On("profiling") /\ On("parca_agent") THEN {"Parca Agent"} ELSE {})
    \cup (IF On("logs") THEN {"Vector"} ELSE {})
    \cup (IF On("otel") THEN {"otel-operator-helm", "otel-instrumentation"} ELSE {})

\* Bugs a run must notice: the namespace forgotten, the operator forgotten, the
\* backends that are not enabled waited for.
HelmDepsWithoutNamespace == {"grafana-operator-crds"}

GrafanaCRDepsWithoutOperator == EnabledBackends

GrafanaCRDepsOnAllBackends == Backends \cup {"grafana-operator-ready"}

\* resource_deps.
HelmDeps == {"grafana-operator-crds", "namespace"}

GrafanaCRDeps == EnabledBackends \cup {"grafana-operator-ready"}

Deps(r) ==
    IF r \in Backends \cup {"Parca", "otel-operator-helm"} THEN {"namespace"}
    ELSE IF r = "grafana-operator-helm" THEN HelmDeps
    ELSE IF r = "grafana-operator-ready" THEN {"grafana-operator-helm"}
    ELSE IF r = "grafana-cr-apply" THEN GrafanaCRDeps
    ELSE IF r = "grafana-port-forward" THEN {"grafana-cr-apply"}
    ELSE IF r = "grafana-datasources-apply" THEN {"grafana-cr-apply", "grafana-operator-ready"}
    ELSE IF r = "VMAgent" THEN {"namespace", "VictoriaMetrics"}
    ELSE IF r = "Parca Agent" THEN {"Parca"}
    ELSE IF r = "Vector" THEN {"VictoriaLogs"}
    ELSE IF r = "otel-instrumentation" THEN EnabledBackends \cup {"otel-operator-helm"}
    ELSE {}

-----------------------------------------------------------------------------
(* What the registered commands do to the cluster *)

\* What must exist when the command runs: kubectl fails at once without it.
Requires(r) ==
    CASE r \in Backends \cup {"uncategorized", "grafana-operator-helm", "VMAgent", "Parca",
                              "Parca Agent", "Vector", "otel-operator-helm"} -> {"namespace"}
      [] r = "grafana-operator-ready" -> {"grafana-operator"}
      [] r \in {"grafana-cr-apply", "grafana-datasources-apply"} -> {"namespace", "grafana-crds"}
      [] r = "grafana-port-forward" -> {"grafana"}
      [] r = "otel-instrumentation" -> {"namespace", "otel-operator"}
      [] OTHER -> {}

\* What it then waits for: kubectl wait's condition, or what the pods mount.
Awaits(r) ==
    CASE r = "grafana-operator-ready" -> {"grafana-operator-up"}
      [] r = "grafana-port-forward" -> {"grafana-up"}
      [] r \in {"VMAgent", "Parca", "Parca Agent", "Vector"} -> {"support"}
      [] OTHER -> {}

Creates(r) ==
    CASE r = "namespace" -> {"namespace"}
      [] r = "uncategorized" -> {"support"}
      [] r = "grafana-operator-crds" -> {"grafana-crds"}
      [] r = "grafana-operator-helm" -> {"grafana-operator"}
      [] r = "grafana-cr-apply" -> {"grafana-cr"}
      [] r = "grafana-datasources-apply" -> {"datasources"}
      [] r = "otel-operator-helm" -> {"otel-operator"}
      [] r = "otel-instrumentation" -> {"instrumentation"}
      [] OTHER -> {}

-----------------------------------------------------------------------------
Init ==
    /\ config \in Configs
    /\ tiltfile = "unloaded"
    /\ status = [r \in Resource |-> "waiting"]
    /\ succeeded = {}
    /\ cluster = {}
    /\ faults = 0

\* enable_observability(): validate, stop on a no-op, register everything.
EnableObservability ==
    /\ tiltfile = "unloaded"
    /\ tiltfile' = CASE ~Valid -> "invalid"
                     [] Valid /\ Noop -> "noop"
                     [] OTHER -> "loaded"
    /\ UNCHANGED <<config, status, succeeded, cluster, faults>>

Active(r) == tiltfile = "loaded" /\ r \in Registered

\* Tilt starts a resource once every dependency has succeeded at least once.
Start(r) ==
    /\ Active(r)
    /\ status[r] = "waiting"
    /\ Deps(r) \subseteq succeeded
    /\ status' = [status EXCEPT ![r] = "running"]
    /\ UNCHANGED <<config, tiltfile, succeeded, cluster, faults>>

Succeed(r) ==
    /\ status[r] = "running"
    /\ Requires(r) \cup Awaits(r) \subseteq cluster
    /\ status' = [status EXCEPT ![r] = "ready"]
    /\ succeeded' = succeeded \cup {r}
    /\ cluster' = cluster \cup Creates(r)
    /\ UNCHANGED <<config, tiltfile, faults>>

\* kubectl answers NotFound: the namespace, kind or object is not there (yet).
Reject(r) ==
    /\ status[r] = "running"
    /\ ~(Requires(r) \subseteq cluster)
    /\ status' = [status EXCEPT ![r] = "failed"]
    /\ UNCHANGED <<config, tiltfile, succeeded, cluster, faults>>

\* A download, an image pull or a kubectl wait --timeout fails.
Fault(r) ==
    /\ status[r] = "running"
    /\ faults < MaxFaults
    /\ faults' = faults + 1
    /\ status' = [status EXCEPT ![r] = "failed"]
    /\ UNCHANGED <<config, tiltfile, succeeded, cluster>>

\* The developer triggers a failed resource again in the Tilt UI.
Retrigger(r) ==
    /\ status[r] = "failed"
    /\ status' = [status EXCEPT ![r] = "waiting"]
    /\ UNCHANGED <<config, tiltfile, succeeded, cluster, faults>>

\* The cluster's controllers: a Deployment becomes available, the Grafana
\* operator turns the Grafana object into a Deployment.
Pending(needs, fact) == needs \subseteq cluster /\ fact \notin cluster

Reconcile(needs, fact) ==
    /\ Pending(needs, fact)
    /\ cluster' = cluster \cup {fact}
    /\ UNCHANGED <<config, tiltfile, status, succeeded, faults>>

Controllers ==
    \/ Reconcile({"grafana-operator"}, "grafana-operator-up")
    \/ Reconcile({"grafana-cr", "grafana-operator-up"}, "grafana")
    \/ Reconcile({"grafana"}, "grafana-up")

Next ==
    \/ EnableObservability
    \/ \E r \in Resource : Start(r) \/ Succeed(r) \/ Reject(r) \/ Fault(r) \/ Retrigger(r)
    \/ Controllers

Spec == Init /\ [][Next]_vars

\* Tilt runs what it may run, commands end and controllers act; nobody has to
\* press the trigger, and nothing has to fail.
FairSpec ==
    /\ Spec
    /\ WF_vars(EnableObservability)
    /\ \A r \in Resource : WF_vars(Start(r)) /\ WF_vars(Succeed(r)) /\ WF_vars(Reject(r))
    /\ WF_vars(Reconcile({"grafana-operator"}, "grafana-operator-up"))
    /\ WF_vars(Reconcile({"grafana-cr", "grafana-operator-up"}, "grafana"))
    /\ WF_vars(Reconcile({"grafana"}, "grafana-up"))

-----------------------------------------------------------------------------
(* Properties *)

\* Every variable keeps its type; nothing outside Fact is ever in the cluster.
TypeOK ==
    /\ config \in Configs
    /\ tiltfile \in {"unloaded", "invalid", "noop", "loaded"}
    /\ status \in [Resource -> {"waiting", "running", "ready", "failed"}]
    /\ succeeded \subseteq Resource
    /\ cluster \subseteq Fact
    /\ faults \in 0 .. MaxFaults

\* Tilt refuses a Tiltfile whose resource_deps name a resource that is not
\* registered: no configuration that passes validation may produce one.
DepsRegistered ==
    tiltfile = "loaded" => \A r \in Registered : Deps(r) \subseteq Registered

\* The two resources whose commands nothing orders behind what they look for:
\* the unclaimed objects and the wait on the Deployment the operator creates.
Unordered == {"uncategorized", "grafana-port-forward"}

\* resource_deps, taken transitively, put every other command behind the
\* namespace, the CRDs and the operators that it needs: none runs too early,
\* however resources fail and are triggered again.
NothingRunsTooEarly ==
    \A r \in Resource \ Unordered : status[r] = "running" => Requires(r) \subseteq cluster

\* The Grafana object exists only once every enabled backend has been ready and
\* the operator that reconciles it was available (README: Grafana waits for its
\* backend datasources); its datasources only after it.
GrafanaIsLast ==
    /\ "grafana-cr" \in cluster =>
           EnabledBackends \subseteq succeeded /\ "grafana-operator-up" \in cluster
    /\ "datasources" \in cluster => "grafana-cr" \in cluster

MayProceed(r) ==
    \/ status[r] = "waiting" /\ Deps(r) \subseteq succeeded
    \/ status[r] = "running" /\ (Requires(r) \subseteq cluster => Awaits(r) \subseteq cluster)

\* Nothing waits for ever: as long as a part of the stack has never been ready and nothing
\* has failed, some resource may start or its command may end, or a controller has
\* something to do.  No resource waits for a dependency, an object or a condition that
\* comes only after itself, or that this configuration leaves out.
NeverStuck ==
    tiltfile = "loaded" =>
        \/ Registered \subseteq succeeded
        \/ \E r \in Registered : status[r] = "failed" \/ MayProceed(r)
        \/ Pending({"grafana-operator"}, "grafana-operator-up")
        \/ Pending({"grafana-cr", "grafana-operator-up"}, "grafana")
        \/ Pending({"grafana"}, "grafana-up")

\* A resource is held back only by a failure of its own or of one before it:
\* once the Tiltfile is loaded everything becomes ready or something has failed.
ReadyOrFailed ==
    (tiltfile = "loaded") ~>
        \/ Registered \subseteq succeeded
        \/ \E r \in Registered : status[r] = "failed"

\* The races of the deployment heal: if no resource stays failed (each is
\* triggered again after it fails), the whole stack has been ready in the end.
RetriesConverge ==
    (\A r \in Resource : []<>(status[r] # "failed")) =>
        ((tiltfile = "loaded") ~> (Registered \subseteq succeeded))

=============================================================================
