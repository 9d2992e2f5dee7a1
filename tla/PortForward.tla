------------------------------- MODULE PortForward -------------------------------
(***************************************************************************)
(* Port-forwarding (portforward.go): SetupPortForward registers a route    *)
(* for every exporter in use; then each HTTP request of the run dials its  *)
(* backend anew (DialContext): look up the route, get the service, list    *)
(* one pod that the service selects, open a stream to it.  Meanwhile the   *)
(* backends' pods start, become ready, stop and go, any call to the        *)
(* cluster may fail, and a signal may cancel the run.                      *)
(*                                                                         *)
(* A host, the service of that name and its backend are one value.         *)
(***************************************************************************)
CONSTANTS
    Hosts,      \* the backends
    Pods,       \* the names that pods may have
    OwnerOf,    \* pod -> the backend whose labels it carries
    None,       \* no pod picked
    Lost        \* the pod that was picked is gone

ASSUME PodsAssumption == OwnerOf \in [Pods -> Hosts] /\ {None, Lost} \cap Pods = {} /\ None # Lost

VARIABLES
    skip,       \* the hosts whose exporters are skipped
    services,   \* host -> "absent", "selecting", or "bare" without a selector
    pods,       \* pod -> "absent", "starting", "ready" or "stopping"
    cancelled,  \* has a signal cancelled the run's context?
    pc,         \* "setup", "failed", "idle"; the steps of a request; its outcome
    routes,     \* the hosts that have a route
    host,       \* the host of the last request
    pod,        \* the pod picked for it
    excuses     \* history: what was wrong at some time during the request

env == <<skip, services>>
vars == <<skip, services, pods, cancelled, pc, routes, host, pod, excuses>>

Dialling == {"route", "service", "list", "forward", "exchange"}

\* The pods that carry a backend's labels.
PodsOf(h) == {p \in Pods : OwnerOf[p] = h /\ pods[p] # "absent"}

\* What may make a request fail: no service that selects pods, no pod or one that is not
\* ready, a signal.
Excuses(h) ==
    {x \in {"service"} : services[h] # "selecting"}
    \cup {x \in {"pods"} : PodsOf(h) = {} \/ \E p \in PodsOf(h) : pods[p] # "ready"}
    \cup {x \in {"signal"} : cancelled}

-----------------------------------------------------------------------------
(* The cluster and the signal *)

\* What happens around a request joins its excuses.
Notice == excuses' = IF pc \in Dialling THEN excuses \cup Excuses(host)' ELSE excuses

PodChanges(p, from, to) ==
    /\ pods[p] \in from
    /\ pods' = [pods EXCEPT ![p] = to]
    /\ pod' = IF pod = p /\ to = "absent" THEN Lost ELSE pod
    /\ UNCHANGED <<env, cancelled, pc, routes, host>>
    /\ Notice

StartPod(p) == PodChanges(p, {"absent"}, "starting")
PodReady(p) == PodChanges(p, {"starting"}, "ready")
PodUnready(p) == PodChanges(p, {"ready"}, "starting")
StopPod(p) == PodChanges(p, {"starting", "ready"}, "stopping")
PodGone(p) == PodChanges(p, {"stopping"}, "absent")

Signal ==
    /\ ~cancelled /\ cancelled' = TRUE
    /\ UNCHANGED <<env, pods, pc, routes, host, pod>>
    /\ Notice

-----------------------------------------------------------------------------
(* SetupPortForward, and the requests of the exporters *)

Init ==
    /\ skip \in SUBSET Hosts
    /\ services \in [Hosts -> {"absent", "selecting", "bare"}]
    /\ pods \in [Pods -> {"absent", "ready"}]
    /\ cancelled = FALSE /\ pc = "setup" /\ routes = {}
    /\ host \in Hosts /\ pod = None /\ excuses = {}

\* Without a kubeconfig, a client or the namespace the run ends.
SetupPortForward ==
    /\ pc = "setup"
    /\ \/ routes' = Hosts \ skip /\ pc' = "idle"
       \/ routes' = routes /\ pc' = "failed"
    /\ UNCHANGED <<env, pods, cancelled, host, pod, excuses>>

\* The bug of leaving keep-alives enabled.
RequestOverOldConnection(h) ==
    /\ pc = "idle" /\ h \notin skip
    /\ pc' = IF host = h /\ pod # None THEN "exchange" ELSE "route"
    /\ host' = h /\ excuses' = Excuses(h)
    /\ UNCHANGED <<env, pods, cancelled, routes, pod>>

\* An exporter that is not skipped sends a request to the host in its URL.  Keep-alives
\* are disabled: each request dials.
Request(h) ==
    /\ pc = "idle" /\ h \notin skip
    /\ pc' = "route"
    /\ host' = h /\ excuses' = Excuses(h)
    /\ pod' = None
    /\ UNCHANGED <<env, pods, cancelled, routes>>

-----------------------------------------------------------------------------
(* DialContext *)

Goto(label) == pc' = label /\ UNCHANGED <<env, pods, cancelled, routes, host, excuses>>

LookUpRoute ==
    /\ pc = "route"
    /\ Goto(IF host \in routes THEN "service" ELSE "refused")
    /\ UNCHANGED pod

\* The bug of listing the pods of a service without a selector.
IsThere(h) == services[h] # "absent"

HasSelector(h) == services[h] = "selecting"

GetService ==
    /\ pc = "service"
    /\ Goto(IF HasSelector(host) /\ ~cancelled THEN "list" ELSE "refused")
    /\ UNCHANGED pod

\* The pods that the list call may answer with: the selector's, in no promised order and
\* whatever their condition.  An empty selector selects every pod.
Selected == IF services[host] = "bare" THEN {p \in Pods : pods[p] # "absent"} ELSE PodsOf(host)

ListPods ==
    /\ pc = "list"
    /\ \/ Selected # {} /\ ~cancelled /\ pod' \in Selected /\ Goto("forward")
       \/ (Selected = {} \/ cancelled) /\ Goto("refused") /\ UNCHANGED pod

\* A pod that is not ready may answer or not, one that is gone does not.
Fails == pod \notin {p \in Pods : pods[p] = "ready"} \/ cancelled

Forward ==
    /\ pc = "forward"
    /\ \/ pod # Lost /\ Goto("exchange")
       \/ Fails /\ Goto("refused")
    /\ UNCHANGED pod

Exchange ==
    /\ pc = "exchange"
    /\ \/ pod # Lost /\ Goto("answered")
       \/ Fails /\ Goto("refused")
    /\ UNCHANGED pod

\* Any call to the cluster or the backend may fail.
CallFails ==
    /\ pc \in Dialling \ {"route"}
    /\ pc' = "refused" /\ excuses' = excuses \cup {"call"}
    /\ UNCHANGED <<env, pods, cancelled, routes, host, pod>>

RequestEnds == pc \in {"answered", "refused"} /\ Goto("idle") /\ UNCHANGED pod

Next ==
    \/ \E p \in Pods : StartPod(p) \/ PodReady(p) \/ PodUnready(p) \/ StopPod(p) \/ PodGone(p)
    \/ Signal
    \/ SetupPortForward
    \/ \E h \in Hosts : Request(h)
    \/ LookUpRoute \/ GetService \/ ListPods \/ Forward \/ Exchange
    \/ CallFails \/ RequestEnds

Spec == Init /\ [][Next]_vars

-----------------------------------------------------------------------------
(* Properties *)

\* Telemetry never comes from another backend's pod, whatever the services select and
\* however pods come and go between the list call and the stream.
ConnectedToOwnBackend ==
    pc \in {"forward", "exchange", "answered"} /\ pod \in Pods =>
        OwnerOf[pod] = host /\ host \notin skip

\* A request fails only for a reason of its own time: no service with a selector, a pod
\* that was missing or not ready while it ran, a signal, or a call that failed.  What
\* became of pods between two requests is no reason, nor is a missing route.
FailureHasCause == pc = "refused" => excuses # {}

=============================================================================
