---------------------------- MODULE PortForwardProofs ----------------------------
(***************************************************************************)
(* Proofs of the properties of PortForward, for any backends and pods.     *)
(***************************************************************************)
EXTENDS PortForward, TLAPS

Outcomes == {"answered", "refused"}

TypeOK ==
    /\ skip \subseteq Hosts
    /\ services \in [Hosts -> {"absent", "selecting", "bare"}]
    /\ pods \in [Pods -> {"absent", "starting", "ready", "stopping"}]
    /\ cancelled \in BOOLEAN
    /\ pc \in {"setup", "failed", "idle"} \cup Dialling \cup Outcomes
    /\ host \in Hosts
    /\ pod \in Pods \cup {None, Lost}

\* Every host in use has a route, and only those are asked.
RoutesFit ==
    /\ pc \notin {"setup", "failed"} => routes = Hosts \ skip
    /\ pc \in Dialling \cup Outcomes => host \notin skip

\* Pods are listed only for a service that selects them.
ServiceSelects == pc \in {"list", "forward", "exchange", "answered"} => services[host] = "selecting"

\* A pod that was picked carries the labels of the backend, or is gone.
PickedFits ==
    /\ pc \in {"forward", "exchange", "answered"} => pod # None
    /\ pod \in Pods => pods[pod] # "absent"
    /\ pc \in {"forward", "exchange", "answered"} /\ pod \in Pods => OwnerOf[pod] = host

\* Nothing that is wrong during a request goes unnoticed, the loss of its pod included.
AllNoticed ==
    /\ pc \in Dialling => Excuses(host) \subseteq excuses
    /\ pc \in {"forward", "exchange"} /\ pod = Lost => excuses # {}

Inv == TypeOK /\ RoutesFit /\ ServiceSelects /\ PickedFits /\ AllNoticed /\ FailureHasCause

USE PodsAssumption

-----------------------------------------------------------------------------
\* A pod of the backend that is not ready is an excuse, and so is a signal.
LEMMA ExcuseOf ==
    ASSUME NEW h \in Hosts
    PROVE  /\ cancelled => Excuses(h) # {}
           /\ services[h] # "selecting" => Excuses(h) # {}
           /\ PodsOf(h) = {} => Excuses(h) # {}
           /\ \A p \in PodsOf(h) : pods[p] # "ready" => Excuses(h) # {}
<1>1. cancelled => "signal" \in Excuses(h)
  BY DEF Excuses
<1>2. services[h] # "selecting" => "service" \in Excuses(h)
  BY DEF Excuses
<1>3. PodsOf(h) = {} => "pods" \in Excuses(h)
  BY DEF Excuses
<1>4. \A p \in PodsOf(h) : pods[p] # "ready" => "pods" \in Excuses(h)
  BY DEF Excuses
<1>5. QED
  BY <1>1, <1>2, <1>3, <1>4

\* A step of the cluster keeps the invariant.
LEMMA ClusterStep ==
    ASSUME Inv, NEW p \in Pods, NEW from, NEW to \in {"absent", "starting", "ready", "stopping"},
           PodChanges(p, from, to), to = "absent" => pods[p] = "stopping"
    PROVE  Inv'
<1>1. /\ pods' = [pods EXCEPT ![p] = to]
      /\ pod' = IF pod = p /\ to = "absent" THEN Lost ELSE pod
      /\ skip' = skip /\ services' = services /\ cancelled' = cancelled /\ pc' = pc
      /\ routes' = routes /\ host' = host
      /\ excuses' = IF pc \in Dialling THEN excuses \cup Excuses(host)' ELSE excuses
  BY DEF PodChanges, Notice, env
<1>2. TypeOK'
  BY <1>1 DEF Inv, TypeOK
<1>3. RoutesFit' /\ ServiceSelects'
  BY <1>1 DEF Inv, RoutesFit, ServiceSelects
<1>4. PickedFits'
  BY <1>1 DEF Inv, PickedFits, TypeOK
<1>5. AllNoticed'
  <2>1. pc \in Dialling => Excuses(host)' \subseteq excuses' /\ excuses \subseteq excuses'
    BY <1>1
  <2>2. ASSUME pc \in {"forward", "exchange"}, pod' = Lost
        PROVE  excuses # {}
    <3>1. CASE pod = Lost
      BY <2>2, <3>1 DEF Inv, AllNoticed
    <3>2. CASE pod # Lost
      <4>1. pod = p /\ pods[p] = "stopping"
        BY <1>1, <2>2, <3>2
      <4>2. p \in PodsOf(host) /\ host \in Hosts
        BY <2>2, <4>1 DEF Inv, PickedFits, PodsOf, TypeOK
      <4>3. Excuses(host) # {}
        BY <4>1, <4>2, ExcuseOf
      <4>4. QED
        BY <2>2, <4>3 DEF Inv, AllNoticed, Dialling
    <3>3. QED
      BY <3>1, <3>2
  <2>3. QED
    BY <1>1, <2>1, <2>2 DEF AllNoticed, Dialling
<1>6. FailureHasCause'
  BY <1>1 DEF Inv, FailureHasCause, Dialling
<1>7. QED
  BY <1>2, <1>3, <1>4, <1>5, <1>6 DEF Inv

\* What Goto leaves alone.
LEMMA GotoKeeps ==
    ASSUME NEW l, Goto(l)
    PROVE  /\ pc' = l /\ skip' = skip /\ services' = services /\ pods' = pods
           /\ cancelled' = cancelled /\ routes' = routes /\ host' = host
           /\ excuses' = excuses /\ Excuses(host)' = Excuses(host)
BY DEF Goto, env, Excuses, PodsOf

\* A dialling step keeps the invariant.
LEMMA DialStep ==
    ASSUME Inv, LookUpRoute \/ GetService \/ ListPods \/ Forward \/ Exchange \/ RequestEnds
    PROVE  Inv'
<1> USE DEF Inv, TypeOK, RoutesFit, ServiceSelects, PickedFits, AllNoticed, FailureHasCause,
        Dialling, Outcomes
<1>0. host \in Hosts
  OBVIOUS
<1>1. CASE LookUpRoute
  <2>1. host \in routes
    BY <1>1 DEF LookUpRoute
  <2>2. Goto("service") /\ pod' = pod
    BY <1>1, <2>1 DEF LookUpRoute
  <2>3. QED
    BY <1>1, <2>2, GotoKeeps DEF LookUpRoute
<1>2. CASE GetService
  <2>1. CASE services[host] = "selecting" /\ ~cancelled
    BY <1>2, <2>1, GotoKeeps DEF GetService, HasSelector
  <2>2. CASE ~(services[host] = "selecting" /\ ~cancelled)
    <3>1. Excuses(host) # {}
      BY <1>0, <2>2, ExcuseOf
    <3>2. Goto("refused") /\ pod' = pod /\ pc = "service"
      BY <1>2, <2>2 DEF GetService, HasSelector
    <3>3. QED
      BY <3>1, <3>2, GotoKeeps
  <2>3. QED
    BY <2>1, <2>2
<1>3. CASE ListPods
  <2>1. pc = "list" /\ Selected = PodsOf(host)
    BY <1>3 DEF ListPods, Selected
  <2>2. CASE Selected # {} /\ ~cancelled /\ pod' \in Selected /\ Goto("forward")
    BY <2>1, <2>2, GotoKeeps DEF PodsOf
  <2>3. CASE (Selected = {} \/ cancelled) /\ Goto("refused") /\ UNCHANGED pod
    <3>1. Excuses(host) # {}
      BY <1>0, <2>1, <2>3, ExcuseOf
    <3>2. QED
      BY <2>1, <2>3, <3>1, GotoKeeps
  <2>4. QED
    BY <1>3, <2>2, <2>3 DEF ListPods
<1>4. ASSUME pc \in {"forward", "exchange"}, Fails
      PROVE  excuses # {}
  <2>1. CASE pod = Lost
    BY <1>4, <2>1
  <2>2. CASE cancelled
    BY <1>0, <1>4, <2>2, ExcuseOf
  <2>3. CASE pod # Lost /\ ~cancelled
    <3>1. pod \in PodsOf(host) /\ pods[pod] # "ready"
      BY <1>4, <2>3 DEF Fails, PodsOf
    <3>2. QED
      BY <1>0, <1>4, <3>1, ExcuseOf
  <2>4. QED
    BY <2>1, <2>2, <2>3
<1>5. CASE Forward
  <2>1. CASE pod # Lost /\ Goto("exchange")
    BY <1>5, <2>1, GotoKeeps DEF Forward
  <2>2. CASE Fails /\ Goto("refused")
    BY <1>4, <1>5, <2>2, GotoKeeps DEF Forward
  <2>3. QED
    BY <1>5, <2>1, <2>2 DEF Forward
<1>6. CASE Exchange
  <2>1. CASE pod # Lost /\ Goto("answered")
    BY <1>6, <2>1, GotoKeeps DEF Exchange
  <2>2. CASE Fails /\ Goto("refused")
    BY <1>4, <1>6, <2>2, GotoKeeps DEF Exchange
  <2>3. QED
    BY <1>6, <2>1, <2>2 DEF Exchange
<1>7. CASE RequestEnds
  BY <1>7, GotoKeeps DEF RequestEnds
<1>8. QED
  BY <1>1, <1>2, <1>3, <1>5, <1>6, <1>7

LEMMA Invariance == Spec => []Inv
<1>1. Init => Inv
  BY DEF Init, Inv, TypeOK, RoutesFit, ServiceSelects, PickedFits, AllNoticed,
     FailureHasCause, Dialling, Outcomes
<1>2. Inv /\ [Next]_vars => Inv'
  <2> SUFFICES ASSUME Inv, [Next]_vars
               PROVE  Inv'
    OBVIOUS
  <2>1. ASSUME NEW p \in Pods,
               StartPod(p) \/ PodReady(p) \/ PodUnready(p) \/ StopPod(p) \/ PodGone(p)
        PROVE  Inv'
    <3>1. CASE StartPod(p)
      BY <3>1, ClusterStep DEF StartPod
    <3>2. CASE PodReady(p)
      BY <3>2, ClusterStep DEF PodReady
    <3>3. CASE PodUnready(p)
      BY <3>3, ClusterStep DEF PodUnready
    <3>4. CASE StopPod(p)
      BY <3>4, ClusterStep DEF StopPod
    <3>5. CASE PodGone(p)
      <4>1. pods[p] = "stopping"
        BY <3>5 DEF PodGone, PodChanges
      <4>2. QED
        BY <3>5, <4>1, ClusterStep DEF PodGone
    <3>6. QED
      BY <2>1, <3>1, <3>2, <3>3, <3>4, <3>5
  <2>2. CASE Signal
    BY <2>2 DEF Signal, Notice, env, Inv, TypeOK, RoutesFit, ServiceSelects, PickedFits,
       AllNoticed, FailureHasCause, Dialling
  <2>3. CASE SetupPortForward
    BY <2>3 DEF SetupPortForward, env, Inv, TypeOK, RoutesFit, ServiceSelects, PickedFits,
       AllNoticed, FailureHasCause, Dialling, Outcomes
  <2>4. ASSUME NEW h \in Hosts, Request(h)
        PROVE  Inv'
    <3>1. /\ pc' = "route" /\ host' = h /\ h \notin skip /\ pod' = None /\ pc = "idle"
          /\ UNCHANGED <<skip, services, pods, cancelled, routes>> /\ excuses' = Excuses(h)
      BY <2>4 DEF Request, env
    <3>2. Excuses(host)' = Excuses(h)
      BY <3>1 DEF Excuses, PodsOf
    <3>3. QED
      BY <3>1, <3>2 DEF Inv, TypeOK, RoutesFit, ServiceSelects, PickedFits, AllNoticed,
         FailureHasCause, Dialling, Outcomes
  <2>5. CASE LookUpRoute \/ GetService \/ ListPods \/ Forward \/ Exchange \/ RequestEnds
    BY <2>5, DialStep
  <2>6. CASE CallFails
    BY <2>6 DEF CallFails, env, Inv, TypeOK, RoutesFit, ServiceSelects, PickedFits,
       AllNoticed, FailureHasCause, Dialling, Outcomes
  <2>7. CASE UNCHANGED vars
    <3>1. Excuses(host)' = Excuses(host)
      BY <2>7 DEF vars, Excuses, PodsOf
    <3>2. QED
      BY <2>7, <3>1 DEF vars, Inv, TypeOK, RoutesFit, ServiceSelects, PickedFits,
         AllNoticed, FailureHasCause
  <2>8. QED
    BY <2>1, <2>2, <2>3, <2>4, <2>5, <2>6, <2>7 DEF Next
<1>3. QED
  BY <1>1, <1>2, PTL DEF Spec

-----------------------------------------------------------------------------
\* Whatever the services select and however pods come and go, a request is never
\* connected to another backend's pod, nor to a backend that is skipped.
THEOREM OwnBackendOnly == Spec => []ConnectedToOwnBackend
<1>1. Inv => ConnectedToOwnBackend
  BY DEF Inv, PickedFits, RoutesFit, ConnectedToOwnBackend, Dialling, Outcomes
<1>2. QED
  BY <1>1, Invariance, PTL

\* A request fails only for a reason of its own time.
THEOREM NoFailureOutOfThePast == Spec => []FailureHasCause
<1>1. Inv => FailureHasCause
  BY DEF Inv
<1>2. QED
  BY <1>1, Invariance, PTL

=============================================================================
