---------------------------- MODULE TraceExportProofs ----------------------------
(***************************************************************************)
(* Proofs of the properties of TraceExport, for any finite set of spans,   *)
(* any traces and services, and any order in which services are listed.    *)
(***************************************************************************)
EXTENDS TraceExport, FiniteSetTheorems, SequenceTheorems, TLAPS

Outcome == [item : Services, kept : BOOLEAN]
Counts == [Spans -> Nat]

\* The services of a span's trace that have been fetched: where its rows come from.
Feeding(s) ==
    {ServiceOf[t] : t \in {u \in store : TraceOf[u] = TraceOf[s] /\ ServiceOf[u] \in Kept}}

Types ==
    /\ store \subseteq Spans /\ known \subseteq store
    /\ pc \in {"list", "fetch", "write", "done", "empty", "failed"}
    /\ left \in Seq(Services)
    /\ settled \in Seq(Outcome)
    /\ allSpans \in Counts /\ table \in Counts

\* Nothing has been done before the listing, and no service is left when rows are written.
Before ==
    /\ pc = "list" => settled = <<>> /\ left = <<>> /\ allSpans = NoRows /\ known = {}
    /\ pc = "write" => left = <<>>

\* No service is listed twice, and none that has been fetched is still to come.
Distinct ==
    /\ \A i, j \in 1 .. Len(left) : left[i] = left[j] => i = j
    /\ \A i \in 1 .. Len(left) : left[i] \notin Kept

Bounded == \A s \in Spans : allSpans[s] <= Cardinality(Feeding(s))

Collected ==
    \A s, t \in known : TraceOf[s] = TraceOf[t] /\ ServiceOf[t] \in Kept => allSpans[s] > 0

Whole ==
    \A s \in known, t \in Spans : TraceOf[s] = TraceOf[t] /\ allSpans[t] > 0 => allSpans[s] > 0

\* The table is written once, from what was collected.
Written ==
    /\ pc \in {"list", "fetch", "write", "empty"} => table = NoRows
    /\ pc = "done" => table = allSpans
    /\ pc = "empty" => allSpans = NoRows
    /\ \A s \in Spans : table[s] <= allSpans[s]

Inv == Types /\ Before /\ Distinct /\ Bounded /\ Collected /\ Whole /\ Written

USE SpansAssumption

-----------------------------------------------------------------------------
(* Facts about finite sets of services *)

LEMMA ServicesFinite == IsFiniteSet(Services) /\ Cardinality(Services) \in Nat
<1> DEFINE f == [s \in Spans |-> ServiceOf[s]]
<1>1. f \in Surjection(Spans, Services)
  BY DEF Surjection, Services
<1>2. QED
  BY <1>1, FS_Surjection, FS_CardinalityType

LEMMA Grows ==
    ASSUME NEW B \in SUBSET Services, NEW A \in SUBSET B
    PROVE  /\ Cardinality(A) \in Nat /\ Cardinality(B) \in Nat
           /\ Cardinality(A) <= Cardinality(B)
           /\ Cardinality(B) <= Cardinality(Services)
           /\ \A x \in B \ A : Cardinality(A) + 1 <= Cardinality(B)
<1>1. IsFiniteSet(B) /\ Cardinality(B) <= Cardinality(Services)
  BY ServicesFinite, FS_Subset
<1>2. IsFiniteSet(A) /\ Cardinality(A) <= Cardinality(B)
  BY <1>1, FS_Subset
<1>3. Cardinality(A) \in Nat /\ Cardinality(B) \in Nat
  BY <1>1, <1>2, FS_CardinalityType
<1>4. ASSUME NEW x \in B \ A
      PROVE  Cardinality(A) + 1 <= Cardinality(B)
  <2>1. Cardinality(A \cup {x}) = Cardinality(A) + 1
    BY <1>2, FS_AddElement
  <2>2. (A \cup {x}) \in SUBSET B
    OBVIOUS
  <2>3. Cardinality(A \cup {x}) <= Cardinality(B)
    BY <1>1, <2>2, FS_Subset
  <2>4. QED
    BY <2>1, <2>3
<1>5. QED
  BY <1>1, <1>2, <1>3, <1>4

\* A listing is a sequence without repetitions.
LEMMA OrderOfServices ==
    ASSUME NEW S \in SUBSET Services, NEW o \in Orders(S)
    PROVE  /\ o \in Seq(Services)
           /\ \A i, j \in 1 .. Len(o) : o[i] = o[j] => i = j
<1> DEFINE n == Cardinality(S)
<1>1. IsFiniteSet(S) /\ n \in Nat
  BY ServicesFinite, FS_Subset, FS_CardinalityType
<1>2. o \in [1 .. n -> S] /\ o \in Surjection(1 .. n, S)
  BY DEF Orders, Surjection
<1>3. IsFiniteSet(1 .. n) /\ Cardinality(1 .. n) = n
  BY <1>1, FS_Interval
<1>4. o \in Injection(1 .. n, S)
  BY <1>1, <1>2, <1>3, FS_SurjSameCardinalityImpliesInj
<1>5. o \in Seq(Services) /\ Len(o) = n
  BY <1>1, <1>2
<1>6. QED
  BY <1>2, <1>4, <1>5 DEF Injection, IsInjective

\* Settling a service moves it from those to come to those tried.
LEMMA SettleEffect ==
    ASSUME Types, Distinct, left # <<>>, NEW kept \in BOOLEAN, Settle(kept)
    PROVE  /\ Head(left) \in Services /\ Head(left) \notin Kept
           /\ left' \in Seq(Services) /\ settled' \in Seq(Outcome)
           /\ kept => Kept' = Kept \cup {Head(left)}
           /\ ~kept => Kept' = Kept
           /\ Distinct'
<1> DEFINE e == [item |-> Head(left), kept |-> kept]
           n == Len(settled)
<1>1. /\ Head(left) \in Services /\ Tail(left) \in Seq(Services) /\ Len(left) \in Nat
      /\ Len(left) # 0 /\ Head(left) = left[1]
      /\ Len(Tail(left)) = Len(left) - 1
      /\ \A i \in 1 .. Len(Tail(left)) : Tail(left)[i] = left[i + 1]
  BY HeadTailProperties DEF Types
<1>2. e \in Outcome
  BY <1>1 DEF Outcome
<1>3. /\ settled' \in Seq(Outcome) /\ Len(settled') = n + 1 /\ n \in Nat
      /\ \A i \in 1 .. n : settled'[i] = settled[i]
      /\ settled'[n + 1] = e
  BY <1>2, AppendProperties, LenProperties DEF Settle, Types
<1>4. DOMAIN settled = 1 .. n /\ DOMAIN settled' = 1 .. n + 1
  BY <1>3 DEF Types
<1>5. \A x : x \in Kept' <=> x \in Kept \/ (kept /\ x = Head(left))
  <2>1. \A x : x \in Kept' <=> \E i \in 1 .. n + 1 : settled'[i].kept /\ x = settled'[i].item
    BY <1>4 DEF Kept
  <2>2. \A x : x \in Kept <=> \E i \in 1 .. n : settled[i].kept /\ x = settled[i].item
    BY <1>4 DEF Kept
  <2>3. \A i : i \in 1 .. n + 1 <=> i \in 1 .. n \/ i = n + 1
    BY <1>3
  <2>4. settled'[n + 1].kept = kept /\ settled'[n + 1].item = Head(left)
    BY <1>3
  <2>5. QED
    BY <1>3, <2>1, <2>2, <2>3, <2>4
<1>6. left' = Tail(left)
  BY DEF Settle
<1>7. Head(left) \notin Kept
  BY <1>1 DEF Distinct
<1>8. Distinct'
  <2>1. \A i \in 1 .. Len(left') : i + 1 \in 1 .. Len(left) /\ left'[i] = left[i + 1]
    BY <1>1, <1>6
  <2>2. \A i, j \in 1 .. Len(left') : left'[i] = left'[j] => i = j
    BY <1>1, <2>1 DEF Distinct
  <2>3. \A i \in 1 .. Len(left') : left'[i] \notin Kept /\ left'[i] # Head(left)
    BY <1>1, <2>1 DEF Distinct
  <2>4. QED
    BY <1>5, <2>2, <2>3 DEF Distinct
<1>9. QED
  BY <1>1, <1>3, <1>5, <1>6, <1>7, <1>8

-----------------------------------------------------------------------------
(* The invariant *)

LEMMA Initially == Init => Inv
<1> SUFFICES ASSUME Init PROVE Inv
  OBVIOUS
<1>1. Types /\ Before /\ Written
  BY DEF Init, Types, Before, Written, Counts, NoRows
<1>2. Kept = {}
  BY DEF Init, Kept
<1>3. Distinct /\ Collected /\ Whole
  BY <1>2 DEF Init, Distinct, Collected, Whole
<1>4. Bounded
  <2> SUFFICES ASSUME NEW s \in Spans
               PROVE  allSpans[s] <= Cardinality(Feeding(s))
    BY DEF Bounded
  <2>1. Feeding(s) = {}
    BY <1>2 DEF Feeding
  <2>2. QED
    BY <2>1, FS_EmptySet DEF Init, NoRows
<1>5. QED
  BY <1>1, <1>3, <1>4 DEF Inv

\* What feeds a span's rows stays among the services, and its number with it.
LEMMA FeedingType ==
    ASSUME Types, NEW s \in Spans
    PROVE  Feeding(s) \in SUBSET Services
BY DEF Feeding, Types, Services

LEMMA IngestKeeps ==
    ASSUME Inv, NEW x \in Spans, Ingest(x)
    PROVE  Inv'
<1>1. /\ store' = store \cup {x} /\ pc' = pc /\ known' = known /\ left' = left
      /\ settled' = settled /\ allSpans' = allSpans /\ table' = table
  BY DEF Ingest
<1>2. Kept' = Kept
  BY <1>1 DEF Kept
<1>3. Types'
  BY <1>1 DEF Inv, Types
<1>4. Before' /\ Distinct' /\ Collected' /\ Whole' /\ Written'
  BY <1>1, <1>2 DEF Inv, Before, Distinct, Collected, Whole, Written
<1>5. Bounded'
  <2> SUFFICES ASSUME NEW s \in Spans
               PROVE  allSpans'[s] <= Cardinality(Feeding(s)')
    BY DEF Bounded
  <2>1. Feeding(s)' \in SUBSET Services
    BY <1>3, FeedingType, ServicesFinite DEF Feeding, Types, Services
  <2>2. Feeding(s) \in SUBSET Feeding(s)'
    BY <1>1, <1>2 DEF Feeding
  <2>3. allSpans[s] <= Cardinality(Feeding(s)) /\ allSpans[s] \in Nat
    BY DEF Inv, Bounded, Types, Counts
  <2>4. QED
    BY <1>1, <2>1, <2>2, <2>3, Grows
<1>6. QED
  BY <1>3, <1>4, <1>5 DEF Inv

LEMMA FetchServicesKeeps ==
    ASSUME Inv, FetchServices
    PROVE  Inv'
<1>1. /\ pc = "list" /\ pc' = "fetch" /\ known' = store /\ store' = store
      /\ left' \in Orders({ServiceOf[s] : s \in store})
      /\ settled' = settled /\ allSpans' = allSpans /\ table' = table
  BY DEF FetchServices
<1>2. settled = <<>> /\ allSpans = NoRows
  BY <1>1 DEF Inv, Before
<1>3. Kept = {} /\ Kept' = {}
  BY <1>1, <1>2 DEF Kept
<1>4. {ServiceOf[s] : s \in store} \in SUBSET Services
  BY DEF Inv, Types, Services
<1>5. left' \in Seq(Services) /\ \A i, j \in 1 .. Len(left') : left'[i] = left'[j] => i = j
  BY <1>1, <1>4, OrderOfServices
<1>6. Types' /\ Before' /\ Distinct' /\ Written'
  BY <1>1, <1>3, <1>5 DEF Inv, Types, Before, Distinct, Written
<1>7. Collected' /\ Whole'
  BY <1>1, <1>2, <1>3 DEF Inv, Types, Collected, Whole, NoRows
<1>8. Bounded'
  BY <1>1, <1>3 DEF Inv, Bounded, Feeding
<1>9. QED
  BY <1>6, <1>7, <1>8 DEF Inv

LEMMA FetchTracesKeeps ==
    ASSUME Inv, FetchTraces
    PROVE  Inv'
<1> DEFINE svc == Head(left)
<1>1. /\ pc = "fetch" /\ left # <<>> /\ Settle(TRUE) /\ pc' = pc /\ store' = store
      /\ known' = known /\ table' = table
      /\ allSpans' = [s \in Spans |-> allSpans[s] + IF s \in Answer(svc) THEN 1 ELSE 0]
  BY DEF FetchTraces, Collect
<1>2. /\ svc \in Services /\ svc \notin Kept /\ Kept' = Kept \cup {svc} /\ Distinct'
      /\ left' \in Seq(Services) /\ settled' \in Seq(Outcome)
  BY <1>1, SettleEffect DEF Inv
<1>3. \A s \in Spans : /\ allSpans[s] \in Nat /\ allSpans'[s] \in Nat
                       /\ allSpans'[s] = allSpans[s] + IF s \in Answer(svc) THEN 1 ELSE 0
                       /\ allSpans[s] > 0 => allSpans'[s] > 0
                       /\ s \in Answer(svc) => allSpans'[s] > 0
                       /\ allSpans'[s] > 0 => allSpans[s] > 0 \/ s \in Answer(svc)
  BY <1>1 DEF Inv, Types, Counts
<1>4. Types'
  BY <1>1, <1>2, <1>3 DEF Inv, Types, Counts
<1>5. Before'
  BY <1>1 DEF Before
<1>6. Written'
  <2>1. \A s \in Spans : table[s] = 0
    BY <1>1 DEF Inv, Written, NoRows
  <2>2. QED
    BY <1>1, <1>3, <2>1 DEF Inv, Written
<1>7. Collected'
  <2> SUFFICES ASSUME NEW s \in known, NEW t \in known, TraceOf[s] = TraceOf[t],
                      ServiceOf[t] \in Kept \cup {svc}
               PROVE  allSpans'[s] > 0
    BY <1>1, <1>2 DEF Collected
  <2>1. s \in store /\ t \in store /\ s \in Spans
    BY DEF Inv, Types
  <2>2. CASE ServiceOf[t] \in Kept
    BY <1>3, <2>1, <2>2 DEF Inv, Collected
  <2>3. CASE ServiceOf[t] = svc
    BY <1>3, <2>1, <2>3 DEF Answer
  <2>4. QED
    BY <2>2, <2>3
<1>8. Whole'
  <2> SUFFICES ASSUME NEW s \in known, NEW t \in Spans, TraceOf[s] = TraceOf[t],
                      allSpans'[t] > 0
               PROVE  allSpans'[s] > 0
    BY <1>1 DEF Whole
  <2>1. s \in store /\ s \in Spans
    BY DEF Inv, Types
  <2>2. CASE allSpans[t] > 0
    BY <1>3, <2>1, <2>2 DEF Inv, Whole
  <2>3. CASE t \in Answer(svc)
    BY <1>3, <2>1, <2>3 DEF Answer
  <2>4. QED
    BY <1>3, <2>2, <2>3
<1>9. Bounded'
  <2> SUFFICES ASSUME NEW s \in Spans
               PROVE  allSpans'[s] <= Cardinality(Feeding(s)')
    BY DEF Bounded
  <2>1. Feeding(s)' \in SUBSET Services
    BY <1>4 DEF Feeding, Types, Services
  <2>2. Feeding(s) \in SUBSET Feeding(s)'
    BY <1>1, <1>2 DEF Feeding
  <2>3. allSpans[s] <= Cardinality(Feeding(s))
    BY DEF Inv, Bounded
  <2>4. CASE s \in Answer(svc)
    <3>1. PICK t \in store : TraceOf[t] = TraceOf[s] /\ ServiceOf[t] = svc
      BY <2>4 DEF Answer
    <3>2. svc \in Feeding(s)' /\ svc \notin Feeding(s)
      BY <1>1, <1>2, <3>1 DEF Feeding
    <3>3. Cardinality(Feeding(s)) + 1 <= Cardinality(Feeding(s)')
      BY <2>1, <2>2, <3>2, Grows
    <3>4. QED
      BY <1>3, <2>1, <2>2, <2>3, <2>4, <3>3, Grows
  <2>5. CASE s \notin Answer(svc)
    BY <1>3, <2>1, <2>2, <2>3, <2>5, Grows
  <2>6. QED
    BY <2>4, <2>5
<1>10. QED
  BY <1>2, <1>4, <1>5, <1>6, <1>7, <1>8, <1>9 DEF Inv

LEMMA FetchTracesFailsKeeps ==
    ASSUME Inv, FetchTracesFails
    PROVE  Inv'
<1>1. /\ pc = "fetch" /\ left # <<>> /\ Settle(FALSE) /\ pc' = pc /\ store' = store
      /\ known' = known /\ table' = table /\ allSpans' = allSpans
  BY DEF FetchTracesFails
<1>2. Kept' = Kept /\ Distinct' /\ left' \in Seq(Services) /\ settled' \in Seq(Outcome)
  BY <1>1, SettleEffect DEF Inv
<1>3. Types' /\ Before' /\ Written'
  BY <1>1, <1>2 DEF Inv, Types, Before, Written
<1>4. Bounded' /\ Collected' /\ Whole'
  BY <1>1, <1>2 DEF Inv, Bounded, Feeding, Collected, Whole
<1>5. QED
  BY <1>2, <1>3, <1>4 DEF Inv

\* The steps that fetch nothing leave what was collected alone.
LEMMA OtherStepsKeep ==
    ASSUME Inv,
           \/ FetchServicesFails \/ FetchedAll \/ WriteSpans \/ WriteSpansFails
           \/ UNCHANGED vars
    PROVE  Inv'
<1>1. /\ store' = store /\ known' = known /\ left' = left /\ settled' = settled
      /\ allSpans' = allSpans
  BY DEF FetchServicesFails, FetchedAll, WriteSpans, WriteSpansFails, vars
<1>2. Kept' = Kept
  BY <1>1 DEF Kept
<1>3. Distinct' /\ Bounded' /\ Collected' /\ Whole'
  BY <1>1, <1>2 DEF Inv, Distinct, Bounded, Feeding, Collected, Whole
<1>4. Before'
  BY <1>1 DEF Inv, Before, FetchServicesFails, FetchedAll, WriteSpans, WriteSpansFails, vars
<1>5. Types' /\ Written'
  <2>1. CASE FetchServicesFails \/ FetchedAll \/ UNCHANGED vars
    BY <1>1, <2>1 DEF Inv, Types, Written, FetchServicesFails, FetchedAll, vars
  <2>2. CASE WriteSpans
    BY <1>1, <2>2 DEF Inv, Types, Written, WriteSpans, Counts
  <2>3. CASE WriteSpansFails
    <3>1. table' \in Counts
      BY <2>3, ServicesFinite DEF WriteSpansFails, Rows, Counts
    <3>2. QED
      BY <1>1, <2>3, <3>1 DEF Inv, Types, Written, WriteSpansFails
  <2>4. QED
    BY <2>1, <2>2, <2>3
<1>6. QED
  BY <1>3, <1>4, <1>5 DEF Inv

LEMMA Invariance == Spec => []Inv
<1>1. Inv /\ [Next]_vars => Inv'
  BY IngestKeeps, FetchServicesKeeps, FetchTracesKeeps, FetchTracesFailsKeeps, OtherStepsKeep
     DEF Next, Export
<1>2. QED
  BY <1>1, Initially, PTL DEF Spec

-----------------------------------------------------------------------------
\* Every variable keeps its type: no span is collected more often than there are
\* services.
THEOREM TypeCorrect == Spec => []TypeOK
<1>1. Inv => TypeOK
  <2> SUFFICES ASSUME Inv PROVE TypeOK
    OBVIOUS
  <2>1. \A s \in Spans : allSpans[s] <= Cardinality(Services)
    <3> TAKE s \in Spans
    <3>1. Feeding(s) \in SUBSET Services
      BY FeedingType DEF Inv
    <3>2. QED
      BY <3>1, Grows, ServicesFinite DEF Inv, Bounded, Types, Counts
  <2>2. \A s \in Spans : table[s] <= allSpans[s]
    BY DEF Inv, Written
  <2>3. allSpans \in Rows /\ table \in Rows
    BY <2>1, <2>2, ServicesFinite DEF Inv, Types, Counts, Rows
  <2>4. QED
    BY <2>3 DEF Inv, Types, TypeOK, Outcome
<1>2. QED
  BY <1>1, Invariance, PTL

\* After a successful export no span of a fetched service's traces is missing that was
\* stored when the services were listed.
THEOREM NoKnownSpanLost == Spec => []KnownSpansExported
<1>1. Inv => KnownSpansExported
  <2> SUFFICES ASSUME Inv, pc \in {"done", "empty"}, NEW s \in known, NEW t \in known,
                      TraceOf[s] = TraceOf[t], ServiceOf[t] \in Kept
               PROVE  table[s] > 0
    BY DEF KnownSpansExported
  <2>1. allSpans[s] > 0 /\ s \in Spans
    BY DEF Inv, Collected, Types
  <2>2. pc = "done"
    BY <2>1 DEF Inv, Written, NoRows
  <2>3. QED
    BY <2>1, <2>2 DEF Inv, Written
<1>2. QED
  BY <1>1, Invariance, PTL

\* Traces are exported whole.
THEOREM WholeTraces == Spec => []TracesWhole
<1>1. Inv => TracesWhole
  BY DEF Inv, Whole, Written, TracesWhole
<1>2. QED
  BY <1>1, Invariance, PTL

\* A span has at most one row for each fetched service of its trace.
THEOREM CopiesAreBounded == Spec => []OneCopyPerService
<1>1. Inv => OneCopyPerService
  <2> SUFFICES ASSUME Inv, NEW s \in Spans
               PROVE  table[s] <= Cardinality(Feeding(s))
    BY DEF OneCopyPerService, Feeding
  <2>1. /\ table[s] \in Nat /\ allSpans[s] \in Nat
        /\ table[s] <= allSpans[s] /\ allSpans[s] <= Cardinality(Feeding(s))
    BY DEF Inv, Types, Counts, Written, Bounded
  <2>2. Cardinality(Feeding(s)) \in Nat
    BY FeedingType, Grows DEF Inv
  <2>3. QED
    BY <2>1, <2>2
<1>2. QED
  BY <1>1, Invariance, PTL

\* The services are a best-effort collection: each listed one is tried once, in order.
THEOREM ServicesBestEffort == Spec => EveryServiceTried
<1>1. Init => Collection!Init
  BY DEF Init, Collection!Init, PhaseOf
<1>2. Inv /\ [Next]_vars => [Collection!Next]_(Collection!vars)
  <2> SUFFICES ASSUME Inv, [Next]_vars
               PROVE  Collection!Next \/ UNCHANGED <<PhaseOf[pc], left, settled>>
    BY DEF Collection!vars
  <2>1. CASE (\E s \in Spans : Ingest(s)) \/ UNCHANGED vars
    BY <2>1 DEF Ingest, vars, PhaseOf
  <2>2. CASE FetchServices
    <3>1. left' \in Seq(Services)
      BY <2>2, FetchServicesKeeps DEF Inv, Types
    <3>2. QED
      BY <2>2, <3>1 DEF FetchServices, Collection!Next, Collection!List, PhaseOf
  <2>3. CASE FetchServicesFails
    BY <2>3 DEF FetchServicesFails, Collection!Next, Collection!GiveUp, PhaseOf
  <2>4. CASE FetchTraces
    BY <2>4 DEF FetchTraces, Settle, Collection!Next, Collection!Settle,
       PhaseOf
  <2>5. CASE FetchTracesFails
    BY <2>5 DEF FetchTracesFails, Settle, Collection!Next, Collection!Settle,
       PhaseOf
  <2>6. CASE FetchedAll
    BY <2>6 DEF FetchedAll, Collection!Next, Collection!Finish, PhaseOf,
       Inv, Before
  <2>7. CASE WriteSpans
    BY <2>7 DEF WriteSpans, Collection!Next, Collection!Finish, PhaseOf,
       Inv, Before
  <2>8. CASE WriteSpansFails
    BY <2>8 DEF WriteSpansFails, Collection!Next, Collection!Finish, PhaseOf,
       Inv, Before
  <2>9. QED
    BY <2>1, <2>2, <2>3, <2>4, <2>5, <2>6, <2>7, <2>8 DEF Next, Export
<1>3. QED
  BY <1>1, <1>2, Invariance, PTL DEF Spec, EveryServiceTried, Collection!Spec

=============================================================================
