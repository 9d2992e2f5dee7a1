------------------------------- MODULE TraceExport -------------------------------
(***************************************************************************)
(* ExportTraces (traces.go): list the services, fetch the traces of each,  *)
(* flatten them to span rows and write the rows to the spans table.  The   *)
(* backend answers a service with every whole trace that one of its spans  *)
(* is part of, and applications go on storing spans while the export runs. *)
(* A span is abstracted to its trace and its service.                      *)
(***************************************************************************)
EXTENDS Naturals, Sequences, FiniteSets

CONSTANTS
    Spans,      \* the spans applications may store
    TraceOf,    \* function: span -> trace
    ServiceOf   \* function: span -> service

ASSUME SpansAssumption == IsFiniteSet(Spans) /\ DOMAIN TraceOf = Spans /\ DOMAIN ServiceOf = Spans

Services == {ServiceOf[s] : s \in Spans}

VARIABLES
    store,      \* the spans the backend holds
    pc,         \* "list", "fetch", "write", then "done", "empty" or "failed"
    known,      \* history: what the backend held when the services were listed
    left,       \* the services not fetched yet
    settled,    \* the services fetched, in order, with whether it succeeded
    allSpans,   \* how many rows of each span have been collected
    table       \* how many rows of each span are in the spans table

vars == <<store, pc, known, left, settled, allSpans, table>>

NoRows == [s \in Spans |-> 0]
Rows == [Spans -> 0 .. Cardinality(Services)]

\* Every order in which the backend may list a set of services.
Orders(S) == {o \in [1 .. Cardinality(S) -> S] : \A x \in S : \E i \in DOMAIN o : o[i] = x}

-----------------------------------------------------------------------------
Init ==
    /\ store \in SUBSET Spans
    /\ pc = "list"
    /\ known = {}
    /\ left = <<>>
    /\ settled = <<>>
    /\ allSpans = NoRows
    /\ table = NoRows

\* An application stores a span, of a new or an old trace.
Ingest(s) ==
    /\ s \notin store
    /\ store' = store \cup {s}
    /\ UNCHANGED <<pc, known, left, settled, allSpans, table>>

\* fetchServices; with no service ExportTraces returns at once.
FetchServices ==
    /\ pc = "list"
    /\ left' \in Orders({ServiceOf[s] : s \in store})
    /\ pc' = "fetch"
    /\ known' = store
    /\ UNCHANGED <<store, settled, allSpans, table>>

FetchServicesFails ==
    /\ pc = "list"
    /\ pc' = "failed"
    /\ UNCHANGED <<store, known, left, settled, allSpans, table>>

\* The bug of taking a service's own spans only.
AnswerOwnSpans(svc) == {s \in store : ServiceOf[s] = svc}

\* The bug of a query that does not name the service.
AnswerAll(svc) == store

\* fetchTracesForService and FlattenTraces: one row for each span of each answered trace.
Answer(svc) ==
    {s \in store : \E t \in store : TraceOf[t] = TraceOf[s] /\ ServiceOf[t] = svc}

\* Bugs: keep only the last answer, stop at an error, ask for the same service again and again.
CollectLastOnly(svc) ==
    allSpans' = [s \in Spans |-> IF s \in Answer(svc) THEN 1 ELSE 0]

SettleAndStop(kept) ==
    /\ settled' = Append(settled, [item |-> Head(left), kept |-> kept])
    /\ left' = IF kept THEN Tail(left) ELSE <<>>

SettleWithoutAdvancing(kept) ==
    /\ settled' = Append(settled, [item |-> Head(left), kept |-> kept])
    /\ UNCHANGED left

Collect(svc) ==
    allSpans' = [s \in Spans |-> allSpans[s] + IF s \in Answer(svc) THEN 1 ELSE 0]

Settle(kept) ==
    /\ settled' = Append(settled, [item |-> Head(left), kept |-> kept])
    /\ left' = Tail(left)

FetchTraces ==
    /\ pc = "fetch"
    /\ left # <<>>
    /\ Collect(Head(left))
    /\ Settle(TRUE)
    /\ UNCHANGED <<store, pc, known, table>>

\* The error is logged and the loop continues.
FetchTracesFails ==
    /\ pc = "fetch"
    /\ left # <<>>
    /\ Settle(FALSE)
    /\ UNCHANGED <<store, pc, known, allSpans, table>>

FetchedAll ==
    /\ pc = "fetch"
    /\ left = <<>>
    /\ pc' = IF allSpans = NoRows THEN "empty" ELSE "write"
    /\ UNCHANGED <<store, known, left, settled, allSpans, table>>

WriteSpans ==
    /\ pc = "write"
    /\ pc' = "done"
    /\ table' = allSpans
    /\ UNCHANGED <<store, known, left, settled, allSpans>>

\* The rows appended before the failure may reach the table or not.
WriteSpansFails ==
    /\ pc = "write"
    /\ pc' = "failed"
    /\ table' \in {part \in Rows : \A s \in Spans : part[s] <= allSpans[s]}
    /\ UNCHANGED <<store, known, left, settled, allSpans>>

Export ==
    \/ FetchServices \/ FetchServicesFails
    \/ FetchTraces \/ FetchTracesFails \/ FetchedAll
    \/ WriteSpans \/ WriteSpansFails

Next == Export \/ \E s \in Spans : Ingest(s)

Spec == Init /\ [][Next]_vars

-----------------------------------------------------------------------------
(* Properties *)

\* The services whose fetch succeeded.
Kept == {settled[i].item : i \in {j \in DOMAIN settled : settled[j].kept}}

\* Every variable keeps its type; no span is ever collected more often than there are
\* services, and the backend forgets none.
TypeOK ==
    /\ store \subseteq Spans /\ known \subseteq store
    /\ pc \in {"list", "fetch", "write", "done", "empty", "failed"}
    /\ left \in Seq(Services)
    /\ settled \in Seq([item : Services, kept : BOOLEAN])
    /\ allSpans \in Rows /\ table \in Rows

\* No failed service costs another its spans: after a successful export the table holds
\* every span that was stored when the services were listed and that shares a trace
\* with a span, stored by then, of a service that was fetched.
KnownSpansExported ==
    pc \in {"done", "empty"} =>
        \A s, t \in known :
            TraceOf[s] = TraceOf[t] /\ ServiceOf[t] \in Kept => table[s] > 0

\* Traces are exported whole, for parent and child to be joined: with a span of a
\* trace in the table, every span of that trace stored before the listing is there,
\* also one of a service whose own fetch failed.
TracesWhole ==
    pc = "done" =>
        \A s \in known, t \in Spans :
            TraceOf[s] = TraceOf[t] /\ table[t] > 0 => table[s] > 0

\* A span is written again for each service of its trace, and for nothing else: who
\* divides the rows by those services counts spans.
OneCopyPerService ==
    \A s \in Spans :
        table[s] <= Cardinality({ServiceOf[t] : t \in {u \in store :
                                     TraceOf[u] = TraceOf[s] /\ ServiceOf[u] \in Kept}})

\* The services are a best-effort collection: each is tried once, in order.
PhaseOf == [list |-> "listing", fetch |-> "collecting", write |-> "collecting",
            done |-> "succeeded", empty |-> "succeeded", failed |-> "failed"]

Collection == INSTANCE BestEffort WITH
    Items <- Services,
    phase <- PhaseOf[pc],
    todo <- left,
    settled <- settled

EveryServiceTried == Collection!Spec

=============================================================================
