------------------------------ MODULE ExportRun ------------------------------
(***************************************************************************)
(* One run of cmd/observability-export, from main.run() to the exit code.  *)
(*                                                                         *)
(* One process walks through the call tree of the source; pc names the     *)
(* call it is in.  Its environment is the operator (SIGINT and SIGTERM),   *)
(* the file system, the Kubernetes API, the four backends and DuckDB, each *)
(* of which may fail any call.  The two line-streaming exporters, the      *)
(* trace exporter and the profile exporter share the request, appender and *)
(* unwinding steps, as they share the helpers of helpers.go.               *)
(***************************************************************************)
EXTENDS Integers, Sequences, FiniteSets

CONSTANTS
  MaxRows,      \* bound: rows one backend hands out in a run
  MaxItems      \* bound: services VictoriaTraces lists, types Parca lists

ASSUME BoundsAreNat == MaxRows \in Nat /\ MaxItems \in Nat

Exporters == <<"metrics", "traces", "logs", "profiles">>
Names == {"metrics", "traces", "logs", "profiles"}
Streams == {"metrics", "logs"}              \* one JSON-lines response each
Tables == {"metrics", "traces", "logs"}     \* each exporter's DuckDB table

Resources == {"db", "body", "conn", "appender"}

VARIABLES
  opts,         \* the flags: skip (a set of exporters) and portForward
  ctx,          \* "live", or "cancelled" once a signal was delivered
  pc,           \* the call the process is in
  next,         \* position in Exporters of the loop of RunExport
  count,        \* attempted and succeeded, the loop's two counters
  result,       \* ExportResult: status and errors (who reported each)
  exit,         \* exit code of the process, Running while it has none
  open,         \* resources currently open
  defers,       \* the exporter's deferred closes, last deferred first
  ret,          \* what the exporter is returning while its defers run
  apis,         \* endpoints left to try for the first request
  left,         \* services or profile types still to be fetched
  rows,         \* per table: rows received, appended, and in the database
  answered      \* exporters whose backend answered 200 at least once

vars == <<opts, ctx, pc, next, count, result, exit, open, defers, ret, apis,
          left, rows, answered>>

(* The groups the actions leave alone together. *)
loopVars  == <<next, count, result, exit>>
fetchVars == <<apis, left>>

Running == -1
Exp == Exporters[next]                      \* the exporter being run
NoRows == [got |-> 0, buf |-> 0, saved |-> 0]

(* n more rows of table t received, k of the received ones appended. *)
Receive(t, n, k) ==
  [rows EXCEPT ![t] = [got |-> @.got + n, buf |-> @.buf + k, saved |-> @.saved]]

(* parcaAPICandidates has four entries; the others have one endpoint. *)
Endpoints(e) == IF e = "profiles" THEN 4 ELSE 1

(***************************************************************************)
(* main.run(): flags, port-forward set-up; RunExport up to its loop        *)
(***************************************************************************)
Init ==
  /\ opts \in [skip : SUBSET Names, portForward : BOOLEAN]
  /\ ctx = "live"
  /\ pc = IF opts.portForward THEN "setup" ELSE "mkdir"
  /\ next = 1
  /\ count = [attempted |-> 0, succeeded |-> 0]
  /\ result = [status |-> "none", errors |-> <<>>]
  /\ exit = Running
  /\ open = {} /\ defers = <<>> /\ ret = "nil"
  /\ apis = 0 /\ left = 0
  /\ rows = [t \in Tables |-> NoRows]
  /\ answered = {}

(* SIGINT or SIGTERM cancels the context; later signals change nothing. *)
Interrupt ==
  /\ exit = Running
  /\ ctx = "live"
  /\ ctx' = "cancelled"
  /\ UNCHANGED <<opts, pc, loopVars, open, defers, ret, fetchVars, rows, answered>>

SetupSucceeds ==
  /\ pc = "setup"
  /\ ctx = "live"
  /\ pc' = "mkdir"
  /\ UNCHANGED <<opts, ctx, loopVars, open, defers, ret, fetchVars, rows, answered>>

SetupFails ==
  /\ pc = "setup"
  /\ pc' = "exited"
  /\ exit' = 2
  /\ UNCHANGED <<opts, ctx, next, count, result, open, defers, ret, fetchVars,
                 rows, answered>>

(* The early returns of RunExport: the deferred close of the database runs *)
(* if it was opened, then main reports.                                    *)
StartupStep(here, there, opens) ==
  /\ pc = here
  /\ open' = open \cup opens
  /\ pc' = there
  /\ UNCHANGED <<opts, ctx, loopVars, defers, ret, fetchVars, rows, answered>>

StartupFails(here, there) ==
  /\ pc = here
  /\ result' = [status |-> "Failure", errors |-> Append(result.errors, here)]
  /\ pc' = there
  /\ UNCHANGED <<opts, ctx, next, count, exit, open, defers, ret, fetchVars,
                 rows, answered>>

MakeOutputDir == StartupStep("mkdir", "opendb", {}) \/ StartupFails("mkdir", "report")

OpenDatabase == StartupStep("opendb", "schema", {"db"}) \/ StartupFails("opendb", "report")

(* Three CREATE TABLEs under ctx; an existing table is an error as well. *)
CreateSchema ==
  \/ ctx = "live" /\ StartupStep("schema", "loop", {})
  \/ StartupFails("schema", "closedb")

(***************************************************************************)
(* RunExport: the loop over the exporters and the status                   *)
(***************************************************************************)
SkipExporter ==
  /\ pc = "loop" /\ next <= Len(Exporters)
  /\ Exp \in opts.skip
  /\ next' = next + 1
  /\ UNCHANGED <<opts, ctx, pc, count, result, exit, open, defers, ret,
                 fetchVars, rows, answered>>

(* ExportProfiles alone has something to do before its first request: it *)
(* makes the profiles directory, and failing that is its only error.     *)
StartExporter ==
  /\ pc = "loop" /\ next <= Len(Exporters)
  /\ Exp \notin opts.skip
  /\ count' = [count EXCEPT !.attempted = @ + 1]
  /\ apis' = Endpoints(Exp)
  /\ left' = 0
  /\ \/ pc' = "list" /\ ret' = ret
     \/ Exp = "profiles" /\ pc' = "unwind" /\ ret' = "error"
  /\ UNCHANGED <<opts, ctx, next, result, exit, open, defers, rows, answered>>

(* Mutation: the first error ends the loop. *)
SettleAndStopAtError ==
  /\ pc = "unwind" /\ defers = <<>>
  /\ IF ret = "error"
     THEN /\ result' = [result EXCEPT !.errors = Append(@, Exp)]
          /\ next' = Len(Exporters) + 1 /\ count' = count
     ELSE /\ count' = [count EXCEPT !.succeeded = @ + 1]
          /\ next' = next + 1 /\ result' = result
  /\ ret' = "nil"
  /\ pc' = "loop"
  /\ UNCHANGED <<opts, ctx, exit, open, defers, fetchVars, rows, answered>>

(* The exporter has returned and its deferred closes have run. *)
SettleExporter ==
  /\ pc = "unwind" /\ defers = <<>>
  /\ IF ret = "error"
     THEN /\ result' = [result EXCEPT !.errors = Append(@, Exp)]
          /\ count' = count
     ELSE /\ count' = [count EXCEPT !.succeeded = @ + 1]
          /\ result' = result
  /\ next' = next + 1
  /\ ret' = "nil"
  /\ pc' = "loop"
  /\ UNCHANGED <<opts, ctx, exit, open, defers, fetchVars, rows, answered>>

(* Mutation: the case of every attempt succeeding is missing. *)
StatusWithoutFullSuccess(attempted, succeeded) ==
  IF attempted = 0 THEN "Success"
  ELSE IF succeeded > 0 THEN "Partial" ELSE "Failure"

DetermineStatus(attempted, succeeded) ==
  IF attempted = 0 \/ succeeded = attempted THEN "Success"
  ELSE IF succeeded > 0 THEN "Partial" ELSE "Failure"

FinishLoop ==
  /\ pc = "loop" /\ next > Len(Exporters)
  /\ result' = [result EXCEPT !.status = DetermineStatus(count.attempted, count.succeeded)]
  /\ pc' = "closedb"
  /\ UNCHANGED <<opts, ctx, next, count, exit, open, defers, ret, fetchVars,
                 rows, answered>>

CloseDatabase ==
  /\ pc = "closedb"
  /\ open' = open \ {"db"}
  /\ pc' = "report"
  /\ UNCHANGED <<opts, ctx, loopVars, defers, ret, fetchVars, rows, answered>>

ExitCode(status) ==
  IF status = "Success" THEN 0 ELSE IF status = "Partial" THEN 1 ELSE 2

Report ==
  /\ pc = "report"
  /\ exit' = ExitCode(result.status)
  /\ pc' = "exited"
  /\ UNCHANGED <<opts, ctx, next, count, result, open, defers, ret, fetchVars,
                 rows, answered>>

(***************************************************************************)
(* HTTP: the requests of every exporter                                    *)
(*                                                                         *)
(* "list" is the first request of an exporter: the stream of a line        *)
(* exporter, the services of the trace exporter, the profile types of the  *)
(* profile exporter.  "item" is the request for one service or one type.   *)
(***************************************************************************)
Return(r) == pc' = "unwind" /\ ret' = r

(* A 200: the response body is open.  The line exporters defer its close *)
(* and go on; the others decode it at once and close it.                 *)
RequestSucceeds ==
  /\ \/ pc = "list"
     \/ pc = "item" /\ left > 0
  /\ ctx = "live"
  /\ open' = open \cup {"body"}
  /\ answered' = answered \cup {Exp}
  /\ IF Exp \in Streams
     THEN pc' = "conn" /\ defers' = <<"body">>
     ELSE /\ pc' = IF pc = "list" THEN "listbody" ELSE "itembody"
          /\ UNCHANGED defers
  /\ UNCHANGED <<opts, ctx, loopVars, ret, fetchVars, rows>>

(* Refused, timed out, cancelled, not a 200, or not decodable.  The profile *)
(* exporter probes its next endpoint, and when there is none it warns and   *)
(* returns nil; every other exporter returns the error.                     *)
ListFails ==
  /\ pc \in {"list", "listbody"}
  /\ open' = open \ {"body"}
  /\ IF apis > 1
     THEN pc' = "list" /\ apis' = apis - 1 /\ UNCHANGED ret
     ELSE UNCHANGED apis /\ Return(IF Exp = "profiles" THEN "nil" ELSE "error")
  /\ UNCHANGED <<opts, ctx, loopVars, defers, left, rows, answered>>

ListDecoded ==
  /\ pc = "listbody"
  /\ open' = open \ {"body"}
  /\ \E n \in 0 .. MaxItems : left' = n
  /\ pc' = "item"
  /\ UNCHANGED <<opts, ctx, loopVars, defers, ret, apis, rows, answered>>

(* Mutation: a failed item is asked for again, for ever. *)
RetryItem ==
  /\ pc \in {"item", "itembody"} /\ left > 0
  /\ open' = open \ {"body"}
  /\ pc' = "item"
  /\ UNCHANGED <<opts, ctx, loopVars, defers, ret, fetchVars, rows, answered>>

(* Both loops over items warn and continue with the next one. *)
ItemFails ==
  /\ pc \in {"item", "itembody"} /\ left > 0
  /\ open' = open \ {"body"}
  /\ left' = left - 1
  /\ pc' = "item"
  /\ UNCHANGED <<opts, ctx, loopVars, defers, ret, apis, rows, answered>>

(* A service's spans are kept in memory until every service was asked; a *)
(* profile is written to its own file before the next one is asked for.  *)
ItemDecoded ==
  /\ pc = "itembody"
  /\ open' = open \ {"body"}
  /\ left' = left - 1
  /\ pc' = "item"
  /\ IF Exp = "traces"
     THEN \E n \in 0 .. MaxRows - rows["traces"].got :
            rows' = Receive("traces", n, 0)
     ELSE UNCHANGED rows
  /\ UNCHANGED <<opts, ctx, loopVars, defers, ret, apis, answered>>

ItemsDone ==
  /\ pc = "item" /\ left = 0
  /\ IF Exp = "traces" /\ rows["traces"].got > 0
     THEN pc' = "conn" /\ UNCHANGED ret
     ELSE Return("nil")
  /\ UNCHANGED <<opts, ctx, loopVars, open, defers, fetchVars, rows, answered>>

(***************************************************************************)
(* DuckDB: newTableAppender, the appending loops, the flush, the defers     *)
(***************************************************************************)
OpenConnection ==
  /\ pc = "conn"
  /\ \/ /\ ctx = "live"
        /\ open' = open \cup {"conn"}
        /\ pc' = "appender"
        /\ UNCHANGED ret
     \/ Return("error") /\ UNCHANGED open
  /\ UNCHANGED <<opts, ctx, loopVars, defers, fetchVars, rows, answered>>

(* Mutation: the connection is left open. *)
ConnLeftOpen(o) == o

(* A failed appender closes the connection here: nobody else would. *)
ConnAfterAppenderFailure(o) == o \ {"conn"}

(* Mutation: the two defers swapped. *)
ConnectionDeferredLast == <<"conn", "appender">>

(* The exporters defer the close of the connection, then of the appender. *)
WriterDefers == <<"appender", "conn">>

OpenAppender ==
  /\ pc = "appender"
  /\ \/ /\ open' = open \cup {"appender"}
        /\ defers' = WriterDefers \o defers
        /\ pc' = "append"
        /\ UNCHANGED ret
     \/ /\ open' = ConnAfterAppenderFailure(open)
        /\ Return("error")
        /\ UNCHANGED defers
  /\ UNCHANGED <<opts, ctx, loopVars, fetchVars, rows, answered>>

Unsaved(t) == rows[t].got - rows[t].buf - rows[t].saved

(* A line of a stream carries any number of rows; a malformed or empty one *)
(* carries none.  All its rows are appended, or the exporter gives up.     *)
AppendLine ==
  /\ pc = "append" /\ Exp \in Streams
  /\ \E n \in 0 .. MaxRows - rows[Exp].got : \E k \in 0 .. n :
       /\ rows' = Receive(Exp, n, k)
       /\ IF k = n THEN UNCHANGED <<pc, ret>> ELSE Return("error")
  /\ UNCHANGED <<opts, ctx, loopVars, open, defers, fetchVars, answered>>

(* writeSpans appends the spans it holds in memory one by one. *)
AppendSpan ==
  /\ pc = "append" /\ Exp = "traces" /\ Unsaved(Exp) > 0
  /\ \/ rows' = Receive(Exp, 0, 1) /\ UNCHANGED <<pc, ret>>
     \/ Return("error") /\ UNCHANGED rows
  /\ UNCHANGED <<opts, ctx, loopVars, open, defers, fetchVars, answered>>

(* The stream broke, timed out, was cancelled, or has a line over 16 MiB: *)
(* scanner.Err() is returned and Flush is not called.                     *)
StreamFails ==
  /\ pc = "append" /\ Exp \in Streams
  /\ Return("error")
  /\ UNCHANGED <<opts, ctx, loopVars, open, defers, fetchVars, rows, answered>>

(* Mutation: the exporter returns without flushing. *)
ReturnUnflushed ==
  /\ pc = "append" /\ (Exp = "traces" => Unsaved(Exp) = 0)
  /\ Return("nil")
  /\ UNCHANGED <<opts, ctx, loopVars, open, defers, fetchVars, rows, answered>>

InputEnds ==
  /\ pc = "append" /\ (Exp = "traces" => Unsaved(Exp) = 0)
  /\ pc' = "flush"
  /\ UNCHANGED <<opts, ctx, loopVars, open, defers, ret, fetchVars, rows, answered>>

(* Buffered rows reach the table, or none of them does. *)
Commit(t) == [rows EXCEPT ![t] = [got |-> @.got, buf |-> 0, saved |-> @.saved + @.buf]]
Drop(t)   == [rows EXCEPT ![t] = [got |-> @.got, buf |-> 0, saved |-> @.saved]]

FlushAppender ==
  /\ pc = "flush"
  /\ \/ rows' = Commit(Exp) /\ Return("nil")
     \/ UNCHANGED rows /\ Return("error")
  /\ UNCHANGED <<opts, ctx, loopVars, open, defers, fetchVars, answered>>

(* One deferred close.  Closing the appender writes what is still buffered, *)
(* which needs its connection; closeResource only logs when that fails.     *)
RunDefer ==
  /\ pc = "unwind" /\ defers # <<>>
  /\ open' = open \ {Head(defers)}
  /\ defers' = Tail(defers)
  /\ IF Head(defers) = "appender"
     THEN \/ "conn" \in open /\ rows' = Commit(Exp)
          \/ rows' = Drop(Exp)
     ELSE UNCHANGED rows
  /\ UNCHANGED <<opts, ctx, pc, loopVars, ret, fetchVars, answered>>

Terminated == pc = "exited" /\ UNCHANGED vars

(***************************************************************************)
(* The specification                                                       *)
(***************************************************************************)
Setup == SetupSucceeds \/ SetupFails \/ MakeOutputDir \/ OpenDatabase \/ CreateSchema

Loop == SkipExporter \/ StartExporter \/ SettleExporter \/ FinishLoop \/ CloseDatabase
          \/ Report

Fetch == RequestSucceeds \/ ListFails \/ ListDecoded \/ ItemFails \/ ItemDecoded \/ ItemsDone

Write == OpenConnection \/ OpenAppender \/ AppendLine \/ AppendSpan \/ StreamFails
           \/ InputEnds \/ FlushAppender \/ RunDefer

Next == Interrupt \/ Setup \/ Loop \/ Fetch \/ Write \/ Terminated

(* A wait on the network ends by itself only when something bounds it: the *)
(* 10 s timeout of the client used without port-forwarding, or the signal. *)
Bounded == ~opts.portForward \/ ctx = "cancelled"

(* Local steps happen; a bounded wait ends; the backends owe nothing. *)
Fairness ==
  /\ WF_vars(MakeOutputDir) /\ WF_vars(OpenDatabase) /\ WF_vars(CreateSchema)
  /\ WF_vars(Loop)
  /\ WF_vars(ItemsDone)
  /\ WF_vars(OpenConnection) /\ WF_vars(OpenAppender) /\ WF_vars(AppendSpan)
  /\ WF_vars(InputEnds /\ Exp = "traces")
  /\ WF_vars(FlushAppender) /\ WF_vars(RunDefer)
  /\ WF_vars(Bounded /\ (SetupFails \/ ListFails \/ ItemFails \/ StreamFails))

Spec == Init /\ [][Next]_vars
FairSpec == Spec /\ Fairness

(***************************************************************************)
(* Properties                                                              *)
(***************************************************************************)
PCs == {"setup", "mkdir", "opendb", "schema", "loop", "list", "listbody", "item",
        "itembody", "conn", "appender", "append", "flush", "unwind", "closedb",
        "report", "exited"}

ResultType == [status : {"none", "Success", "Partial", "Failure"},
               errors : Seq(PCs \cup Names)]
RowsType == [Tables -> [got : Nat, buf : Nat, saved : Nat]]

Stacks == {<<>>, <<"body">>, <<"conn">>, <<"conn", "body">>,
           <<"appender", "conn">>, <<"appender", "conn", "body">>}

(* Every variable keeps its type. *)
TypeOK ==
  /\ opts \in [skip : SUBSET Names, portForward : BOOLEAN]
  /\ ctx \in {"live", "cancelled"}
  /\ pc \in PCs
  /\ next \in 1 .. 5
  /\ count \in [attempted : Nat, succeeded : Nat]
  /\ result \in ResultType
  /\ exit \in {Running, 0, 1, 2}
  /\ open \in SUBSET Resources
  /\ defers \in Stacks
  /\ ret \in {"nil", "error"}
  /\ apis \in Nat /\ left \in Nat
  /\ rows \in RowsType
  /\ answered \in SUBSET Names

Requested == Names \ opts.skip
Reported == {result.errors[k] : k \in DOMAIN result.errors}
Exited == exit # Running

Pending(d) == {d[k] : k \in DOMAIN d}

(* What some pending close of the call stack will close: the exporter's   *)
(* defers, the response a decoder is reading, the connection on which the *)
(* appender is being created, and the database between open and close.    *)
Owed ==
  Pending(defers)
  \cup (IF pc \in {"listbody", "itembody"} THEN {"body"} ELSE {})
  \cup (IF pc = "appender" THEN {"conn"} ELSE {})
  \cup (IF pc \in {"setup", "mkdir", "opendb", "report", "exited"} THEN {} ELSE {"db"})

(* Whatever is open has exactly one pending close and whatever has a       *)
(* pending close is open: no early return leaks a response body, a         *)
(* connection or an appender, none is closed twice, and nothing is open    *)
(* when the process exits (the error paths of helpers.go).                 *)
EveryResourceOwned == open = Owed

(* An appender is only ever open on an open connection of an open database *)
(* so that the rows its close still has to write can be written: the order *)
(* in which the exporters defer their closes.                              *)
AppenderInsideConnection ==
  /\ "appender" \in open => "conn" \in open
  /\ "conn" \in open => "db" \in open

(* An exporter that ran and reported no error has put every row it received *)
(* into its table, on every path that ends in "return nil".                 *)
SuccessIsDurable ==
  \A k \in DOMAIN Exporters :
    LET e == Exporters[k] IN
    (e \in Tables /\ k < next /\ e \notin Reported)
      => rows[e].saved = rows[e].got /\ rows[e].buf = 0

(* The exit code agrees with the errors the run reports: 0 with no error,   *)
(* 1 when some but not all requested exporters failed, 2 when all of them   *)
(* did or the run did not get as far as the first one.                      *)
ExitCodeTruthful ==
  /\ exit = 0 => result.errors = <<>>
  /\ exit = 1 => /\ Reported \subseteq Requested
                 /\ Reported # {} /\ Reported # Requested
  /\ exit = 2 => \/ next = 1
                 \/ Reported = Requested /\ Requested # {}

-----------------------------------------------------------------------------
(* Each exporter's outcome, read off the loop position and the errors. *)
Outcome == [e \in Names |->
  LET pos == CHOOSE k \in DOMAIN Exporters : Exporters[k] = e IN
  IF pos >= next THEN "pending"
  ELSE IF e \in opts.skip THEN "skipped"
  ELSE IF e \in Reported THEN "failed" ELSE "ok"]

Contract == INSTANCE ExportContract WITH skip <- opts.skip, outcome <- Outcome

(* The run keeps the promise of ExportContract: exporters settle once, in   *)
(* order, each whatever the others did, and their outcomes alone decide the *)
(* exit code.                                                               *)
ImplementsContract == Contract!Spec

(* The calls in the order in which one exporter, and the run around the     *)
(* loop, make them; the calls of one set form a loop of the source.         *)
Calls == <<{"setup"}, {"mkdir"}, {"opendb"}, {"schema"}, {"loop"}, {"list", "listbody"},
           {"item", "itembody"}, {"conn"}, {"appender"}, {"append"}, {"flush"}, {"unwind"},
           {"closedb"}, {"report"}, {"exited"}>>

(* What the loop that the process is in has yet to do: spans to append, or  *)
(* endpoints, items and deferred closes.                                    *)
Remaining ==
  IF pc = "append" THEN Unsaved(Exp)
  ELSE 2 * (apis + left) + Len(defers) + (IF pc \in {"list", "item"} THEN 1 ELSE 0)

Advances ==
  \/ next' > next
  \/ /\ next' = next
     /\ \E i, j \in DOMAIN Calls :
          /\ pc \in Calls[i] /\ pc' \in Calls[j]
          /\ i < j \/ (i = j /\ 0 <= Remaining' /\ Remaining' < Remaining)

ReadsOn == pc = "append" /\ pc' = "append" /\ Exp \in Streams

(* Whatever fails, each step takes the run nearer to its end: to the next   *)
(* exporter, to a later call, or to a shorter rest of its loop.  No failure *)
(* sends it back to a request it made before.  Only a signal, which comes   *)
(* once, and a further line of a stream leave it where it was, so no run is *)
(* without end but one whose stream is.                                     *)
EveryStepAdvances == [][(ctx = "live" /\ ctx' = "cancelled") \/ ReadsOn \/ Advances]_vars

(* A run whose waits are bounded exits: with the 10 s client always, with   *)
(* the port-forwarding client (which has no timeout) once it is signalled.  *)
BoundedRunExits == Bounded ~> Exited

(* README.md: "0 = all succeeded, 1 = partial (some backends unreachable),  *)
(* 2 = all failed".  The profile exporter warns and returns nil when no     *)
(* endpoint of Parca answers, so a run that no backend ever answered can    *)
(* exit with 0 or 1.                                                        *)
DocumentedExitCodes ==
  /\ exit = 0 => Requested \subseteq answered
  /\ Exited /\ Requested # {} /\ answered = {} => exit = 2
=============================================================================
