# Verification of tilt-common: observability stack and export CLI

TLA+ models, TLC configurations and TLAPS proofs for the two programs of this repository:

* `cmd/observability-export` (Go), a CLI that fetches telemetry from four backends and stores
  it in a DuckDB file and in profile files;
* `extensions/observability/extension.star` (Starlark), the Tilt extension that validates a
  configuration and deploys those backends, Grafana and their operators.

Paths below are relative to the root of the repository. `PROJECT.json` maps every definition to
the lines it models.

## 1. Inventory

### Export orchestrator (`main.go`, `export.go`)

*State*: the flags, a context cancelled by SIGINT or SIGTERM, the DuckDB handle, the loop's two
counters, the status and the errors collected so far, the exit code.
*Operations*: set up port-forwarding (optional), make the output directory, open the database,
create the schema, run the four exporters in a fixed order, determine the status, close the
database, report.
*Interactions*: calls each exporter with the context, the HTTP client and the database; each of
these calls, and every call to the file system, DuckDB and the network, may fail.
*Hard*: a signal at any point; early returns with defers pending; one exporter's failure must
not reach the next; the boundaries of "all", "some" and "none" succeeded.
*Correct when*: what is opened is closed, on every path; an exporter that returns nil has put
every row it received into its table; the exit code agrees with the errors; a run whose waits
are bounded ends.

### Exporters (`metrics.go`, `logs.go`, `traces.go`, `pprof.go`, `helpers.go`)

*State*: the open response, the DuckDB connection and appender, the rows received but not
flushed, the services or profile types still to be fetched, the API variant of Parca in use,
the files of the profiles directory.
*Operations*: metrics and logs stream one response of JSON lines into an appender; traces list
services, fetch each one's traces, and write the flattened spans; profiles probe four API
variants (gRPC-web, the two JSON ones and the root one), then download each listed type into a
file of its own.
*Interactions*: the backends go on ingesting while they are read; several runs of the CLI may
share an output directory.
*Hard*: partial failure between two items, between two rows, between truncating and writing a
file; data stored between listing and fetching; two downloads with one file name; a response
cut inside a line or a frame; lines that are malformed or leave keys out.
*Correct when*: each listed item is tried once, in order, whatever became of the others; no
failed service costs another its spans; traces are exported whole; every row is its own line's
and none is lost unreported; what is counted is saved; a signal stops the work.

### Port-forward dialer (`portforward.go`)

*State*: the route table from backend host to service, the Kubernetes clients.
*Operations*: build the clients, register the routes of the backends in use, dial: route,
service, selector, the first pod listed, SPDY stream.
*Interactions*: pods start, become ready, stop and go while a request dials; every call to the
cluster may fail; a signal cancels the context of all of them.
*Hard*: the pod chosen may be stale when it is dialled; an empty selector selects every pod;
the HTTP client has no timeout.
*Correct when*: a request reaches its own backend's pod or none, and fails only for something
that was wrong while it ran.

### Deployment graph (`extension.star`: `enable_observability`, `_deploy_to_tilt`)

*State*: the merged configuration, the registered Tilt resources with their `resource_deps`;
outside it, which resources have been ready and what exists in the cluster.
*Operations*: validate, stop on a no-op, register; then Tilt runs the resources, in parallel
where their dependencies allow, kubectl refuses what is too early, controllers reconcile, the
developer triggers failed resources again.
*Hard*: only `resource_deps` order the resources; `k8s_yaml` objects without a `k8s_resource`
have none; operators create further objects later; retries.
*Correct when*: no command runs before the namespace, the CRDs and the operators it needs;
every dependency is registered; Grafana comes after its backends; only failures hold a resource
back, and retries heal them.

### Configuration, OTel environment, telemetry button (`extension.star`: the rest)

*State*: the caller's config dictionary, the `TILT_OBSERVABILITY_*` variables, the module's
globals, which Starlark freezes; per load of a Tiltfile, what it has registered so far.
*Operations*: `_validate_config` (defaults, legacy component names, overrides, checks), and the
three public functions a Tiltfile calls in any order: `enable_observability`,
`export_telemetry`, `otel_env`. `_generate_instrumentation_cr` computes an object from the
validated configuration.
*Interactions*: the same dictionary is evaluated once per call; the button's command line must
find the backends that the stack forwards, the applications' endpoints the ones it deploys.
*Hard*: the order of the mapping and the checks; three sources for one port; `dict()` copies
the defaults one level deep.
*Correct when*: what is accepted can be deployed; button, endpoints and stack of one load
agree; overrides win.

### Assets, harness, build scripts, sample application

`assets/*.yaml` are static manifests; `StackDeploy` uses only which objects each one holds. The
Ginkgo harness and end-to-end tests, the mage scripts and the sample application are not part
of the product; they were read as documentation of what is intended.

## 2. Modules

| Module | Models | Kind |
|---|---|---|
| `ExportContract` | what a run of the CLI promises its caller | abstract |
| `ExportRun` | `run()`, `RunExport`, the four exporters' call structure, `helpers.go` | detailed |
| `ExportRunProofs` | theorems about `ExportRun`, which implements `ExportContract` | proofs |
| `BestEffort` | list, then fetch each entry | abstract |
| `ProfileExport`, `MCProfileExport` | `pprof.go`: discovery, downloads, files, several runs | detailed |
| `ProfileExportProofs` | theorems about `ProfileExport`; every run is a `BestEffort` | proofs |
| `GrpcWeb`, `MCGrpcWeb` | `pprof.go`: one gRPC-web call, its frames, trailers and messages | detailed |
| `GrpcWebProofs` | theorems about `GrpcWeb` | proofs |
| `TraceExport`, `MCTraceExport` | `traces.go` beside applications that store spans | detailed |
| `TraceExportProofs` | theorems about `TraceExport`; the services are a `BestEffort` | proofs |
| `LineExport`, `MCLineExport` | `metrics.go`, `logs.go`: from the lines of a response to rows | detailed |
| `LineExportProofs` | theorems about `LineExport` | proofs |
| `PortForward`, `MCPortForward` | `portforward.go` beside the cluster's pods | detailed |
| `PortForwardProofs` | theorems about `PortForward` | proofs |
| `StackDeploy`, `StackDeployProofs` | the deployment graph, Tilt and the cluster | detailed, proofs |
| `StackConfig`, `MCStackConfig` | one load of a Tiltfile: validation and the three public functions | detailed |
| `StackConfigProofs` | theorems about `StackConfig`, one of them through `StackDeploy` | proofs |

`ExportRun` is composed with `ExportContract` by refinement, `ProfileExport` and `TraceExport`
with `BestEffort` (once per run, for `ProfileExport`). `StackConfig` instantiates `StackDeploy`
with the flags it accepted.

### ExportRun

`pc` names the call the process is in and every call that may fail is one action with a success
and a failure: `SetupSucceeds`/`SetupFails` are `SetupPortForward`; `MakeOutputDir`,
`OpenDatabase`, `CreateSchema` are the steps of `RunExport` before its loop; `SkipExporter`,
`StartExporter`, `SettleExporter` are the loop's three exits from an iteration; `FinishLoop` is
`determineStatus`, `CloseDatabase` the deferred close, `Report` the end of `run()`.

The four exporters share steps as they share helpers. `RequestSucceeds`/`ListFails` are
`httpGetStream` and the first request of each exporter (for profiles, a probe of one API
variant, `apis` counting the ones left); `ItemDecoded`/`ItemFails` are one iteration of the
loops over services and profile types; `OpenConnection`, `OpenAppender` are `newTableAppender`;
`AppendLine`, `AppendSpan`, `StreamFails`, `InputEnds`, `FlushAppender` the writing. `defers`
is the stack of deferred closes, which `RunDefer` runs one at a time while `pc` is "unwind";
closing the appender writes what is buffered, which needs its connection.

Rows are counted, not named: `rows[t]` says how many were received, are buffered, are in the
database. `answered` only observes, for the property about the documented exit codes.
Left to the other modules: what a line becomes (`LineExport`), what a service answers
(`TraceExport`), where a profile goes (`ProfileExport`), what a dial does (`PortForward`).

### ProfileExport

`Runs` processes share one directory `files`, a function from a sanitized name and a second to
the pieces of data in the file. `ProbeAnswered`, `ProbeBlank`, `ProbeRefused` are
`discoverParcaAPI`; `StartDownload` takes the timestamp, `QuerySucceeds`, `CreateFile`,
`WriteSucceeds` and their failures are `downloadProfile` step by step, with the warning of the
caller's loop in `Settle`. A write at offset 0 replaces what another run wrote since the
truncation, or leaves its longer tail (`Put`). `late` is a history variable: the files a run
created after its signal.

### GrpcWeb

One call of `grpcWebUnary` and what its two callers make of the answer: it says which outcomes
`ProbeAnswered`, `ProbeBlank`, `ProbeRefused`, `QuerySucceeds` and `QueryFails` of
`ProfileExport` stand for. `frames` is what the server sends, `have` how many bytes of it are
in `body`; `ReadAll` lets the connection end after any byte, as a body without a declared
length may without the client noticing. `TooShort`, `TooLong`, `DataFrame`, `TrailerFrame` are
one iteration of `parseGRPCWebResponse`, `EndOfBody` its end with the test of the status,
`DecodeTypes` and `DecodeQuery` the protobuf decoders, `Malformed` a field that `protowire`
refuses. A field and a trailer line are one byte long: a cut inside a frame is refused
wherever it is, so their length makes no difference. The server is external: it sends one
data frame and a trailer, or its error in a trailer frame or in the HTTP headers
(`Answers`). The headers are never read, so that last answer, an empty body, passes for an
empty listing; so does one whose every byte was lost.

### TraceExport

`store` grows by `Ingest` at any time. `Answer(svc)` is what the Jaeger API returns: every
whole trace with a span of the service. `FetchTraces`/`FetchTracesFails` are one iteration,
`WriteSpans`/`WriteSpansFails` the table write, whose steps `ExportRun` has. `known` is a
history variable: what was stored when the services were listed.

### LineExport

`table` says which exporter runs. `response` is what the backend has to send, `whole` how many
of its lines arrive, `ending` how the body ends: complete, with an error, early without one, or
with a line beyond the scanner's buffer. `ReadLine` is one call of `scanner.Scan` with the
decoding of the line and the warning for one that is not accepted; `AppendRow` and
`AppendFails` are one `AppendRow` of DuckDB; `ScanEnds` is the end of the loop with the test of
`scanner.Err`, `Flush` the flush. A torn last line (`Torn`) is handed out by the scanner and is
no JSON. `Fill` is what `json.Unmarshal` does to the struct it is given: it keeps fields and map
entries that the line has no key for, so that it matters where the variable is declared.
`Severities` and `LogRow` are `extractSeverity` and `ParseLogEntry`: what goes into a column is
removed from the fields. `LogEntryKept` says it without them, for each column of a row: a message
or a stream that is no text is dropped, and it is the only thing that is.

### PortForward

`pc` follows one request through `DialContext`: `LookUpRoute`, `GetService`, `ListPods`,
`Forward`, then `Exchange`, the HTTP exchange over the stream. `Request` starts one for any
exporter that is not skipped; `DisableKeepAlives` makes each dial anew. `StartPod`, `PodReady`,
`PodUnready`, `StopPod`, `PodGone` and `Signal` happen at any step, `CallFails` at any call.
`excuses` is a history variable: what was wrong at some time during the request. A stream to a
pod that is not ready may or may not work, one to a pod that is gone never does.

### StackDeploy

`Registered`, `Deps` and `Valid` are translated from `_deploy_to_tilt` and `_validate_config`.
`Requires` (what the command needs or kubectl refuses it), `Awaits` (what it waits for) and
`Creates` are read off the commands and manifests. Three external parties are modelled from how
the extension relies on them: Tilt starts a resource once each dependency has been ready once,
and puts unclaimed `k8s_yaml` objects into "uncategorized"; `kubectl` fails at once on a
missing namespace, kind or object; controllers act some time after an object was applied.

Two of the code's races are visible in the model and stated in no run: the wait on Grafana's
Deployment (`extension.star:1017`) fails if the operator has not created it yet, which
`RetriesConverge` includes as a failure that a retry heals; and the Instrumentation object
(`1085`) is applied as soon as helm's output is, not once the operator's webhook serves.

### StackConfig

`cfg` and `env` are the caller's dictionary and the variables that are set; a dictionary is a
function whose domain is the keys it has. `Flag`, `Namespace` and `Ports` are what
`_validate_config` computes, `Refused` the disjunction of the conditions under which it calls
`fail()` or Starlark does, `Reads` what the CLI then reads, by its own defaults.
`Links` are the addresses that the objects of a stack hold, each with its service, namespace and
port: Grafana's data sources, the environment and the default exporter of the Instrumentation
object, vector's sink, the stores of vmagent and parca-agent.
`EnableObservability`, `ExportTelemetry` and `OtelEnv` are the public functions, `stack`,
`button` and `app` what they register or return, `Fail` a failed load, of which Tilt keeps
nothing. Starlark is external: the globals of a loaded module are frozen with all they hold, so
the write at line 411 fails when `validated["ports"]` still is the default's dictionary
(`WritesFrozenPorts`). Values of a wrong type behave as values out of range, and a variable
that is not a number as port 0: the load fails.

## 3. Runs

| Run | Question | Bounds |
|---|---|---|
| `ExportRun` | resources, durability, exit code, `ExportContract`, under every failure and signal; does every step advance the run; does a run with bounded waits exit | 2 rows per backend, 2 items per listing, all 32 flag settings |
| `ProfileExport` | each type once; a signal stops file creation; is what is counted saved | 2 symmetric runs, listings of none, of one type and of two that share a file name, 2 seconds |
| `GrpcWeb` | is a cut answer ever taken for a whole one, does the status decide | messages of up to 3 fields of 6 kinds, a cut after any byte |
| `TraceExport` | known spans, whole traces, each service once, what duplicates them | 3 services, a trace through all of them and one of its own |
| `LineExport` | which rows a response becomes; is a cut one reported; is a row its own line's | responses of up to 2 lines: 23 series and odd lines, 71 entries, 4 endings at every line |
| `PortForward` | whose pod does a request reach, what may make it fail | 2 backends, one with 2 pods and one with 1, any number of requests and pod changes |
| `StackDeploy` | is every command late enough; can anything wait for ever; does the stack converge | 10 configurations, 1 outside failure, any number of retries |
| `StackConfig` | do stack, links, button, endpoints and overrides of one load agree | about 330 dictionaries, 6 environments, every subset of the calls in every order |

Two rows distinguish "none", "some" and "all" saved, and two items a loop that stops from one
that goes on; four exporters with any of them skipped are all the loop has. Two sharing types
and two seconds give both collisions and near misses. The ten configurations contain every
flag on and off, every pair that the dependencies relate, two invalid ones and a no-op; outside
failures matter only through "failed", which any resource may also reach by a refusal, so one
is enough to have a failure anywhere. The dictionaries of `StackConfig` give a flag at the top
level, as a component, as both and as neither, and ports at and beyond both ends of the range.
The proofs below do not depend on any of these bounds.

### Documented behaviour the code does not have

Each of these runs checks one sentence of the repository and TLC finds it violated:

| Run | Sentence | What the run shows |
|---|---|---|
| `ExportRun_DocumentedExitCodes` | README.md:140 "`0` = all succeeded, `1` = partial (some backends unreachable), `2` = all failed" | traces and profiles swallow failed fetches: a run that reached no backend exits with 0 |
| `ProfileExport_EveryCountedIsSaved` | pprof.go:235 "saves the pprof binary" | equal names in one second overwrite each other |
| `StackConfig_SameDictionaryReaches` | extensions/observability/README.md:125 "Pass the same `config` dict" | `otel_env` reads the dictionary unmerged: another default namespace, no components, no overrides |
| `StackConfig_PortOverridesWork` | extensions/observability/README.md:229 "override it via config or environment variable" | without `ports` in the dictionary the override fails the load |

More divergences need no run of their own:

* `trace-analysis.ipynb:77` takes `COUNT(*)` of the spans table for the number of spans, but a
  trace through two services is written twice (`OneCopyPerService` bounds how often).
* `extension.star:113` promises the Grafana operator "when ANY component is enabled", line 169
  deploys it for metrics, logs or traces only.
* `extension.star:933` says that all other resources can wait for the namespace; the ConfigMaps
  and ServiceAccounts that no `k8s_resource` claims do not ("uncategorized" of `StackDeploy`).
* `extension.star:251` "The CLI connects to the port-forwarded backends": the command line
  neither disables port-forwarding nor names a namespace (`main.go:54-63`), so the CLI opens
  streams of its own to the stack of its default namespace. `ButtonFindsDefaultStack` shows that
  it finds that one.
* `extension.star:858` "env vars match those returned by otel_env()": the services match for a
  flat dictionary (`FlatConfigInjectsTheSame`), but traces go to port 10428 over http/protobuf in
  one and to 4317 over gRPC in the other.
* `portforward.go:44` "first ready pod": the first pod listed, ready or not.
* An infinite sample, which VictoriaMetrics writes as a text, costs its series every row, and a
  null sample is stored as 0 (`SeriesDecodes` and `Unmarshal` of `LineExport`).

`RetriesConverge` shows that the deployment races heal when failed resources are triggered
again; `CountedIsSaved` that equal file names are the only way to lose a counted profile.

### Fairness

`ExportRun`: local calls (the file system, DuckDB, the loop) return. A wait on the network ends
only if something bounds it: the 10 s timeout of the default client, or, with the
port-forwarding client, which has none (`portforward.go:152`), the signal. Backends owe no
answer; that is why `BoundedRunExits` speaks of `Bounded` runs only. `StackDeploy`: Tilt runs
what it may run, commands end, controllers act. No fairness for faults, nor for the developer:
`RetriesConverge` states the retries as its hypothesis. `ProfileExport`, `GrpcWeb`,
`TraceExport`, `LineExport`, `PortForward` and `StackConfig` state safety only and assume no
fairness. All of these but `PortForward`, and `StackDeploy`, do stop (an export ends, a stack is
up, a load is over), so their runs do not check deadlock; `ExportRun` has an explicit terminal
step, and its run does, as that of `PortForward`.

## 4. Proofs

For all values of the constants, from the named assumptions on them only
(`BoundsAreNat`, `ConfigsAssumption`, `MaxFaultsAssumption`, `ListingsAssumption`,
`SafeNameAssumption`, `MaxTimeAssumption`, `MessagesAssumption`, `ErrorsAssumption`,
`DefaultsAreValid`, `SpansAssumption`, `PodsAssumption`,
`ResponsesAreLines`):

| Theorem | Statement |
|---|---|
| `ExportRunProofs!TypeCorrect` | `Spec => []TypeOK` |
| `ExportRunProofs!NoLeak` | `Spec => []EveryResourceOwned` |
| `ExportRunProofs!AppenderOrder` | `Spec => []AppenderInsideConnection` |
| `ExportRunProofs!DurableSuccess` | `Spec => []SuccessIsDurable` |
| `ExportRunProofs!ExitCodeCorrect` | `Spec => []ExitCodeTruthful` |
| `ExportRunProofs!RunKeepsContract` | `Spec => ImplementsContract` |
| `ExportRunProofs!RunAdvances` | `Spec => EveryStepAdvances` |
| `ProfileExportProofs!TypeCorrect` | `Spec => []TypeOK`, for any number of runs |
| `ProfileExportProofs!CountedSaved` | `Spec => []CountedIsSaved` |
| `ProfileExportProofs!SignalStops` | `Spec => []AtMostOneLateFile` |
| `ProfileExportProofs!CollectionsBestEffort` | `Spec => EveryTypeTried` |
| `GrpcWebProofs!DownloadsAreWhole` | `Spec => []DownloadIsWhole` |
| `GrpcWebProofs!ListingsAreWhole` | `Spec => []ListingIsWholeOrEmpty` |
| `GrpcWebProofs!WholeAnswersDecide` | `Spec => []WholeAnswerDecides` |
| `TraceExportProofs!TypeCorrect` | `Spec => []TypeOK` |
| `TraceExportProofs!NoKnownSpanLost` | `Spec => []KnownSpansExported` |
| `TraceExportProofs!WholeTraces` | `Spec => []TracesWhole` |
| `TraceExportProofs!CopiesAreBounded` | `Spec => []OneCopyPerService` |
| `TraceExportProofs!ServicesBestEffort` | `Spec => EveryServiceTried` |
| `LineExportProofs!TableFollowsTheStream` | `Spec => []RowsFollowTheStream` |
| `LineExportProofs!NilMeansAllHolds` | `Spec => []NilMeansAll` |
| `LineExportProofs!SamplesAreKept` | `Spec => []SeriesKeepTheirSamples` |
| `LineExportProofs!EntriesAreKept` | `Spec => []LogEntryKept` |
| `PortForwardProofs!OwnBackendOnly` | `Spec => []ConnectedToOwnBackend` |
| `PortForwardProofs!NoFailureOutOfThePast` | `Spec => []FailureHasCause` |
| `StackDeployProofs!NoDanglingDependency` | `Spec => []DepsRegistered` |
| `StackDeployProofs!CommandsInOrder` | `Spec => []NothingRunsTooEarly` |
| `StackDeployProofs!GrafanaAfterBackends` | `Spec => []GrafanaIsLast` |
| `StackDeployProofs!NoDeadlock` | `Spec => []NeverStuck` |
| `StackConfigProofs!AcceptedIsDeployable` | `Spec => []AcceptedDeploys` |
| `StackConfigProofs!ButtonAgrees` | `Spec => []ButtonMatchesStack` |
| `StackConfigProofs!Precedence` | `Spec => []EnvironmentWins` |
| `StackConfigProofs!FlatConfigWorks` | `Spec => []FlatConfigReaches` |
| `StackConfigProofs!AddressesResolve` | `Spec => []LinksResolve` |
| `StackConfigProofs!InjectionAgrees` | `Spec => []FlatConfigInjectsTheSame` |
| `StackConfigProofs!ButtonFinds` | `Spec => []ButtonFindsDefaultStack` |

**ExportRun.** The properties speak of the end of an exporter or of the run, so they are not
inductive: the invariant has to say what is true in the middle. `DefersByPc` says which closes
are pending at which `pc`, `PositionByPc` that an exporter runs only when the loop stands on a
requested one; together with `EveryResourceOwned` they are inductive and give `NoLeak` and
`AppenderOrder`. `CountsAgree` ties the counters to the set of errors of the exporters that are
`Done`, `ProgressInv` says through which phases the run got where it is; they give
`ExitCodeCorrect` and, with a refinement mapping that reads each exporter's outcome off the
loop position and the errors, `RunKeepsContract`. `RowsInv` follows the rows of the running
exporter from `NoRows` to `saved = got` and gives `DurableSuccess`. `RunAdvances` takes each step
against a lexicographic measure: the exporter, the call (`Calls`, in the order of the source),
and what the loop it is in has yet to do (`Remaining`, which stays a natural number). A signal
comes once, so only a further line of a stream can repeat for ever. This is the safety core of
`BoundedRunExits`: what that adds, that a bounded wait ends, is fairness.

**ProfileExport.** `CountedIsSaved` needs to know that an existing file's pieces were put there
by a download that chose that file (`PiecesOwned`), that a file being written holds nothing but
what another download put there (`FreshOk`), and that settled files exist (`SavedFileExists`).
`LateOk` strengthens `AtMostOneLateFile`: a cancelled run has created no late file unless it is
past creation or has nothing left to create. `CollectionsBestEffort` maps each run to
`BestEffort` and shows that a step of one run is a step of its collection and a stutter of the
others.

**GrpcWeb.** `Parsed` says that the parser has taken nothing, the one message of a successful
call, or the trailer of a failed one: a frame that does not fit is refused before anything of
it is appended. `StatusIsMeant` shows that each form of trailer yields the status meant. What
a caller decodes (`TakenMessage`) is therefore the message the server sent, or nothing, and
once every frame was read it is that message (`WholeMessage`), which decides the answer.

**TraceExport.** `Distinct` says that no service is listed twice or still to come once it was
fetched; that needs a bijection between a listing and its set, by the library's theorems on
finite cardinals. It makes `Bounded` inductive: a fetch adds a row only to spans of a trace
through a service that had not fed them yet, so the count of feeding services grows with the
rows. `Collected` and `Whole` are `KnownSpansExported` and `TracesWhole` before the write, and
`Written` says that the table is empty until then and what was collected afterwards.

**LineExport.** The properties speak of `Samples(whole)`, the samples of all the lines that
arrived, which is a `FlattenSeq` and so a recursive function. Its equation for one more line
(`FlattenStep`) and the fact that the samples of fewer lines come first (`SamplesGrow`) are
shown by induction over a set of numbers (`SetInduction`, from the existence of minimal
elements): the library's induction theorems take an operator, which the provers cannot
instantiate. The invariant `RowsInv` says that the rows appended followed by the rows due are,
one by one, the samples of the lines read (`Faithful`): appending moves a row from one to the
other, and reading a line adds its samples at the end of both sides, none for a line that is
refused (`WorthOfLine`), those of its pairs or of its entry for one that is accepted
(`RowsOfSeries`, `RowOfLogEntry`). For an entry that needs `FirstSeverity`: what `Severities`
removes is the first key with a text, if there is one, and nothing else. `EndInv` says that the loop ends well only with nothing due.

**PortForward.** `PickedFits` says that a pod that was picked carries its backend's labels or is
lost, given that pods are listed only for a service with a selector (`ServiceSelects`).
`AllNoticed` says that what is wrong now is among the excuses, and that a lost pod left one
behind: a pod stops before it goes, and while it stopped the request was running. `RoutesFit`
excludes a missing route.

**StackDeploy.** `DepsFirst` (what has started has dependencies that succeeded), `EffectsStay`
(what succeeded has left its effects), `ReadyHasSucceeded` and `LoadedIsValid` are inductive; with
the finite case analysis of `Deps` and `Requires` they give the first three theorems. `NoDeadlock`
assumes a state in which nothing may proceed and nothing has failed (`Still`), and takes the
resources in an order the proof exhibits: namespace, backends, support objects, collectors,
operators and their controllers, Grafana, its data sources. Each finds its dependencies ready and
what it waits for created by those before it, so everything has succeeded. This is the safety
core of `ReadyOrFailed`: what it adds, that a step that may happen does, is fairness.

**StackConfig.** `Outcome` says that each of `stack`, `button` and `app` is either untouched or
exactly what its function computes from `cfg` and `env`, and that a registered stack was not
refused; it is inductive because neither dictionary changes during a load. The seven properties
then follow from the definitions, for every dictionary and environment.

**Model-checked only.** Liveness (`BoundedRunExits`, `ReadyOrFailed`, `RetriesConverge`): it
rests on fairness and ENABLED, which the provers cannot handle.

Where a proof compares the present and the next value of a definition by cases, as the phases
of `BestEffort` or `Deps`, the definition is a function or an IF: tlapm 1.4.5 accepts
`UNCHANGED` of a CASE with three arms whose variables do change.

## 5. Not modelled

* Header, URL and log text; time stamps and numbers of rows beyond being kept; tags and
  references of spans.
* The fields of the JSON answers of Parca: over the JSON variants a listing or a profile is
  accepted or refused as a whole.
* A gRPC-web server that breaks the protocol: frames after the trailer, several trailers.
* The images, the export directory and the scrape targets of a configuration, and the checks of
  its value types.
* The limit VictoriaTraces puts on a query without one (`traces.go:166`): it belongs to the
  backend and appears nowhere in the repository.
* The operator's webhook (`extension.star:1089`): nothing in the repository orders it.
* The YAML text of the assets; the harness, scripts and sample application.

## 6. State of the plan

Written, in this order: `ExportContract`, `ExportRun` and its proofs; `StackDeploy` and its
proofs; `BestEffort`, `ProfileExport` and its proofs; `GrpcWeb` and its proofs; `TraceExport`;
`StackConfig` and its proofs; the links inside a stack; `LineExport`; `PortForward` and its
proofs; the proofs of `TraceExport`, of `WholeAnswerDecides` and of
`LineExport`.

Left: the JSON fields of Parca's other variants, and the value types of a configuration.
