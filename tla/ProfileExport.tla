------------------------------ MODULE ProfileExport ------------------------------
(***************************************************************************)
(* ExportProfiles (pprof.go): probe Parca's API variants in turn, then     *)
(* download every listed profile type into a file named after the type and *)
(* the second its download began.  Several runs of the CLI may share the   *)
(* output directory.  Parca's answers, the clock, signals and other runs   *)
(* come at any time; the bytes of a profile are abstracted to which type   *)
(* and run they belong to, the four protocols to what each makes of a      *)
(* blank answer.                                                           *)
(***************************************************************************)
EXTENDS Naturals, Sequences

CONSTANTS
    Runs,       \* the runs of the CLI that share an output directory
    Types,      \* profile type names
    Listings,   \* the listings Parca may answer with: sequences of types
    SafeName,   \* sanitizeProfileName, as a function on Types
    MaxTime     \* bound on the clock, in seconds

ASSUME ListingsAssumption == Listings \subseteq Seq(Types)
ASSUME SafeNameAssumption == DOMAIN SafeName = Types
ASSUME MaxTimeAssumption == MaxTime \in Nat

Candidates == 1 .. 4    \* parcaAPICandidates, in order
GrpcWeb == {1}          \* those that speak gRPC-web

VARIABLES
    pc,         \* where each run is in ExportProfiles
    ctx,        \* "live", or "cancelled" by a signal
    probe,      \* the candidate being probed, then the one in use
    left,       \* the profile types not settled yet, the current one first
    now,        \* downloadProfile's timestamp
    settled,    \* the settled downloads: type, whether counted, and file
    files,      \* the profiles directory: file -> the pieces of data in it
    clock,
    late        \* history: how many files each run created after its signal

vars == <<pc, ctx, probe, left, now, settled, files, clock, late>>

\* What a file can hold: the data of a download, whole or cut short.
Piece == [type : Types, by : Runs, whole : BOOLEAN]
File == {SafeName[t] : t \in Types} \X (0 .. MaxTime)
FileOf(r) == <<SafeName[Head(left[r])], now[r]>>

-----------------------------------------------------------------------------
Init ==
    /\ pc = [r \in Runs |-> "mkdir"]
    /\ ctx = [r \in Runs |-> "live"]
    /\ probe = [r \in Runs |-> 1]
    /\ left = [r \in Runs |-> <<>>]
    /\ now = [r \in Runs |-> 0]
    /\ settled = [r \in Runs |-> <<>>]
    /\ files = [f \in {} |-> {}]
    /\ clock = 0
    /\ late = [r \in Runs |-> 0]

\* One run moves; the others stay where they are.
Goto(r, place) == pc' = [pc EXCEPT ![r] = place]

MakeDirectory(r) ==
    /\ pc[r] = "mkdir"
    /\ Goto(r, "probe") \/ Goto(r, "failed")
    /\ UNCHANGED <<ctx, probe, left, now, settled, files, clock, late>>

\* discoverParcaAPI: a candidate whose answer decodes ends the discovery.
Discover(r, types) ==
    /\ Goto(r, "next")
    /\ left' = [left EXCEPT ![r] = types]
    /\ UNCHANGED <<ctx, probe, now, settled, files, clock, late>>

ProbeAnswered(r) ==
    /\ pc[r] = "probe"
    /\ ctx[r] = "live"
    /\ \E types \in Listings : Discover(r, types)

\* An empty 200 response holds no gRPC-web frame, hence no profile type and no error.
ProbeBlank(r) ==
    /\ pc[r] = "probe"
    /\ ctx[r] = "live"
    /\ probe[r] \in GrpcWeb
    /\ Discover(r, <<>>)

\* The bug of a discovery that runs past the last candidate.
ProbePastTheLast(r) ==
    /\ pc[r] = "probe"
    /\ IF probe[r] \in Candidates
       THEN probe' = [probe EXCEPT ![r] = @ + 1] /\ UNCHANGED pc
       ELSE Goto(r, "skipped") /\ UNCHANGED probe
    /\ UNCHANGED <<ctx, left, now, settled, files, clock, late>>

\* Transport error, another status, HTML, a gRPC status or an undecodable body.
ProbeRefused(r) ==
    /\ pc[r] = "probe"
    /\ IF probe[r] + 1 \in Candidates
       THEN probe' = [probe EXCEPT ![r] = @ + 1] /\ UNCHANGED pc
       ELSE Goto(r, "skipped") /\ UNCHANGED probe
    /\ UNCHANGED <<ctx, left, now, settled, files, clock, late>>

StartDownload(r) ==
    /\ pc[r] = "next"
    /\ left[r] # <<>>
    /\ now' = [now EXCEPT ![r] = clock]
    /\ Goto(r, "query")
    /\ UNCHANGED <<ctx, probe, left, settled, files, clock, late>>

Finish(r) ==
    /\ pc[r] = "next"
    /\ left[r] = <<>>
    /\ Goto(r, "done")
    /\ UNCHANGED <<ctx, probe, left, now, settled, files, clock, late>>

\* The bug of stopping at the first failed download.
SettleAndStop(r, counted) ==
    /\ settled' = [settled EXCEPT ![r] =
           Append(@, [type |-> Head(left[r]), counted |-> counted, file |-> FileOf(r)])]
    /\ left' = [left EXCEPT ![r] = IF counted THEN Tail(@) ELSE <<>>]
    /\ Goto(r, "next")

\* downloadProfile returns: count it, or warn and continue.
Settle(r, counted) ==
    /\ settled' = [settled EXCEPT ![r] =
           Append(@, [type |-> Head(left[r]), counted |-> counted, file |-> FileOf(r)])]
    /\ left' = [left EXCEPT ![r] = Tail(@)]
    /\ Goto(r, "next")

\* The bug of a request that does not carry the run's context.
QueryWithoutContext(r) ==
    /\ pc[r] = "query"
    /\ Goto(r, "create")
    /\ UNCHANGED <<ctx, probe, left, now, settled, files, clock, late>>

\* The response has been read and holds pprof data.
QuerySucceeds(r) ==
    /\ pc[r] = "query"
    /\ ctx[r] = "live"
    /\ Goto(r, "create")
    /\ UNCHANGED <<ctx, probe, left, now, settled, files, clock, late>>

QueryFails(r) ==
    /\ pc[r] = "query"
    /\ Settle(r, FALSE)
    /\ UNCHANGED <<ctx, probe, now, files, clock, late>>

\* os.Create: a new file, or an old one truncated.
CreateFile(r) ==
    /\ pc[r] = "create"
    /\ files' = [f \in DOMAIN files \cup {FileOf(r)} |->
                     IF f = FileOf(r) THEN {} ELSE files[f]]
    /\ late' = [late EXCEPT ![r] = IF ctx[r] = "cancelled" THEN @ + 1 ELSE @]
    /\ Goto(r, "write")
    /\ UNCHANGED <<ctx, probe, left, now, settled, clock>>

CreateFails(r) ==
    /\ pc[r] = "create"
    /\ Settle(r, FALSE)
    /\ UNCHANGED <<ctx, probe, now, files, clock, late>>

\* One write from offset 0.  What another run wrote since the truncation is
\* replaced, or its tail remains when it is longer.
Put(r, pieces) ==
    \E rest \in {{}, files[FileOf(r)]} : files' = [files EXCEPT ![FileOf(r)] = pieces \cup rest]

Data(r, whole) == [type |-> Head(left[r]), by |-> r, whole |-> whole]

\* The bug of counting a download whose write failed.
WriteFailsCounted(r) ==
    /\ pc[r] = "write"
    /\ Put(r, {}) \/ Put(r, {Data(r, FALSE)})
    /\ Settle(r, TRUE)
    /\ UNCHANGED <<ctx, probe, now, clock, late>>

WriteSucceeds(r) ==
    /\ pc[r] = "write"
    /\ Put(r, {Data(r, TRUE)})
    /\ Settle(r, TRUE)
    /\ UNCHANGED <<ctx, probe, now, clock, late>>

\* The file stays behind, with a part of the data or none.
WriteFails(r) ==
    /\ pc[r] = "write"
    /\ Put(r, {}) \/ Put(r, {Data(r, FALSE)})
    /\ Settle(r, FALSE)
    /\ UNCHANGED <<ctx, probe, now, clock, late>>

Signal(r) ==
    /\ ctx[r] = "live"
    /\ ctx' = [ctx EXCEPT ![r] = "cancelled"]
    /\ UNCHANGED <<pc, probe, left, now, settled, files, clock, late>>

Tick ==
    /\ clock < MaxTime
    /\ clock' = clock + 1
    /\ UNCHANGED <<pc, ctx, probe, left, now, settled, files, late>>

Step(r) ==
    \/ MakeDirectory(r)
    \/ ProbeAnswered(r) \/ ProbeBlank(r) \/ ProbeRefused(r)
    \/ StartDownload(r) \/ Finish(r)
    \/ QuerySucceeds(r) \/ QueryFails(r)
    \/ CreateFile(r) \/ CreateFails(r)
    \/ WriteSucceeds(r) \/ WriteFails(r)

Next == (\E r \in Runs : Step(r) \/ Signal(r)) \/ Tick

Spec == Init /\ [][Next]_vars

-----------------------------------------------------------------------------
(* Properties *)

\* Every variable keeps its type; above all, discovery never probes past the last
\* API variant and the directory holds only files the runs' downloads name.
TypeOK ==
    /\ pc \in [Runs -> {"mkdir", "probe", "next", "query", "create", "write",
                        "done", "skipped", "failed"}]
    /\ ctx \in [Runs -> {"live", "cancelled"}]
    /\ probe \in [Runs -> Candidates]
    /\ left \in [Runs -> Seq(Types)]
    /\ now \in [Runs -> 0 .. MaxTime]
    /\ settled \in [Runs -> Seq([type : Types, counted : BOOLEAN, file : File])]
    /\ DOMAIN files \subseteq File
    /\ \A f \in DOMAIN files : files[f] \subseteq Piece
    /\ clock \in 0 .. MaxTime
    /\ late \in [Runs -> Nat]

\* No other download of this or another run uses the file of the i-th one of r.
Alone(r, i) ==
    /\ \A q \in Runs : \A j \in DOMAIN settled[q] :
           settled[q][j].file = settled[r][i].file => q = r /\ j = i
    /\ \A q \in Runs : pc[q] = "write" => FileOf(q) # settled[r][i].file

Saved(r, i) ==
    files[settled[r][i].file] = {[type |-> settled[r][i].type, by |-> r, whole |-> TRUE]}

\* A download that is counted left all of its data, and nothing else, in its file,
\* unless another download chose the same file: neither a failed write nor a
\* truncation is ever counted.
CountedIsSaved ==
    \A r \in Runs : \A i \in DOMAIN settled[r] :
        settled[r][i].counted /\ Alone(r, i) => Saved(r, i)

\* A signal stops the downloads: what was already received may still be saved, and
\* no further file is created, however many profile types are left.
AtMostOneLateFile == \A r \in Runs : late[r] <= 1

\* Each run is a best-effort collection: every listed type is tried once, in order,
\* and a failed download never keeps the next from being tried.
PhaseOf == [mkdir |-> "listing", probe |-> "listing",
            next |-> "collecting", query |-> "collecting",
            create |-> "collecting", write |-> "collecting",
            done |-> "succeeded", skipped |-> "skipped", failed |-> "failed"]

Collection(r) == INSTANCE BestEffort WITH
    Items <- Types,
    phase <- PhaseOf[pc[r]],
    todo <- left[r],
    settled <- [i \in DOMAIN settled[r] |->
                   [item |-> settled[r][i].type, kept |-> settled[r][i].counted]]

EveryTypeTried ==
    /\ \A r \in Runs : Collection(r)!Init
    /\ [][\A r \in Runs : [Collection(r)!Next]_(Collection(r)!vars)]_vars

\* "saves the pprof binary to profilesDir" (pprof.go:236): every download that is
\* counted is there when a run that had the directory to itself is done.
EveryCountedIsSaved ==
    \A r \in Runs : Runs = {r} /\ pc[r] = "done" =>
        \A i \in DOMAIN settled[r] : settled[r][i].counted => Saved(r, i)

=============================================================================
