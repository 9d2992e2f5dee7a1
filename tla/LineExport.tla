------------------------------- MODULE LineExport -------------------------------
(***************************************************************************)
(* ExportMetrics (metrics.go) and ExportLogs (logs.go): how the JSON lines *)
(* of one response become rows of a table.  A scanner cuts the body into   *)
(* lines, a line is decoded, its rows are appended one by one, and at the  *)
(* end of the body the appender is flushed.  ExportRun has the connection, *)
(* the appender and their deferred closes.                                 *)
(*                                                                         *)
(* A line says whether it is a JSON object and which keys that has; the    *)
(* keys are a function to values, a value a record of its type and text.   *)
(***************************************************************************)
EXTENDS Naturals, SequencesExt

CONSTANTS
    Responses,  \* table -> the sequences of lines its backend may answer
    Times       \* the texts that time.Parse accepts

IsSequence(s) == s \in Seq(ToSet(s))

\* A response consists of lines, and the two arrays of an object of metrics, where it has
\* them, of elements: a value that is no array is refused like one with a text in it.
ResponsesAssumption ==
    \A t \in {"metrics", "logs"} : \A r \in Responses[t] :
        /\ IsSequence(r)
        /\ \A i \in DOMAIN r :
               /\ r[i].object \in BOOLEAN
               /\ t = "metrics" =>
                      \A a \in {"values", "timestamps"} \cap DOMAIN r[i].keys :
                          IsSequence(r[i].keys[a])

ASSUME ResponsesAreLines == ResponsesAssumption

VARIABLES
    table,      \* "metrics" or "logs"
    response,   \* the lines that the backend has to send
    whole,      \* how many of them arrive whole
    ending,     \* how the body ends: "end", "error", unnoticed ("eof"), "long" line
    pc,         \* "scan", "flush", then "done" or "failed"
    next,       \* the line that the scanner reads next
    series,     \* what the last line of metrics was decoded to
    due,        \* the rows of the last line that are not appended yet
    rows        \* the rows appended, each with the line it is from

vars == <<table, response, whole, ending, pc, next, series, due, rows>>

Get(keys, key, default) == IF key \in DOMAIN keys THEN keys[key] ELSE default
NoKeys == [k \in {} |-> ""]

\* Not a JSON object.  The empty line that ExportLogs looks for has the same effect.
Malformed == [object |-> FALSE, keys |-> NoKeys]

\* A body that breaks off inside a line leaves a piece of it, which the scanner hands out
\* as the last line; an object without its last brace is none.
Torn == IF ending \in {"error", "eof"} /\ whole < Len(response) THEN <<Malformed>> ELSE <<>>

Arrived == SubSeq(response, 1, whole) \o Torn

-----------------------------------------------------------------------------
(* A line of VictoriaMetrics: a series with parallel values and timestamps *)

\* encoding/json leaves the zero value for null and refuses the line for a value of
\* another type: an infinite sample, which the backend writes as a text, costs the series.
Unmarshal(v, zero) == IF v.type = "null" THEN zero ELSE v.text

SeriesDecodes(keys) ==
    /\ \A k \in DOMAIN Get(keys, "metric", NoKeys) : keys.metric[k].type \in {"text", "null"}
    /\ \A a \in {"values", "timestamps"} \cap DOMAIN keys :
           \A i \in DOMAIN keys[a] : keys[a][i].type \in {"number", "null"}

\* json.Unmarshal adds to the map of a struct, replaces its slices, and keeps the fields
\* that the line has no key for.
Fill(struct, keys) ==
    LET labels == Get(keys, "metric", NoKeys)
        Labels == DOMAIN labels \cup DOMAIN struct.metric
        Array(a) == IF a \in DOMAIN keys
                    THEN [i \in DOMAIN keys[a] |-> Unmarshal(keys[a][i], "0")]
                    ELSE struct[a]
    IN [metric |-> [k \in Labels |-> IF k \in DOMAIN labels THEN Unmarshal(labels[k], "")
                                     ELSE struct.metric[k]],
        values |-> Array("values"),
        timestamps |-> Array("timestamps")]

ZeroLine == [metric |-> NoKeys, values |-> <<>>, timestamps |-> <<>>]

\* The bug of declaring the variable before the loop.
DecodedOverLast(keys) == Fill(series, keys)

\* The variable is declared in the loop: every line fills a fresh struct.
Decoded(keys) == Fill(ZeroLine, keys)

\* One row per pair; the shorter array ends the loop.
MetricRows(s) ==
    [i \in DOMAIN s.values \cap DOMAIN s.timestamps |->
        [at |-> next, time |-> s.timestamps[i], value |-> s.values[i],
         name |-> Get(s.metric, "__name__", ""),
         labels |-> [k \in DOMAIN s.metric \ {"__name__"} |-> s.metric[k]]]]

-----------------------------------------------------------------------------
(* A line of VictoriaLogs: one entry *)

SystemKeys == {"_msg", "_time", "_stream"}
severityKeys == <<"severityText", "level", "severity">>

\* The text at a key, empty if there is nothing or something else.
Text(keys, key) ==
    LET v == Get(keys, key, [type |-> "null", text |-> ""])
    IN IF v.type = "text" THEN v.text ELSE ""

HasTime(keys) == Text(keys, "_time") \in Times

\* The bug of removing every severity key, not only the one that is used.
AllSeverities(keys) == ToSet(severityKeys) \cap DOMAIN keys

\* The first severity key with a text, if there is one, is used and removed.
Severities(keys) ==
    {severityKeys[p] : p \in {p \in DOMAIN severityKeys :
                                  /\ Text(keys, severityKeys[p]) # ""
                                  /\ \A q \in 1 .. p - 1 : Text(keys, severityKeys[q]) = ""}}

nilIfEmpty(text) == IF text = "" THEN "NULL" ELSE text

LogRow(keys) ==
    [at |-> next, time |-> Text(keys, "_time"), message |-> Text(keys, "_msg"),
     stream |-> nilIfEmpty(Text(keys, "_stream")),
     severity |-> IF Severities(keys) = {} THEN "NULL"
                  ELSE Text(keys, CHOOSE k \in Severities(keys) : TRUE),
     fields |-> [k \in DOMAIN keys \ (SystemKeys \cup Severities(keys)) |-> keys[k].text]]

-----------------------------------------------------------------------------
(* The loop of either exporter *)

Init ==
    /\ table \in {"metrics", "logs"}
    /\ response \in Responses[table]
    /\ ending \in {"end", "error", "eof", "long"}
    /\ whole \in 0 .. Len(response)
    /\ ending = "end" => whole = Len(response)
    /\ ending = "long" => whole < Len(response)
    /\ pc = "scan" /\ next = 1 /\ series = ZeroLine /\ due = <<>> /\ rows = <<>>

\* The bug of keeping an entry whose time is missing or is none.
AcceptsAnyTime(l) == l.object /\ (table = "metrics" => SeriesDecodes(l.keys))

Accepts(l) == l.object /\ IF table = "metrics" THEN SeriesDecodes(l.keys) ELSE HasTime(l.keys)

\* A line that is not accepted is skipped with a warning.
ReadLine ==
    /\ pc = "scan" /\ due = <<>> /\ next <= Len(Arrived)
    /\ next' = next + 1
    /\ LET l == Arrived[next] IN
       \/ ~Accepts(l) /\ UNCHANGED <<series, due>>
       \/ Accepts(l) /\ table = "metrics" /\ series' = Decoded(l.keys) /\ due' = MetricRows(series')
       \/ Accepts(l) /\ table = "logs" /\ due' = <<LogRow(l.keys)>> /\ UNCHANGED series
    /\ UNCHANGED <<table, response, whole, ending, pc, rows>>

AppendRow ==
    /\ pc = "scan" /\ due # <<>>
    /\ rows' = Append(rows, Head(due)) /\ due' = Tail(due)
    /\ UNCHANGED <<table, response, whole, ending, pc, next, series>>

Leave(outcome) ==
    pc' = outcome /\ UNCHANGED <<table, response, whole, ending, next, series, due, rows>>

AppendFails == pc = "scan" /\ due # <<>> /\ Leave("failed")

\* The bug of not asking the scanner for its error.
AnyEndIsGood == TRUE

\* scanner.Err is nil at the end of a body, wherever the connection put it.
EndIsGood == ending \in {"end", "eof"}

ScanEnds ==
    /\ pc = "scan" /\ due = <<>> /\ next > Len(Arrived)
    /\ Leave(IF EndIsGood THEN "flush" ELSE "failed")

Flush == pc = "flush" /\ \E outcome \in {"done", "failed"} : Leave(outcome)

Next == ReadLine \/ AppendRow \/ AppendFails \/ ScanEnds \/ Flush

Spec == Init /\ [][Next]_vars

-----------------------------------------------------------------------------
(* Properties *)

\* How many rows a line is worth: the pairs of a series, one for an entry with a time.
Worth(l) ==
    LET samples == DOMAIN Get(l.keys, "values", <<>>) \cap DOMAIN Get(l.keys, "timestamps", <<>>)
    IN IF ~l.object THEN 0
       ELSE IF table = "metrics" THEN IF SeriesDecodes(l.keys) THEN Cardinality(samples) ELSE 0
       ELSE IF HasTime(l.keys) THEN 1 ELSE 0

\* The pairs and entries of the first n lines, each with its line and its number in it.
Samples(n) ==
    FlattenSeq([k \in 1 .. n |-> [j \in 1 .. Worth(response[k]) |-> [line |-> k, nth |-> j]]])

LinesOf(samples) == [i \in DOMAIN samples |-> samples[i].line]

OriginOf == [i \in DOMAIN rows |-> rows[i].at]

\* However the body breaks off and whichever lines are skipped, the table holds rows of
\* lines that arrived whole, in their order, none skipped and none twice: neither a line
\* that is refused nor the piece of a torn one costs or adds a row of another.
RowsFollowTheStream == IsPrefix(OriginOf, LinesOf(Samples(whole)))

\* An exporter that returns nil has put every line it received into the table, and has
\* been told of no error: a line beyond the scanner's buffer or a broken connection is
\* reported.  (A connection may end early without telling.)
NilMeansAll ==
    pc = "done" => OriginOf = LinesOf(Samples(whole)) /\ ending \notin {"error", "long"}

Number(v) == IF v.type = "null" THEN "0" ELSE v.text

\* Row r is the j-th pair of a series.
IsPair(r, keys, j) ==
    LET metric == Get(keys, "metric", NoKeys)
    IN /\ DOMAIN r.labels = DOMAIN metric \ {"__name__"}
       /\ \A k \in DOMAIN r.labels : r.labels[k] = Text(metric, k)
       /\ r.name = Text(metric, "__name__")
       /\ r.time = Number(keys.timestamps[j]) /\ r.value = Number(keys.values[j])

\* No series is written with the name, a label, a timestamp or a value of another line,
\* whatever keys its own line leaves out, and its pairs are neither swapped nor repeated:
\* each row holds the pair that its place in the table stands for.
SeriesKeepTheirSamples ==
    table = "metrics" =>
        \A i \in DOMAIN rows :
            IsPair(rows[i], response[rows[i].at].keys, Samples(whole)[i].nth)

\* Row r says what an entry does: its columns are the entry's system fields, NULL for a
\* stream without a text, the severity is that of the first key with a text and NULL if
\* there is none, and the fields are all the other keys with their texts.
IsEntry(r, keys) ==
    LET rest == DOMAIN keys \ {"_msg", "_time", "_stream"}
        stream == Text(keys, "_stream")
        found == {p \in DOMAIN severityKeys : Text(keys, severityKeys[p]) # ""}
        Takes(used, severity) ==
            r.severity = severity /\ r.fields = [k \in rest \ used |-> keys[k].text]
    IN /\ r.time = Text(keys, "_time") /\ r.message = Text(keys, "_msg")
       /\ r.stream = IF stream = "" THEN "NULL" ELSE stream
       /\ \/ found = {} /\ Takes({}, "NULL")
          \/ \E p \in found :
                 /\ \A q \in found : p <= q
                 /\ Takes({severityKeys[p]}, Text(keys, severityKeys[p]))

\* Every key of an entry ends up in exactly one place of its own row, whatever lines come
\* before: time, message and stream in their columns, the first severity that has a text
\* in its column and no longer in the fields, everything else in the fields, the other
\* severities included.  Only a message or stream that is no text leaves nothing.
LogEntryKept ==
    table = "logs" => \A i \in DOMAIN rows : IsEntry(rows[i], response[rows[i].at].keys)

=============================================================================
