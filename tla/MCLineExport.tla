------------------------------ MODULE MCLineExport ------------------------------
(* Values for the model checker's runs of LineExport. *)
EXTENDS LineExport, TLC

T(text) == [type |-> "text", text |-> text]
N(text) == [type |-> "number", text |-> text]
NullValue == [type |-> "null", text |-> ""]
Line(keys) == [object |-> TRUE, keys |-> keys]

\* Partial functions from a set of keys.
Dicts(keys, values) == UNION {[D -> values] : D \in SUBSET keys}

\* Series with and without labels and arrays, arrays of different lengths, a NaN and an
\* infinite sample.
MCSeries ==
    {Line("metric" :> m @@ "values" :> v @@ "timestamps" :> t) :
        m \in {"__name__" :> T("up") @@ "job" :> T("web"), "__name__" :> T("cpu")},
        v \in {<<N("1")>>, <<N("1"), NullValue>>, <<N("2"), T("Infinity")>>},
        t \in {<<>>, <<N("10")>>, <<N("10"), N("20")>>}}
    \cup {Malformed, Line("values" :> <<N("3")>> @@ "timestamps" :> <<N("30")>>),
          Line("metric" :> ("job" :> N("7"))), Line("values" :> <<N("3")>>), Line(NoKeys)}

\* Each severity key that has a text has one of its own.
SeverityOf == "severityText" :> T("error") @@ "level" :> T("warn") @@ "severity" :> T("info")
MCSeverities ==
    {s \in Dicts(DOMAIN SeverityOf, {T("error"), T("warn"), T("info"), T(""), N("3")}) :
        \A k \in DOMAIN s : s[k] \in {SeverityOf[k], T(""), N("3")}}

\* Entries with every mix of severities, and with odd times and system fields.
MCEntries ==
    {Line(s @@ "_time" :> T("noon") @@ "_msg" :> T("hello")) : s \in MCSeverities}
    \cup {Malformed, Line(NoKeys), Line("_time" :> T("yesterday") @@ "host" :> T("a")),
          Line("_time" :> N("12")), Line("_time" :> T("")),
          Line("_time" :> T("noon") @@ "_stream" :> T("{}") @@ "host" :> N("1")),
          Line("_time" :> T("dawn") @@ "_stream" :> T("") @@ "_msg" :> N("5"))}

UpTo(n, S) == UNION {[1 .. k -> S] : k \in 0 .. n}

MCResponses == [metrics |-> UpTo(2, MCSeries), logs |-> UpTo(2, MCEntries)]
MCTimes == {"noon", "dawn"}

=============================================================================
