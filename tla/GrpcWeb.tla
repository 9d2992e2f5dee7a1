-------------------------------- MODULE GrpcWeb --------------------------------
(***************************************************************************)
(* One call of grpcWebUnary (pprof.go) and the decoding of its answer:     *)
(* the listing of profile types or the query for one profile.  The server  *)
(* answers with a data frame and a trailer, or with its error only; the    *)
(* connection may end after any byte without the client being told, as a   *)
(* body without a declared length does.                                    *)
(*                                                                         *)
(* A message is its protobuf fields in order.  A field is one byte long, a *)
(* line of a trailer as well: a frame that is cut is refused wherever the  *)
(* cut is, so longer ones make no difference.                              *)
(***************************************************************************)
EXTENDS Naturals, Sequences, Functions

CONSTANTS
    Values,     \* names of profile types, pprof data
    Empty,      \* a name or pprof data of length 0
    Messages,   \* the messages the server may answer with
    Errors,     \* the gRPC statuses of failed calls
    Other       \* a trailer line without a number for grpc-status

Fields == [num : {0, 1, 2, 6}, value : Values \cup {Empty}]

ASSUME MessagesAssumption == Messages \subseteq Seq(Fields)
ASSUME ErrorsAssumption == Errors \subseteq Nat \ {0} /\ Other \notin Nat

Malformed == 0      \* no field has this number: protowire refuses it
ProfileType == 1    \* ProfileTypesResponse, and the name within an entry
Pprof == 6          \* QueryResponse
Header == 5         \* bytes before a frame's payload

VARIABLES
    call,       \* "types" or "query"
    meant,      \* the status the server ends the call with
    frames,     \* what it sends: [trailer, content], the length being the content's
    pc,
    rest,       \* the frames that begin in what is left of body
    have,       \* len(body)
    payload,    \* messagePayload
    status,     \* grpcStatus
    result      \* the fields the caller takes from the message

vars == <<call, meant, frames, pc, rest, have, payload, status, result>>

Data(m) == [trailer |-> FALSE, content |-> m]
Trailer(lines) == [trailer |-> TRUE, content |-> lines]

\* A trailer gives the status once, among other lines, or the HTTP headers give it.
Trailers(s) == {Trailer(<<s>>), Trailer(<<s, Other>>), Trailer(<<Other, s>>)}

Answers(s) ==
    IF s = 0 THEN {<<Data(m), t>> : m \in Messages, t \in Trailers(s)}
    ELSE {<<t>> : t \in Trailers(s)} \cup {<<>>}

Size(fs) == FoldFunction(+, 0, [i \in DOMAIN fs |-> Header + Len(fs[i].content)])

Init ==
    /\ call \in {"types", "query"}
    /\ meant \in Errors \cup {0}
    /\ frames \in Answers(meant)
    /\ pc = "sent"
    /\ rest = frames /\ have = 0
    /\ payload = <<>> /\ status = 0
    /\ result = <<>>

-----------------------------------------------------------------------------
(* grpcWebUnary *)

\* No response, another HTTP status, a noticed truncation, a page of HTML.
HttpFails ==
    /\ pc = "sent"
    /\ pc' = "failed"
    /\ UNCHANGED <<call, meant, frames, rest, have, payload, status, result>>

ReadAll ==
    /\ pc = "sent"
    /\ have' \in 0 .. Size(frames)
    /\ pc' = "parse"
    /\ UNCHANGED <<call, meant, frames, rest, payload, status, result>>

Refuse ==
    /\ pc' = "refused"
    /\ UNCHANGED <<call, meant, frames, rest, have, payload, status, result>>

Fits(frame) == Len(frame.content) <= have - Header

TooShort == pc = "parse" /\ have \in 1 .. Header - 1 /\ Refuse

TooLong == pc = "parse" /\ have >= Header /\ rest # <<>> /\ ~Fits(Head(rest)) /\ Refuse

\* The frame at the front of body, whole.
NextFrame(trailer) ==
    /\ pc = "parse" /\ have >= Header /\ rest # <<>>
    /\ Fits(Head(rest)) /\ Head(rest).trailer = trailer
    /\ have' = have - Header - Len(Head(rest).content)
    /\ rest' = Tail(rest)
    /\ UNCHANGED <<call, meant, frames, pc, result>>

\* The bug of taking as much of a frame as there is.
DataFrameOrPart ==
    \/ NextFrame(FALSE) /\ payload' = payload \o Head(rest).content /\ UNCHANGED status
    \/ /\ pc = "parse" /\ have >= Header
       /\ rest # <<>> /\ ~Fits(Head(rest)) /\ ~Head(rest).trailer
       /\ payload' = payload \o SubSeq(Head(rest).content, 1, have - Header)
       /\ have' = 0
       /\ UNCHANGED <<call, meant, frames, pc, rest, status, result>>

DataFrame ==
    /\ NextFrame(FALSE)
    /\ payload' = payload \o Head(rest).content
    /\ UNCHANGED status

\* The bug of a line without a status resetting the one before it.
StatusOfLastLine(lines) == IF lines[Len(lines)] \in Nat THEN lines[Len(lines)] ELSE 0

\* parseGRPCWebTrailer: the last line with a number decides, and 0 stands for none.
TrailerStatus(lines) ==
    LET given == {i \in DOMAIN lines : lines[i] \in Nat} IN
    IF given = {} THEN 0
    ELSE lines[CHOOSE i \in given : \A j \in given : j <= i]

TrailerFrame ==
    /\ NextFrame(TRUE)
    /\ status' = TrailerStatus(Head(rest).content)
    /\ UNCHANGED payload

EndOfBody ==
    /\ pc = "parse" /\ have = 0
    /\ pc' = IF status = 0 THEN "decode" ELSE "refused"
    /\ UNCHANGED <<call, meant, frames, rest, have, payload, status, result>>

-----------------------------------------------------------------------------
(* The callers: parseProfileTypeNamesProto and parseQueryResponsePprofProto *)

Named(field) == field.num = ProfileType /\ field.value # Empty
TypeNames(m) == SelectSeq(m, Named)

\* The bug of a caller that does not look whether there is any pprof data.
EmptyIsData(field) == field.num = Pprof

IsData(field) == field.num = Pprof /\ field.value # Empty

DecodeTypes ==
    /\ pc = "decode" /\ call = "types"
    /\ IF \E i \in DOMAIN payload : payload[i].num = Malformed
       THEN Refuse
       ELSE /\ result' = TypeNames(payload)
            /\ pc' = "accepted"
            /\ UNCHANGED <<call, meant, frames, rest, have, payload, status>>

\* The first pprof field counts, and nothing after it is looked at.
DecodeQuery ==
    /\ pc = "decode" /\ call = "query"
    /\ LET stops == {i \in DOMAIN payload : payload[i].num \in {Malformed, Pprof}}
           first == {i \in stops : \A j \in stops : i <= j}
       IN \/ /\ \E i \in first : IsData(payload[i]) /\ result' = <<payload[i]>>
             /\ pc' = "accepted"
             /\ UNCHANGED <<call, meant, frames, rest, have, payload, status>>
          \/ (\A i \in first : ~IsData(payload[i])) /\ Refuse

Next ==
    \/ HttpFails \/ ReadAll
    \/ TooShort \/ TooLong \/ DataFrame \/ TrailerFrame \/ EndOfBody
    \/ DecodeTypes \/ DecodeQuery

Spec == Init /\ [][Next]_vars

-----------------------------------------------------------------------------
(* Properties *)

\* What is saved as a profile is pprof data the server sent, of a call that it ended
\* with success, wherever the connection ended.
DownloadIsWhole ==
    pc = "accepted" /\ call = "query" =>
        /\ meant = 0
        /\ \E i \in DOMAIN frames[1].content :
               LET field == frames[1].content[i] IN
               field.num = Pprof /\ field.value # Empty /\ result = <<field>>

\* What is taken for Parca's profile types are all of them, or what an empty message
\* lists: an answer that was cut never passes for a shorter listing.
ListingIsWholeOrEmpty ==
    pc = "accepted" /\ call = "types" /\ result # TypeNames(<<>>) =>
        /\ meant = 0
        /\ result = TypeNames(frames[1].content)

\* An answer that arrived as a whole, with a frame in it, is refused if and only if
\* the server reported an error or its message is not one the caller can use.
Usable ==
    LET m == frames[1].content IN
    /\ call = "types" => \A i \in DOMAIN m : m[i].num # Malformed
    /\ call = "query" => \E i \in DOMAIN m :
           /\ IsData(m[i])
           /\ \A j \in 1 .. i - 1 : m[j].num \notin {Malformed, Pprof}

WholeAnswerDecides ==
    /\ pc = "refused" /\ have = 0 /\ rest = <<>> => meant # 0 \/ ~Usable
    /\ pc = "accepted" /\ rest = <<>> /\ frames # <<>> => meant = 0 /\ Usable

=============================================================================
