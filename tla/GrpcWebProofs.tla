------------------------------ MODULE GrpcWebProofs ------------------------------
(***************************************************************************)
(* Proofs about GrpcWeb, for messages of any length, any set of statuses   *)
(* and a connection that ends anywhere.                                    *)
(***************************************************************************)
EXTENDS GrpcWeb, TLAPS

\* Nothing has been taken from the body yet; or it was the message of a successful
\* call, and perhaps its trailer; or it was the trailer of a failed one.
Parsed ==
    \/ rest = frames /\ payload = <<>> /\ status = 0
    \/ \E m \in Messages, t \in Trailers(0) :
           /\ meant = 0 /\ frames = <<Data(m), t>>
           /\ payload = m /\ status = 0 /\ rest \in {<<t>>, <<>>}
    \/ \E t \in Trailers(meant) :
           meant # 0 /\ frames = <<t>> /\ payload = <<>> /\ status = meant /\ rest = <<>>

Inv ==
    /\ meant \in Errors \cup {0} /\ frames \in Answers(meant)
    /\ pc \in {"sent", "failed", "parse", "refused", "decode", "accepted"}
    /\ pc \in {"sent", "parse", "decode", "accepted"} => Parsed
    /\ pc = "sent" => rest = frames
    /\ pc \in {"decode", "accepted"} => status = 0
    /\ DownloadIsWhole /\ ListingIsWholeOrEmpty /\ WholeAnswerDecides

-----------------------------------------------------------------------------
\* Whichever way a server writes its trailer, the status read from it is the one meant.
LEMMA StatusIsMeant ==
    ASSUME NEW s \in Nat, NEW t \in Trailers(s)
    PROVE  t.trailer /\ TrailerStatus(t.content) = s
<1>1. Other \notin Nat
  BY ErrorsAssumption
<1>2. t.trailer /\ t.content \in {<<s>>, <<s, Other>>, <<Other, s>>}
  BY DEF Trailers, Trailer
<1>3. CASE t.content \in {<<s>>, <<s, Other>>}
  <2>1. {i \in DOMAIN t.content : t.content[i] \in Nat} = {1}
    BY <1>1, <1>3
  <2>2. (CHOOSE i \in {1} : \A j \in {1} : j <= i) = 1
    OBVIOUS
  <2>3. QED
    BY <1>2, <1>3, <2>1, <2>2 DEF TrailerStatus
<1>4. CASE t.content = <<Other, s>>
  <2>1. {i \in DOMAIN t.content : t.content[i] \in Nat} = {2}
    BY <1>1, <1>4
  <2>2. (CHOOSE i \in {2} : \A j \in {2} : j <= i) = 2
    OBVIOUS
  <2>3. QED
    BY <1>2, <1>4, <2>1, <2>2 DEF TrailerStatus
<1>5. QED
  BY <1>2, <1>3, <1>4

\* What the parser finds at the front of the body, and what is behind it.
LEMMA Fronts ==
    ASSUME Inv, pc = "parse", rest # <<>>
    PROVE  \/ \E m \in Messages, t \in Trailers(0) :
                  /\ meant = 0 /\ frames = <<Data(m), t>> /\ rest = frames
                  /\ payload = <<>> /\ status = 0
                  /\ Head(rest) = Data(m) /\ Tail(rest) = <<t>>
           \/ \E m \in Messages, t \in Trailers(0) :
                  /\ meant = 0 /\ frames = <<Data(m), t>> /\ payload = m
                  /\ Head(rest) = t /\ Tail(rest) = <<>>
           \/ \E t \in Trailers(meant) :
                  /\ meant # 0 /\ frames = <<t>> /\ payload = <<>>
                  /\ Head(rest) = t /\ Tail(rest) = <<>>
<1>1. CASE rest = frames /\ payload = <<>> /\ status = 0
  <2>1. CASE meant = 0
    <3>1. PICK m \in Messages, t \in Trailers(0) : frames = <<Data(m), t>>
      BY <2>1 DEF Inv, Answers
    <3>2. Head(rest) = Data(m) /\ Tail(rest) = <<t>>
      BY <1>1, <3>1
    <3>3. QED
      BY <1>1, <2>1, <3>1, <3>2
  <2>2. CASE meant # 0
    <3>1. PICK t \in Trailers(meant) : frames = <<t>>
      BY <1>1, <2>2 DEF Inv, Answers
    <3>2. Head(rest) = t /\ Tail(rest) = <<>>
      BY <1>1, <3>1
    <3>3. QED
      BY <1>1, <2>2, <3>1, <3>2
  <2>3. QED
    BY <2>1, <2>2
<1>2. CASE \E m \in Messages, t \in Trailers(0) :
               /\ meant = 0 /\ frames = <<Data(m), t>>
               /\ payload = m /\ status = 0 /\ rest \in {<<t>>, <<>>}
  <2>1. PICK m \in Messages, t \in Trailers(0) :
            meant = 0 /\ frames = <<Data(m), t>> /\ payload = m /\ rest = <<t>>
    BY <1>2
  <2>2. Head(rest) = t /\ Tail(rest) = <<>>
    BY <2>1
  <2>3. QED
    BY <2>1, <2>2
<1>3. QED
  BY <1>1, <1>2 DEF Inv, Parsed

\* What a caller is given is the message of a successful call, or nothing.
LEMMA TakenMessage ==
    ASSUME Inv, pc = "decode"
    PROVE  payload = <<>> \/ (meant = 0 /\ payload = frames[1].content)
<1>1. CASE \E m \in Messages, t \in Trailers(0) :
               /\ meant = 0 /\ frames = <<Data(m), t>>
               /\ payload = m /\ status = 0 /\ rest \in {<<t>>, <<>>}
  BY <1>1 DEF Data
<1>2. QED
  BY <1>1 DEF Inv, Parsed

\* When every frame was read, the callers have the message of a successful call.
LEMMA WholeMessage ==
    ASSUME Inv, pc = "decode", rest = <<>>
    PROVE  (meant # 0 /\ frames = <<>>) \/ (meant = 0 /\ payload = frames[1].content)
<1>1. CASE rest = frames
  <2>1. meant # 0 /\ frames = <<>>
    <3>1. meant = 0 => \E m \in Messages, t \in Trailers(0) : frames = <<Data(m), t>>
      BY DEF Inv, Answers
    <3>2. QED
      BY <1>1, <3>1
  <2>2. QED
    BY <1>1, <2>1
<1>2. CASE \E m \in Messages, t \in Trailers(0) :
               /\ meant = 0 /\ frames = <<Data(m), t>>
               /\ payload = m /\ status = 0 /\ rest \in {<<t>>, <<>>}
  BY <1>2 DEF Data
<1>3. QED
  BY <1>1, <1>2 DEF Inv, Parsed

\* A step settles a call that was answered as a whole as its answer demands.
LEMMA DecidesKept ==
    ASSUME Inv, [Next]_vars
    PROVE  WholeAnswerDecides'
<1>1. CASE HttpFails \/ ReadAll \/ DataFrame \/ TrailerFrame
  BY <1>1 DEF HttpFails, ReadAll, DataFrame, TrailerFrame, NextFrame, WholeAnswerDecides
<1>2. CASE TooShort \/ TooLong
  BY <1>2 DEF TooShort, TooLong, Refuse, WholeAnswerDecides, Header
<1>3. CASE EndOfBody
  <2>1. pc' = "refused" /\ rest' = <<>> => meant' # 0
    BY <1>3 DEF EndOfBody, Inv, Parsed
  <2>2. pc' # "accepted"
    BY <1>3 DEF EndOfBody
  <2>3. QED
    BY <2>1, <2>2 DEF WholeAnswerDecides
<1>4. ASSUME DecodeTypes \/ DecodeQuery, rest' = <<>>, frames # <<>>
      PROVE  /\ UNCHANGED <<call, meant, frames>> /\ meant = 0
             /\ pc' \in {"refused", "accepted"} /\ (pc' = "accepted" <=> Usable)
  <2>1. UNCHANGED <<call, meant, frames, rest>> /\ pc = "decode" /\ rest = <<>>
    BY <1>4 DEF DecodeTypes, DecodeQuery, Refuse
  <2>2. meant = 0 /\ payload = frames[1].content
    BY <1>4, <2>1, WholeMessage
  <2>3. CASE DecodeTypes
    BY <2>1, <2>2, <2>3 DEF DecodeTypes, Refuse, Usable
  <2>4. CASE DecodeQuery
    <3> DEFINE stops == {i \in DOMAIN payload : payload[i].num \in {Malformed, Pprof}}
               first == {i \in stops : \A j \in stops : i <= j}
    <3>1. payload \in Seq(Fields)
      <4>1. \E m \in Messages : payload = m
        <5>1. PICK m \in Messages, t \in Trailers(0) : frames = <<Data(m), t>>
          BY <2>2 DEF Inv, Answers
        <5>2. QED
          BY <2>2, <5>1 DEF Data
      <4>2. QED
        BY <4>1, MessagesAssumption
    <3>2. call = "query" /\ Usable <=> call = "query" /\ \E i \in first : IsData(payload[i])
      <4>1. ASSUME NEW i \in DOMAIN payload, IsData(payload[i])
            PROVE  i \in first <=> \A j \in 1 .. i - 1 : payload[j].num \notin {Malformed, Pprof}
        <5>1. DOMAIN payload = 1 .. Len(payload) /\ Len(payload) \in Nat
          BY <3>1
        <5>2. i \in stops
          BY <4>1 DEF IsData
        <5>3. i \in first <=> \A j \in stops : i <= j
          BY <5>2
        <5>4. QED
          BY <5>1, <5>3
      <4>2. QED
        BY <2>2, <4>1 DEF Usable
    <3>3. /\ call = "query"
          /\ \/ (\E i \in first : IsData(payload[i])) /\ pc' = "accepted"
             \/ (\A i \in first : ~IsData(payload[i])) /\ pc' = "refused"
      BY <2>4, Zenon DEF DecodeQuery, Refuse
    <3>4. QED
      BY <2>1, <2>2, <3>2, <3>3
  <2>5. QED
    BY <1>4, <2>3, <2>4
<1>5. CASE (DecodeTypes \/ DecodeQuery) /\ rest' = <<>> /\ frames # <<>>
  <2>1. Usable' <=> Usable
    BY <1>4, <1>5 DEF Usable, IsData
  <2>2. QED
    BY <1>4, <1>5, <2>1 DEF WholeAnswerDecides
<1>6. CASE (DecodeTypes \/ DecodeQuery) /\ (rest' # <<>> \/ frames = <<>>)
  <2>1. UNCHANGED <<meant, frames, rest>> /\ pc = "decode"
    BY <1>6 DEF DecodeTypes, DecodeQuery, Refuse
  <2>2. frames = <<>> => meant # 0
    BY DEF Inv, Answers
  <2>3. QED
    BY <1>6, <2>1, <2>2 DEF WholeAnswerDecides
<1>7. CASE UNCHANGED vars
  BY <1>7 DEF vars, Inv, WholeAnswerDecides, Usable, IsData
<1>8. QED
  BY <1>1, <1>2, <1>3, <1>5, <1>6, <1>7 DEF Next

\* The part of the invariant that speaks of the body only.
LEMMA Stays ==
    ASSUME Parsed, UNCHANGED <<meant, frames, rest, payload, status>>
    PROVE  Parsed'
BY DEF Parsed, Trailers

-----------------------------------------------------------------------------
\* A message is taken whole or not at all.
LEMMA InvHolds == Spec => []Inv
<1>1. Init => Inv
  BY DEF Init, Inv, Parsed, DownloadIsWhole, ListingIsWholeOrEmpty, WholeAnswerDecides
<1>2. Inv /\ [Next]_vars => Inv'
  <2> SUFFICES ASSUME Inv, [Next]_vars
               PROVE  Inv'
    OBVIOUS
  <2> USE DecidesKept DEF DownloadIsWhole, ListingIsWholeOrEmpty
  <2>1. CASE HttpFails \/ ReadAll \/ TooShort \/ TooLong \/ UNCHANGED vars
    BY <2>1 DEF Inv, Parsed, HttpFails, ReadAll, TooShort, TooLong, Refuse, vars
  <2>2. CASE DataFrame \/ TrailerFrame
    <3>1. /\ UNCHANGED <<call, meant, frames, pc, result>>
          /\ pc = "parse" /\ rest # <<>> /\ rest' = Tail(rest)
          /\ Head(rest).trailer => payload' = payload /\ status' = TrailerStatus(Head(rest).content)
          /\ ~Head(rest).trailer => payload' = payload \o Head(rest).content /\ status' = status
      BY <2>2 DEF DataFrame, TrailerFrame, NextFrame
    <3>2. Parsed'
      <4>1. CASE \E m \in Messages, t \in Trailers(0) :
                     /\ meant = 0 /\ frames = <<Data(m), t>> /\ rest = frames
                     /\ payload = <<>> /\ status = 0
                     /\ Head(rest) = Data(m) /\ Tail(rest) = <<t>>
        <5>1. PICK m \in Messages, t \in Trailers(0) :
                  /\ meant = 0 /\ frames = <<Data(m), t>> /\ payload = <<>> /\ status = 0
                  /\ Head(rest) = Data(m) /\ Tail(rest) = <<t>>
          BY <4>1
        <5>2. payload' = m /\ status' = 0
          <6>1. m \in Seq(Fields)
            BY MessagesAssumption
          <6>2. ~Head(rest).trailer /\ Head(rest).content = m
            BY <5>1 DEF Data
          <6>3. <<>> \o m = m
            BY <6>1
          <6>4. QED
            BY <3>1, <5>1, <6>2, <6>3
        <5>3. QED
          BY <3>1, <5>1, <5>2 DEF Parsed
      <4>2. CASE \E m \in Messages, t \in Trailers(0) :
                     /\ meant = 0 /\ frames = <<Data(m), t>> /\ payload = m
                     /\ Head(rest) = t /\ Tail(rest) = <<>>
        <5>1. PICK m \in Messages, t \in Trailers(0) :
                  /\ meant = 0 /\ frames = <<Data(m), t>> /\ payload = m
                  /\ Head(rest) = t /\ Tail(rest) = <<>>
          BY <4>2
        <5>2. t.trailer /\ TrailerStatus(t.content) = 0
          BY StatusIsMeant
        <5>3. QED
          BY <3>1, <5>1, <5>2 DEF Parsed
      <4>3. CASE \E t \in Trailers(meant) :
                     /\ meant # 0 /\ frames = <<t>> /\ payload = <<>>
                     /\ Head(rest) = t /\ Tail(rest) = <<>>
        <5>1. PICK t \in Trailers(meant) :
                  /\ meant # 0 /\ frames = <<t>> /\ payload = <<>>
                  /\ Head(rest) = t /\ Tail(rest) = <<>>
          BY <4>3
        <5>2. meant \in Nat
          <6>1. meant \in Errors \cup {0}
            BY DEF Inv
          <6>2. QED
            BY <6>1, ErrorsAssumption
        <5>3. t.trailer /\ TrailerStatus(t.content) = meant
          BY <5>2, StatusIsMeant
        <5>4. t \in Trailers(meant)' /\ payload' = <<>> /\ status' = meant' /\ rest' = <<>>
          BY <3>1, <5>1, <5>3 DEF Trailers
        <5>5. QED
          BY <3>1, <5>1, <5>4 DEF Parsed
      <4>4. QED
        BY <3>1, <4>1, <4>2, <4>3, Fronts
    <3>3. frames' \in Answers(meant')
      BY <3>1 DEF Inv
    <3>4. QED
      BY <3>1, <3>2, <3>3 DEF Inv
  <2>3. CASE EndOfBody
    BY <2>3 DEF Inv, Parsed, EndOfBody
  <2>4. CASE DecodeTypes
    <3>1. CASE \E i \in DOMAIN payload : payload[i].num = Malformed
      BY <2>4, <3>1 DEF DecodeTypes, Refuse, Inv
    <3>2. CASE ~\E i \in DOMAIN payload : payload[i].num = Malformed
      <4>1. /\ UNCHANGED <<call, meant, frames, rest, payload, status>>
            /\ pc = "decode" /\ pc' = "accepted" /\ call = "types"
            /\ result' = TypeNames(payload)
        BY <2>4, <3>2 DEF DecodeTypes
      <4>2. payload = <<>> \/ (meant = 0 /\ payload = frames[1].content)
        BY <4>1, TakenMessage
      <4>3. ListingIsWholeOrEmpty'
        BY <4>1, <4>2
      <4>4. QED
        BY <4>1, <4>3, Stays DEF Inv
    <3>3. QED
      BY <3>1, <3>2
  <2>5. CASE DecodeQuery
    <3>1. CASE Refuse
      BY <3>1 DEF Refuse, Inv
    <3>2. CASE ~Refuse
      <4>1. /\ UNCHANGED <<call, meant, frames, rest, payload, status>>
            /\ pc = "decode" /\ pc' = "accepted" /\ call = "query"
            /\ \E i \in DOMAIN payload : IsData(payload[i]) /\ result' = <<payload[i]>>
        BY <2>5, <3>2 DEF DecodeQuery
      <4>2. meant = 0 /\ payload = frames[1].content
        BY <4>1, TakenMessage
      <4>3. DownloadIsWhole'
        BY <4>1, <4>2 DEF IsData
      <4>4. QED
        BY <4>1, <4>3, Stays DEF Inv
    <3>3. QED
      BY <3>1, <3>2
  <2>6. QED
    BY <2>1, <2>2, <2>3, <2>4, <2>5 DEF Next
<1>3. QED
  BY <1>1, <1>2, PTL DEF Spec

\* A saved profile is pprof data of a successful call, wherever the connection ended.
THEOREM DownloadsAreWhole == Spec => []DownloadIsWhole
<1>1. Inv => DownloadIsWhole
  BY DEF Inv
<1>2. QED
  BY <1>1, InvHolds, PTL

\* A listing of profile types is the one Parca sent, or empty.
THEOREM ListingsAreWhole == Spec => []ListingIsWholeOrEmpty
<1>1. Inv => ListingIsWholeOrEmpty
  BY DEF Inv
<1>2. QED
  BY <1>1, InvHolds, PTL

\* An answer that arrived as a whole is refused exactly when the server reported an
\* error or its message is of no use to the caller.
THEOREM WholeAnswersDecide == Spec => []WholeAnswerDecides
<1>1. Inv => WholeAnswerDecides
  BY DEF Inv
<1>2. QED
  BY <1>1, InvHolds, PTL

=============================================================================
