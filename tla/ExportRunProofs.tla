--------------------------- MODULE ExportRunProofs ---------------------------
(***************************************************************************)
(* Proofs about ExportRun, for every MaxRows and MaxItems.                 *)
(***************************************************************************)
EXTENDS ExportRun, SequenceTheorems, TLAPS

(***************************************************************************)
(* The inductive invariant behind these properties                         *)
(***************************************************************************)
InExporter == pc \in {"list", "listbody", "item", "itembody", "conn", "appender",
                      "append", "flush", "unwind"}
Starting == pc \in {"setup", "mkdir", "opendb", "schema"}

(* Which closes are pending at which point of an exporter. *)
DefersByPc ==
  /\ pc \in {"conn", "appender"} => defers \in {<<>>, <<"body">>}
  /\ pc \in {"append", "flush"} =>
       defers \in {<<"appender", "conn">>, <<"appender", "conn", "body">>}
  /\ pc \notin {"conn", "appender", "append", "flush", "unwind"} => defers = <<>>

(* An exporter is running exactly when the loop stands on a requested one. *)
PositionByPc ==
  /\ InExporter => next <= 4 /\ Exp \notin opts.skip
  /\ pc = "itembody" => left > 0
  /\ pc \in {"listbody", "item", "itembody"} => Exp \notin Streams
  /\ pc \in {"conn", "appender", "append", "flush"} => Exp \in Tables
  /\ defers # <<>> => Exp \in Tables
  /\ Starting => next = 1

(* The exporters the loop is done with. *)
Done == {Exporters[k] : k \in 1 .. next - 1} \ opts.skip

(* The two counters and the list of errors describe the same outcomes. *)
CountsAgree ==
  /\ count.attempted = count.succeeded + Len(result.errors) + (IF InExporter THEN 1 ELSE 0)
  /\ Reported \subseteq Done
  /\ count.succeeded = 0 <=> Done \subseteq Reported
  /\ result.errors = <<>> <=> Reported = {}

(* How the run got where it is: starting, in the loop, or reporting. *)
ProgressInv ==
  /\ exit # Running <=> pc = "exited"
  /\ Starting => count.attempted = 0 /\ count.succeeded = 0 /\ result.errors = <<>>
  /\ pc = "loop" \/ InExporter => CountsAgree
  /\ pc \in {"closedb", "report"} =>
       \/ next = 1 /\ result.status = "Failure"
       \/ /\ next = 5 /\ CountsAgree
          /\ result.status = DetermineStatus(count.attempted, count.succeeded)
  /\ pc = "exited" =>
       \/ next = 1 /\ exit = 2
       \/ /\ next = 5 /\ CountsAgree
          /\ exit = ExitCode(DetermineStatus(count.attempted, count.succeeded))

(* What the table of the running exporter may hold at each point of it. *)
RowsOfRunning ==
  LET r == rows[Exp] IN
  /\ pc \in {"list", "listbody"} => r = NoRows
  /\ pc \in {"item", "itembody"} => r.buf = 0 /\ r.saved = 0
  /\ pc \in {"conn", "appender"} =>
       IF Exp \in Streams THEN r = NoRows ELSE r.buf = 0 /\ r.saved = 0
  /\ pc = "append" => r.saved = 0 /\ (Exp \in Streams => r.got = r.buf)
  /\ pc = "flush"  => r.saved = 0 /\ r.got = r.buf
  /\ pc = "unwind" /\ ret = "nil" => r.saved = r.got /\ r.buf = 0

RowsInv ==
  /\ InExporter /\ Exp \in Tables => RowsOfRunning
  /\ \A k \in DOMAIN Exporters :
       (/\ Exporters[k] \in Tables
        /\ k > next \/ (k = next /\ ~InExporter)) => rows[Exporters[k]] = NoRows

(***************************************************************************)
(* Facts about the constants: the loop's exporters and the defer stacks    *)
(***************************************************************************)
LEMMA ExporterAt ==
  ASSUME next \in 1 .. 4
  PROVE  /\ Exp \in Names
         /\ Exp = "metrics" <=> next = 1
         /\ Exp = "traces" <=> next = 2
         /\ Exp = "logs" <=> next = 3
         /\ Exp = "profiles" <=> next = 4
BY DEF Exp, Exporters, Names

LEMMA NumExporters == Len(Exporters) = 4 /\ DOMAIN Exporters = 1 .. 4
BY DEF Exporters

(* What the exporter's two defers make of the stack they are pushed on. *)
LEMMA PushWriter ==
  /\ WriterDefers \o <<>> = <<"appender", "conn">>
  /\ WriterDefers \o <<"body">> = <<"appender", "conn", "body">>
<1> DEFINE w == <<"appender", "conn">>  b == <<"body">>
           t == <<"appender", "conn", "body">>
<1>1. w \in Seq(Resources) /\ b \in Seq(Resources) /\ t \in Seq(Resources)
  BY DEF Resources
<1>2. Len(w \o b) = 3 /\ Len(t) = 3
  OBVIOUS
<1>3. \A i \in 1 .. 3 : (w \o b)[i] = t[i]
  OBVIOUS
<1>4. w \o b = t
  <2> HIDE DEF w, b, t
  <2>1. w \o b \in Seq(Resources)
    BY <1>1
  <2> QED
    BY <1>1, <1>2, <1>3, <2>1, SeqEqual
<1>5. w \o <<>> = w
  <2> HIDE DEF w
  <2> QED BY <1>1, ConcatEmptySeq
<1> QED
  BY <1>4, <1>5 DEF WriterDefers

(* Popping a stack, and what each stack holds. *)
LEMMA StackFacts ==
  /\ Tail(<<"body">>) = <<>> /\ Head(<<"body">>) = "body"
  /\ Tail(<<"conn">>) = <<>> /\ Head(<<"conn">>) = "conn"
  /\ Tail(<<"conn", "body">>) = <<"body">> /\ Head(<<"conn", "body">>) = "conn"
  /\ Tail(<<"appender", "conn">>) = <<"conn">> /\ Head(<<"appender", "conn">>) = "appender"
  /\ Tail(<<"appender", "conn", "body">>) = <<"conn", "body">>
  /\ Head(<<"appender", "conn", "body">>) = "appender"
<1>1. Tail(<<"body">>) = <<>> /\ Head(<<"body">>) = "body"
  OBVIOUS
<1>2. Tail(<<"conn">>) = <<>> /\ Head(<<"conn">>) = "conn"
  OBVIOUS
<1>3. Tail(<<"conn", "body">>) = <<"body">> /\ Head(<<"conn", "body">>) = "conn"
  OBVIOUS
<1>4. Tail(<<"appender", "conn">>) = <<"conn">> /\ Head(<<"appender", "conn">>) = "appender"
  OBVIOUS
<1>5. Tail(<<"appender", "conn", "body">>) = <<"conn", "body">>
  OBVIOUS
<1>6. Head(<<"appender", "conn", "body">>) = "appender"
  OBVIOUS
<1> QED
  BY <1>1, <1>2, <1>3, <1>4, <1>5, <1>6

LEMMA PopStack ==
  ASSUME NEW d \in Stacks, d # <<>>
  PROVE  Tail(d) \in Stacks /\ Head(d) \in Resources
BY StackFacts DEF Stacks, Resources

(***************************************************************************)
(* Types, with the stack and the position the program counter allows       *)
(***************************************************************************)
TypeInv == TypeOK /\ DefersByPc /\ PositionByPc

LEMMA TypeInit == Init => TypeInv
BY DEF Init, TypeInv, TypeOK, DefersByPc, PositionByPc, Running, NoRows, Stacks, PCs,
       Names, ResultType, RowsType, InExporter, Starting

LEMMA RowsTyped ==
  ASSUME rows \in RowsType, NEW t \in Tables, NEW n \in Nat, NEW k \in Nat
  PROVE  /\ Commit(t) \in RowsType /\ Drop(t) \in RowsType
         /\ Receive(t, n, k) \in RowsType
BY DEF RowsType, Commit, Drop, Receive

LEMMA ErrorsTyped ==
  ASSUME result \in ResultType, NEW e \in PCs \cup Names
  PROVE  /\ [result EXCEPT !.errors = Append(@, e)] \in ResultType
         /\ [status |-> "Failure", errors |-> Append(result.errors, e)] \in ResultType
BY DEF ResultType

LEMMA StatusTyped ==
  ASSUME result \in ResultType, NEW a, NEW b
  PROVE  [result EXCEPT !.status = DetermineStatus(a, b)] \in ResultType
BY DEF ResultType, DetermineStatus

LEMMA SettleTyped ==
  ASSUME result \in ResultType, Exp \in Names, SettleExporter
  PROVE  result' \in ResultType
<1>1. CASE ret = "error"
  <2>1. result' = [result EXCEPT !.errors = Append(@, Exp)]
    BY <1>1 DEF SettleExporter
  <2> QED
    BY <2>1, ErrorsTyped
<1>2. CASE ret # "error"
  BY <1>2 DEF SettleExporter
<1> QED
  BY <1>1, <1>2

(* The steps before the loop keep the types. *)
LEMMA StartupTyped ==
  ASSUME TypeOK, NEW here \in PCs, NEW there \in PCs, NEW opens \in SUBSET Resources
  PROVE  /\ StartupStep(here, there, opens) => TypeOK'
         /\ StartupFails(here, there) => TypeOK'
<1>1. ASSUME StartupStep(here, there, opens) PROVE TypeOK'
  <2>1. open' \in SUBSET Resources /\ pc' \in PCs
    BY <1>1 DEF StartupStep, TypeOK
  <2> QED
    BY <1>1, <2>1 DEF StartupStep, TypeOK, loopVars, fetchVars
<1>2. ASSUME StartupFails(here, there) PROVE TypeOK'
  <2>1. result' \in ResultType
    BY <1>2, ErrorsTyped DEF StartupFails, TypeOK
  <2>2. pc' \in PCs
    BY <1>2 DEF StartupFails
  <2> QED
    BY <1>2, <2>1, <2>2 DEF StartupFails, TypeOK, fetchVars
<1> QED
  BY <1>1, <1>2

LEMMA StartupPCs ==
  /\ {"mkdir", "opendb", "schema", "loop", "closedb", "report"} \subseteq PCs
  /\ {} \in SUBSET Resources /\ {"db"} \in SUBSET Resources
BY DEF PCs, Resources

LEMMA StartupActionsTyped ==
  ASSUME TypeOK, MakeOutputDir \/ OpenDatabase \/ CreateSchema
  PROVE  TypeOK'
<1>1. CASE MakeOutputDir
  BY <1>1, StartupTyped, StartupPCs DEF MakeOutputDir
<1>2. CASE OpenDatabase
  BY <1>2, StartupTyped, StartupPCs DEF OpenDatabase
<1>3. CASE CreateSchema
  BY <1>3, StartupTyped, StartupPCs DEF CreateSchema
<1> QED
  BY <1>1, <1>2, <1>3

LEMMA TypeStep == TypeInv /\ [Next]_vars => TypeInv'
<1> SUFFICES ASSUME TypeInv, [Next]_vars PROVE TypeInv'
  OBVIOUS
<1> USE DEF TypeInv, TypeOK, DefersByPc, PositionByPc, InExporter, Starting, PCs, Running, Exp,
            loopVars, fetchVars
<1>1. CASE Interrupt
  BY <1>1 DEF Interrupt
<1>2. CASE SetupSucceeds
  BY <1>2 DEF SetupSucceeds
<1>3. CASE SetupFails
  BY <1>3 DEF SetupFails
<1>4. CASE MakeOutputDir
  <2>1. TypeOK'
    BY <1>4, StartupActionsTyped
  <2>2. DefersByPc'
    BY <1>4 DEF MakeOutputDir, StartupStep, StartupFails
  <2>3. PositionByPc'
    BY <1>4 DEF MakeOutputDir, StartupStep, StartupFails
  <2> QED
    BY <2>1, <2>2, <2>3
<1>5. CASE OpenDatabase
  <2>1. TypeOK'
    BY <1>5, StartupActionsTyped
  <2>2. DefersByPc'
    BY <1>5 DEF OpenDatabase, StartupStep, StartupFails
  <2>3. PositionByPc'
    BY <1>5 DEF OpenDatabase, StartupStep, StartupFails
  <2> QED
    BY <2>1, <2>2, <2>3
<1>6. CASE CreateSchema
  <2>1. TypeOK'
    BY <1>6, StartupActionsTyped
  <2>2. DefersByPc'
    BY <1>6 DEF CreateSchema, StartupStep, StartupFails
  <2>3. PositionByPc'
    BY <1>6 DEF CreateSchema, StartupStep, StartupFails
  <2> QED
    BY <2>1, <2>2, <2>3
<1>7. CASE SkipExporter
  BY <1>7, NumExporters DEF SkipExporter
<1>8. CASE StartExporter
  BY <1>8, NumExporters DEF StartExporter, Endpoints
<1>9. CASE SettleExporter
  <2>1. TypeOK'
    <3>1. Exp \in Names
      BY <1>9, ExporterAt DEF SettleExporter
    <3>2. result' \in ResultType
      BY <1>9, <3>1, SettleTyped
    <3>3. count' \in [attempted : Nat, succeeded : Nat]
      BY <1>9 DEF SettleExporter
    <3>4. next' \in 1 .. 5
      BY <1>9 DEF SettleExporter
    <3> QED
      BY <1>9, <3>2, <3>3, <3>4 DEF SettleExporter
  <2>2. DefersByPc'
    BY <1>9 DEF SettleExporter
  <2>3. PositionByPc'
    BY <1>9, ErrorsTyped, ExporterAt DEF SettleExporter
  <2> QED
    BY <2>1, <2>2, <2>3
<1>10. CASE FinishLoop
  BY <1>10, StatusTyped DEF FinishLoop
<1>11. CASE CloseDatabase
  BY <1>11 DEF CloseDatabase
<1>12. CASE Report
  BY <1>12 DEF Report, ExitCode
<1>13. CASE RequestSucceeds
  <2>1. TypeOK'
    BY <1>13, ExporterAt DEF RequestSucceeds, Resources, Stacks, Streams, Tables
  <2>2. DefersByPc'
    BY <1>13 DEF RequestSucceeds, Resources, Stacks, Streams, Tables
  <2>3. PositionByPc'
    BY <1>13, ExporterAt DEF RequestSucceeds, Resources, Stacks, Streams, Tables
  <2> QED
    BY <2>1, <2>2, <2>3
<1>14. CASE ListFails
  BY <1>14, ExporterAt DEF ListFails, Return
<1>15. CASE ListDecoded
  BY <1>15, ExporterAt DEF ListDecoded
<1>16. CASE ItemFails
  BY <1>16, ExporterAt DEF ItemFails
<1>17. CASE ItemDecoded
  <2>1. TypeOK'
    BY <1>17, ExporterAt, RowsTyped DEF ItemDecoded, Tables
  <2>2. DefersByPc'
    BY <1>17 DEF ItemDecoded, Tables
  <2>3. PositionByPc'
    BY <1>17, ExporterAt, RowsTyped DEF ItemDecoded, Tables
  <2> QED
    BY <2>1, <2>2, <2>3
<1>18. CASE ItemsDone
  BY <1>18, ExporterAt DEF ItemsDone, Return, Tables
<1>19. CASE OpenConnection
  BY <1>19 DEF OpenConnection, Return, Resources
<1>20. CASE OpenAppender
  <2>1. TypeOK'
    BY <1>20, PushWriter DEF OpenAppender, Return, ConnAfterAppenderFailure, Resources, Stacks
  <2>2. DefersByPc'
    BY <1>20, PushWriter DEF OpenAppender, Return, ConnAfterAppenderFailure, Resources, Stacks
  <2>3. PositionByPc'
    BY <1>20, PushWriter DEF OpenAppender, Return, ConnAfterAppenderFailure, Resources, Stacks
  <2> QED
    BY <2>1, <2>2, <2>3
<1>21. CASE AppendLine
  <2>1. TypeOK'
    BY <1>21, ExporterAt, RowsTyped DEF AppendLine, Return, Streams, Tables
  <2>2. DefersByPc'
    BY <1>21 DEF AppendLine, Return, Streams, Tables
  <2>3. PositionByPc'
    BY <1>21, ExporterAt, RowsTyped DEF AppendLine, Return, Streams, Tables
  <2> QED
    BY <2>1, <2>2, <2>3
<1>22. CASE AppendSpan
  <2>1. TypeOK'
    BY <1>22, ExporterAt, RowsTyped DEF AppendSpan, Return, Tables
  <2>2. DefersByPc'
    BY <1>22 DEF AppendSpan, Return, Tables
  <2>3. PositionByPc'
    BY <1>22, ExporterAt, RowsTyped DEF AppendSpan, Return, Tables
  <2> QED
    BY <2>1, <2>2, <2>3
<1>23. CASE StreamFails
  BY <1>23 DEF StreamFails, Return
<1>24. CASE InputEnds
  BY <1>24 DEF InputEnds
<1>25. CASE FlushAppender
  <2>1. TypeOK'
    BY <1>25, ExporterAt, RowsTyped DEF FlushAppender, Return
  <2>2. DefersByPc'
    BY <1>25 DEF FlushAppender, Return
  <2>3. PositionByPc'
    BY <1>25, ExporterAt, RowsTyped DEF FlushAppender, Return
  <2> QED
    BY <2>1, <2>2, <2>3
<1>26. CASE RunDefer
  <2>1. TypeOK'
    <3>1. rows' \in RowsType
      BY <1>26, RowsTyped DEF RunDefer
    <3>2. open' \in SUBSET Resources /\ defers' \in Stacks
      BY <1>26, PopStack DEF RunDefer
    <3> QED
      BY <1>26, <3>1, <3>2 DEF RunDefer
  <2>2. DefersByPc'
    BY <1>26 DEF RunDefer
  <2>3. PositionByPc'
    BY <1>26, PopStack, ExporterAt, RowsTyped DEF RunDefer
  <2> QED
    BY <2>1, <2>2, <2>3
<1>27. CASE Terminated
  BY <1>27 DEF Terminated, vars
<1>28. CASE UNCHANGED vars
  BY <1>28 DEF vars
<1> QED
  BY <1>1, <1>2, <1>3, <1>4, <1>5, <1>6, <1>7, <1>8, <1>9, <1>10, <1>11, <1>12, <1>13, <1>14, <1>15, <1>16, <1>17, <1>18, <1>19, <1>20, <1>21, <1>22, <1>23, <1>24, <1>25, <1>26, <1>27, <1>28 DEF Next, Setup, Loop, Fetch, Write

(* Every variable of the run keeps its type, whatever fails and whenever a *)
(* signal arrives.                                                         *)
THEOREM TypeCorrect == Spec => []TypeOK
<1>1. Spec => []TypeInv
  BY TypeInit, TypeStep, PTL DEF Spec
<1> QED
  BY <1>1, PTL DEF TypeInv

(***************************************************************************)
(* Resources                                                               *)
(***************************************************************************)
LEMMA PendingFacts ==
  /\ Pending(<<>>) = {}
  /\ Pending(<<"body">>) = {"body"}
  /\ Pending(<<"conn">>) = {"conn"}
  /\ Pending(<<"conn", "body">>) = {"conn", "body"}
  /\ Pending(<<"appender", "conn">>) = {"appender", "conn"}
  /\ Pending(<<"appender", "conn", "body">>) = {"appender", "conn", "body"}
BY DEF Pending

LEMMA PushPending ==
  ASSUME NEW d \in {<<>>, <<"body">>}
  PROVE  Pending(WriterDefers \o d) = Pending(d) \cup {"appender", "conn"}
<1>1. CASE d = <<>>
  BY <1>1, PushWriter, PendingFacts
<1>2. CASE d = <<"body">>
  BY <1>2, PushWriter, PendingFacts
<1> QED
  BY <1>1, <1>2

LEMMA PopPending ==
  ASSUME NEW d \in Stacks, d # <<>>
  PROVE  /\ Pending(Tail(d)) = Pending(d) \ {Head(d)}
         /\ Head(d) # "db"
<1>1. CASE d \in {<<"body">>, <<"conn">>}
  BY <1>1, StackFacts, PendingFacts
<1>2. CASE d = <<"conn", "body">>
  BY <1>2, StackFacts, PendingFacts
<1>3. CASE d = <<"appender", "conn">>
  BY <1>3, StackFacts, PendingFacts
<1>4. CASE d = <<"appender", "conn", "body">>
  BY <1>4, StackFacts, PendingFacts
<1> QED
  BY <1>1, <1>2, <1>3, <1>4 DEF Stacks

LEMMA OwnedStep == TypeInv /\ EveryResourceOwned /\ [Next]_vars => EveryResourceOwned'
<1> SUFFICES ASSUME TypeInv, EveryResourceOwned, [Next]_vars PROVE EveryResourceOwned'
  OBVIOUS
<1> USE PendingFacts DEF EveryResourceOwned, Owed, DefersByPc, TypeInv, loopVars, fetchVars
<1>1. CASE Interrupt
  BY <1>1 DEF Interrupt
<1>2. CASE SetupSucceeds
  BY <1>2 DEF SetupSucceeds
<1>3. CASE SetupFails
  BY <1>3 DEF SetupFails
<1>4. CASE MakeOutputDir
  BY <1>4 DEF MakeOutputDir, StartupStep, StartupFails
<1>5. CASE OpenDatabase
  BY <1>5 DEF OpenDatabase, StartupStep, StartupFails
<1>6. CASE CreateSchema
  BY <1>6 DEF CreateSchema, StartupStep, StartupFails
<1>7. CASE SkipExporter
  BY <1>7 DEF SkipExporter
<1>8. CASE StartExporter
  BY <1>8 DEF StartExporter
<1>9. CASE SettleExporter
  BY <1>9 DEF SettleExporter
<1>10. CASE FinishLoop
  BY <1>10 DEF FinishLoop
<1>11. CASE CloseDatabase
  BY <1>11 DEF CloseDatabase
<1>12. CASE Report
  BY <1>12 DEF Report
<1>13. CASE RequestSucceeds
  BY <1>13 DEF RequestSucceeds
<1>14. CASE ListFails
  BY <1>14 DEF ListFails, Return
<1>15. CASE ListDecoded
  BY <1>15 DEF ListDecoded
<1>16. CASE ItemFails
  BY <1>16 DEF ItemFails
<1>17. CASE ItemDecoded
  BY <1>17 DEF ItemDecoded
<1>18. CASE ItemsDone
  BY <1>18 DEF ItemsDone, Return
<1>19. CASE OpenConnection
  BY <1>19 DEF OpenConnection, Return
<1>20. CASE OpenAppender
  <2>1. CASE defers' = WriterDefers \o defers
    <3>1. Pending(defers') = Pending(defers) \cup {"appender", "conn"}
      BY <1>20, <2>1, PushPending DEF OpenAppender
    <3> QED
      BY <1>20, <2>1, <3>1 DEF OpenAppender, Return, ConnAfterAppenderFailure
  <2>2. CASE defers' # WriterDefers \o defers
    BY <1>20, <2>2 DEF OpenAppender, Return, ConnAfterAppenderFailure
  <2> QED
    BY <2>1, <2>2
<1>21. CASE AppendLine
  BY <1>21 DEF AppendLine, Return
<1>22. CASE AppendSpan
  BY <1>22 DEF AppendSpan, Return
<1>23. CASE StreamFails
  BY <1>23 DEF StreamFails, Return
<1>24. CASE InputEnds
  BY <1>24 DEF InputEnds
<1>25. CASE FlushAppender
  BY <1>25 DEF FlushAppender, Return
<1>26. CASE RunDefer
  BY <1>26, PopPending DEF RunDefer, TypeOK
<1>27. CASE Terminated
  BY <1>27 DEF Terminated, vars
<1>28. CASE UNCHANGED vars
  BY <1>28 DEF vars
<1> QED
  BY <1>1, <1>2, <1>3, <1>4, <1>5, <1>6, <1>7, <1>8, <1>9, <1>10, <1>11, <1>12, <1>13, <1>14, <1>15, <1>16, <1>17, <1>18, <1>19, <1>20, <1>21, <1>22, <1>23, <1>24, <1>25, <1>26, <1>27, <1>28 DEF Next, Setup, Loop, Fetch, Write

(* No path through the helpers and exporters leaks a response body, a       *)
(* connection, an appender or the database, and none closes one it does not *)
(* hold: what is open is what the pending defers will close.               *)
THEOREM NoLeak == Spec => []EveryResourceOwned
<1>1. Init => EveryResourceOwned
  BY PendingFacts DEF Init, EveryResourceOwned, Owed
<1>2. Spec => []TypeInv
  BY TypeInit, TypeStep, PTL DEF Spec
<1> QED
  BY <1>1, <1>2, OwnedStep, PTL DEF Spec

(* The rows an appender still buffers when it is closed can be written: its *)
(* connection and the database are open.                                   *)
THEOREM AppenderOrder == Spec => []AppenderInsideConnection
<1>1. TypeInv /\ EveryResourceOwned => AppenderInsideConnection
  BY PendingFacts DEF TypeInv, TypeOK, Stacks, DefersByPc, EveryResourceOwned, Owed,
                      AppenderInsideConnection
<1>2. Spec => []TypeInv
  BY TypeInit, TypeStep, PTL DEF Spec
<1> QED
  BY <1>1, <1>2, NoLeak, PTL

(***************************************************************************)
(* Counters, errors, status and exit code                                  *)
(***************************************************************************)
LEMMA AppendError ==
  ASSUME NEW s \in Seq(PCs \cup Names), NEW e \in PCs \cup Names
  PROVE  /\ {Append(s, e)[k] : k \in DOMAIN Append(s, e)} = {s[k] : k \in DOMAIN s} \cup {e}
         /\ Len(Append(s, e)) = Len(s) + 1
OBVIOUS

LEMMA EmptyErrors ==
  ASSUME NEW s \in Seq(PCs \cup Names)
  PROVE  /\ Len(s) \in Nat
         /\ Len(s) = 0 <=> s = <<>>
         /\ s = <<>> <=> {s[k] : k \in DOMAIN s} = {}
OBVIOUS

(* The loop moves past one exporter, which it had not been done with. *)
LEMMA DoneAfter ==
  ASSUME next \in 1 .. 4, next' = next + 1, opts' = opts
  PROVE  /\ Done' = Done \cup ({Exp} \ opts.skip)
         /\ Exp \notin Done
BY DEF Done, Exp, Exporters

LEMMA DoneAtEnds ==
  /\ next = 1 => Done = {}
  /\ next = 5 => Done = Requested
BY DEF Done, Exporters, Requested, Names

(* Fetching and writing leave the loop alone. *)
LEMMA InsideExporter ==
  (Fetch \/ Write) => InExporter /\ InExporter' /\ UNCHANGED <<opts, next, count, result, exit>>
BY DEF Fetch, Write, InExporter, RequestSucceeds, ListFails, ListDecoded, ItemFails, ItemDecoded,
       ItemsDone, OpenConnection, OpenAppender, AppendLine, AppendSpan, StreamFails, InputEnds,
       FlushAppender, RunDefer, Return, loopVars

LEMMA SettleCounts ==
  ASSUME TypeInv, CountsAgree, SettleExporter
  PROVE  CountsAgree'
<1>1. /\ next \in 1 .. 4 /\ Exp \notin opts.skip /\ InExporter /\ ~InExporter'
      /\ result.errors \in Seq(PCs \cup Names) /\ Exp \in PCs \cup Names
  BY ExporterAt DEF TypeInv, TypeOK, PositionByPc, SettleExporter, InExporter, ResultType
<1>2. Done' = Done \cup {Exp} /\ Exp \notin Done
  BY <1>1, DoneAfter DEF SettleExporter
<1>3. count.attempted \in Nat /\ count.succeeded \in Nat /\ Len(result.errors) \in Nat
  BY <1>1, EmptyErrors DEF TypeInv, TypeOK
<1>4. CASE ret = "error"
  <2>1. result'.errors = Append(result.errors, Exp) /\ count' = count
    BY <1>4 DEF SettleExporter, TypeInv, TypeOK, ResultType
  <2>2. Reported' = Reported \cup {Exp}
    <3>1. Reported' = {Append(result.errors, Exp)[k] : k \in DOMAIN Append(result.errors, Exp)}
      BY <2>1 DEF Reported
    <3> QED
      BY <1>1, <3>1, AppendError DEF Reported
  <2>3. result'.errors # <<>> /\ Len(result'.errors) = Len(result.errors) + 1
    BY <1>1, <2>1, AppendProperties
  <2>4. count'.attempted = count'.succeeded + Len(result'.errors) + 0
    <3>1. count.attempted = count.succeeded + Len(result.errors) + 1
      BY <1>1 DEF CountsAgree
    <3>2. count' = count
      BY <2>1
    <3> QED
      BY <1>3, <2>3, <3>1, <3>2
  <2>5. Reported' # {}
    BY <2>2
  <2>6. /\ Reported' \subseteq Done'
        /\ Done' \subseteq Reported' <=> Done \subseteq Reported
    BY <1>2, <2>2 DEF CountsAgree
  <2> QED
    BY <1>1, <2>1, <2>3, <2>4, <2>5, <2>6 DEF CountsAgree
<1>5. CASE ret # "error"
  <2>1. /\ result' = result /\ Reported' = Reported
        /\ count'.succeeded = count.succeeded + 1 /\ count'.attempted = count.attempted
    BY <1>5 DEF SettleExporter, TypeInv, TypeOK, Reported
  <2> QED
    BY <1>1, <1>2, <1>3, <2>1 DEF CountsAgree
<1> QED
  BY <1>4, <1>5

(* Steps that leave the loop alone, or only its resources. *)
LEMMA CountsStay ==
  ASSUME UNCHANGED <<opts, next, count, result>>, InExporter' <=> InExporter
  PROVE  CountsAgree' <=> CountsAgree
<1>1. Done' = Done /\ Reported' = Reported
  BY DEF Done, Reported
<1> QED
  BY <1>1 DEF CountsAgree

LEMMA ProgressStep == TypeInv /\ ProgressInv /\ [Next]_vars => ProgressInv'
<1> SUFFICES ASSUME TypeInv, ProgressInv, [Next]_vars PROVE ProgressInv'
  OBVIOUS
<1> USE DEF ProgressInv, Starting, InExporter, Running
<1>1. CASE Interrupt
  <2>1. CountsAgree' <=> CountsAgree
    BY <1>1, CountsStay DEF Interrupt, loopVars
  <2> QED
    BY <1>1, <2>1 DEF Interrupt, loopVars
<1>2. CASE Setup
  <2>1. CASE CreateSchema /\ pc' = "loop"
    <3>1. /\ next' = 1 /\ count' = count /\ result' = result /\ exit' = exit /\ opts' = opts
          /\ pc = "schema"
      BY <2>1 DEF CreateSchema, StartupStep, StartupFails, loopVars, TypeInv, PositionByPc
    <3>2. Done' = {} /\ result'.errors = <<>> /\ Reported' = {}
      BY <3>1, DoneAtEnds, EmptyErrors DEF Done, Reported
    <3> QED
      BY <2>1, <3>1, <3>2 DEF CountsAgree
  <2>2. CASE ~(CreateSchema /\ pc' = "loop")
    BY <1>2, <2>2 DEF Setup, SetupSucceeds, SetupFails, MakeOutputDir, OpenDatabase,
                      CreateSchema, StartupStep, StartupFails, loopVars, TypeInv, PositionByPc
  <2> QED
    BY <2>1, <2>2
<1>3. CASE SkipExporter
  <2>1. next \in 1 .. 4 /\ next' = next + 1 /\ opts' = opts /\ Exp \in opts.skip
    BY <1>3, NumExporters DEF SkipExporter, TypeInv, TypeOK
  <2>2. Done' = Done
    BY <2>1, DoneAfter
  <2> QED
    BY <1>3, <2>2 DEF SkipExporter, CountsAgree, Reported
<1>4. CASE StartExporter
  <2>1. /\ CountsAgree /\ ~InExporter /\ InExporter'
        /\ result' = result /\ Reported' = Reported /\ Done' = Done /\ exit' = exit
    BY <1>4 DEF StartExporter, Reported, Done
  <2>2. /\ count'.succeeded = count.succeeded /\ count'.attempted = count.attempted + 1
        /\ count.succeeded \in Nat /\ count.attempted \in Nat
    BY <1>4 DEF StartExporter, TypeInv, TypeOK
  <2>3. Len(result.errors) \in Nat
    BY EmptyErrors DEF TypeInv, TypeOK, ResultType
  <2>4. CountsAgree'
    BY <2>1, <2>2, <2>3 DEF CountsAgree
  <2> QED
    BY <1>4, <2>1, <2>4 DEF StartExporter
<1>5. CASE SettleExporter
  BY <1>5, SettleCounts DEF SettleExporter
<1>6. CASE FinishLoop
  <2>1. /\ next' = 5 /\ count' = count /\ opts' = opts /\ next' = next /\ exit' = exit
        /\ result'.errors = result.errors
        /\ result'.status = DetermineStatus(count.attempted, count.succeeded)
    BY <1>6, NumExporters DEF FinishLoop, TypeInv, TypeOK, ResultType
  <2>2. Reported' = Reported /\ Done' = Done
    BY <2>1 DEF Reported, Done
  <2>3. CountsAgree'
    BY <1>6, <2>1, <2>2 DEF FinishLoop, CountsAgree
  <2> QED
    BY <1>6, <2>1, <2>3 DEF FinishLoop
<1>7. CASE CloseDatabase
  <2>1. CountsAgree' <=> CountsAgree
    BY <1>7, CountsStay DEF CloseDatabase, loopVars
  <2> QED
    BY <1>7, <2>1 DEF CloseDatabase, loopVars
<1>8. CASE Report
  <2>1. ExitCode("Failure") = 2 /\ \A st : ExitCode(st) \in {0, 1, 2}
    BY DEF ExitCode
  <2>2. CountsAgree => CountsAgree'
    BY <1>8, CountsStay DEF Report
  <2> QED
    BY <1>8, <2>1, <2>2 DEF Report
<1>9. CASE Fetch \/ Write
  <2>1. CountsAgree' <=> CountsAgree
    BY <1>9, InsideExporter, CountsStay
  <2> QED
    BY <1>9, <2>1, InsideExporter
<1>10. CASE Terminated \/ UNCHANGED vars
  <2>1. CountsAgree' <=> CountsAgree
    BY <1>10, CountsStay DEF Terminated, vars
  <2> QED
    BY <1>10, <2>1 DEF Terminated, vars
<1> QED
  BY <1>1, <1>2, <1>3, <1>4, <1>5, <1>6, <1>7, <1>8, <1>9, <1>10 DEF Next, Loop

LEMMA ProgressHolds == Spec => [](TypeInv /\ ProgressInv)
<1>1. Init => ProgressInv
  BY DEF Init, ProgressInv, Running, Starting, InExporter
<1> QED
  BY <1>1, TypeInit, TypeStep, ProgressStep, PTL DEF Spec

(* The exit code never contradicts the errors of the run: 0 without error, *)
(* 1 when some requested exporters failed and some did not, 2 when all did *)
(* or the run never reached the first one.                                 *)
THEOREM ExitCodeCorrect == Spec => []ExitCodeTruthful
<1>1. ASSUME TypeInv, ProgressInv PROVE ExitCodeTruthful
  <2>1. SUFFICES ASSUME exit # Running, next = 5 PROVE ExitCodeTruthful
    BY <1>1 DEF ProgressInv, ExitCodeTruthful, Running
  <2>2. /\ CountsAgree /\ ~InExporter /\ Done = Requested
        /\ exit = ExitCode(DetermineStatus(count.attempted, count.succeeded))
    BY <1>1, <2>1, DoneAtEnds DEF ProgressInv, InExporter
  <2>3. /\ count.attempted \in Nat /\ count.succeeded \in Nat
        /\ Len(result.errors) \in Nat
        /\ Len(result.errors) = 0 <=> result.errors = <<>>
    BY <1>1, EmptyErrors DEF TypeInv, TypeOK, ResultType
  <2>4. /\ count.attempted = count.succeeded + Len(result.errors)
        /\ Reported \subseteq Requested
        /\ count.succeeded = 0 <=> Requested \subseteq Reported
        /\ result.errors = <<>> <=> Reported = {}
    BY <2>2, <2>3 DEF CountsAgree
  <2>5. CASE result.errors = <<>>
    <3>1. exit = 0
      BY <2>2, <2>3, <2>4, <2>5 DEF ExitCode, DetermineStatus
    <3> QED
      BY <2>5, <3>1 DEF ExitCodeTruthful
  <2>6. CASE result.errors # <<>> /\ count.succeeded > 0
    <3>1. exit = 1
      BY <2>2, <2>3, <2>4, <2>6 DEF ExitCode, DetermineStatus
    <3> QED
      BY <2>3, <2>4, <2>6, <3>1 DEF ExitCodeTruthful
  <2>7. CASE result.errors # <<>> /\ count.succeeded = 0
    <3>1. exit = 2
      BY <2>2, <2>3, <2>4, <2>7 DEF ExitCode, DetermineStatus
    <3> QED
      BY <2>3, <2>4, <2>7, <3>1 DEF ExitCodeTruthful
  <2> QED
    BY <2>3, <2>5, <2>6, <2>7
<1> QED
  BY <1>1, ProgressHolds, PTL

(***************************************************************************)
(* Rows                                                                    *)
(***************************************************************************)
LEMMA PositionUnique ==
  \A j, k \in 1 .. 4 : Exporters[j] = Exporters[k] => j = k
BY DEF Exporters

(* Fetching and writing touch the table of the running exporter only. *)
LEMMA OthersUntouched ==
  ASSUME TypeInv, Fetch \/ Write, NEW k \in 1 .. 4, k # next, Exporters[k] \in Tables
  PROVE  rows'[Exporters[k]] = rows[Exporters[k]]
<1>1. next \in 1 .. 4
  BY InsideExporter DEF TypeInv, TypeOK, PositionByPc
<1>2. Exporters[k] # Exp
  BY <1>1, PositionUnique DEF Exp
<1>3. \A t, n, m : Receive(t, n, m)[Exporters[k]] = rows[Exporters[k]] \/ t = Exporters[k]
  BY DEF Receive, TypeInv, TypeOK, RowsType
<1>4. \A t : \/ t = Exporters[k]
            \/ /\ Commit(t)[Exporters[k]] = rows[Exporters[k]]
               /\ Drop(t)[Exporters[k]] = rows[Exporters[k]]
  BY DEF Commit, Drop, TypeInv, TypeOK, RowsType
<1> QED
  BY <1>2, <1>3, <1>4 DEF Fetch, Write, RequestSucceeds, ListFails, ListDecoded, ItemFails,
       ItemDecoded, ItemsDone, OpenConnection, OpenAppender, AppendLine, AppendSpan,
       StreamFails, InputEnds, FlushAppender, RunDefer

(* What each update makes of the row counts of its own table. *)
LEMMA OwnRows ==
  ASSUME rows \in RowsType, NEW t \in Tables, NEW n, NEW k
  PROVE  /\ Receive(t, n, k)[t].got = rows[t].got + n
         /\ Receive(t, n, k)[t].buf = rows[t].buf + k
         /\ Receive(t, n, k)[t].saved = rows[t].saved
         /\ Commit(t)[t].got = rows[t].got /\ Commit(t)[t].buf = 0
         /\ Commit(t)[t].saved = rows[t].saved + rows[t].buf
         /\ Drop(t)[t].got = rows[t].got /\ Drop(t)[t].buf = 0
         /\ Drop(t)[t].saved = rows[t].saved
BY DEF Receive, Commit, Drop, RowsType

LEMMA RunningRows ==
  ASSUME TypeInv, RowsInv, Fetch \/ Write, Exp \in Tables
  PROVE  RowsOfRunning'
<1>1. /\ RowsOfRunning /\ rows \in RowsType /\ Exp' = Exp
      /\ rows[Exp] \in [got : Nat, buf : Nat, saved : Nat]
      /\ rows[Exp].got \in Nat /\ rows[Exp].buf \in Nat /\ rows[Exp].saved \in Nat
      /\ pc \in {"listbody", "item", "itembody"} => Exp = "traces"
  BY InsideExporter DEF RowsInv, TypeInv, TypeOK, PositionByPc, Exp, RowsType, Tables, Streams
<1> USE DEF RowsOfRunning, NoRows, Streams, Tables
<1>2. CASE RequestSucceeds
  BY <1>1, <1>2 DEF RequestSucceeds, TypeInv, PositionByPc
<1>3. CASE ListFails
  BY <1>1, <1>3 DEF ListFails, Return
<1>4. CASE ListDecoded
  BY <1>1, <1>4 DEF ListDecoded
<1>5. CASE ItemFails
  BY <1>1, <1>5 DEF ItemFails
<1>6. CASE ItemDecoded
  <2>1. \E n \in Nat : rows' = Receive(Exp, n, 0)
    BY <1>1, <1>6 DEF ItemDecoded
  <2>2. rows'[Exp].buf = 0 /\ rows'[Exp].saved = 0
    BY <1>1, <1>6, <2>1, OwnRows DEF ItemDecoded
  <2> QED
    BY <1>1, <1>6, <2>2 DEF ItemDecoded
<1>7. CASE ItemsDone
  <2>1. rows[Exp].buf = 0 /\ rows[Exp].saved = 0 /\ Exp = "traces" /\ rows' = rows
    BY <1>1, <1>7 DEF ItemsDone
  <2>2. CASE rows[Exp].got > 0
    BY <1>1, <1>7, <2>1, <2>2 DEF ItemsDone, Return
  <2>3. CASE ~(rows[Exp].got > 0)
    BY <1>1, <1>7, <2>1, <2>3 DEF ItemsDone, Return
  <2> QED
    BY <2>2, <2>3
<1>8. CASE OpenConnection
  BY <1>1, <1>8 DEF OpenConnection, Return
<1>9. CASE OpenAppender
  BY <1>1, <1>9 DEF OpenAppender, Return
<1>10. CASE AppendLine
  <2>1. PICK n \in 0 .. MaxRows - rows[Exp].got : \E k \in 0 .. n :
          /\ rows' = Receive(Exp, n, k)
          /\ IF k = n THEN UNCHANGED <<pc, ret>> ELSE Return("error")
    BY <1>10 DEF AppendLine
  <2>2. PICK k \in 0 .. n :
          /\ rows' = Receive(Exp, n, k)
          /\ IF k = n THEN UNCHANGED <<pc, ret>> ELSE Return("error")
    BY <2>1
  <2>3. /\ rows'[Exp].saved = rows[Exp].saved
        /\ rows'[Exp].got = rows[Exp].got + n /\ rows'[Exp].buf = rows[Exp].buf + k
        /\ pc = "append"
    BY <1>1, <1>10, <2>2, OwnRows DEF AppendLine
  <2>4. CASE k = n
    BY <1>1, <2>2, <2>3, <2>4
  <2>5. CASE k # n
    BY <1>1, <2>2, <2>3, <2>5 DEF Return
  <2> QED
    BY <2>4, <2>5
<1>11. CASE AppendSpan
  <2>1. pc = "append" /\ Exp = "traces" /\ rows[Exp].saved = 0
    BY <1>1, <1>11 DEF AppendSpan
  <2>2. CASE rows' = Receive(Exp, 0, 1) /\ UNCHANGED <<pc, ret>>
    <3>1. rows'[Exp].saved = 0
      BY <1>1, <2>1, <2>2, OwnRows
    <3> QED
      BY <1>1, <2>1, <2>2, <3>1
  <2>3. CASE Return("error")
    BY <2>3 DEF Return
  <2> QED
    BY <1>11, <2>2, <2>3 DEF AppendSpan
<1>12. CASE StreamFails
  BY <1>1, <1>12 DEF StreamFails, Return
<1>13. CASE InputEnds
  <2>1. pc' = "flush" /\ rows' = rows /\ rows[Exp].saved = 0
    BY <1>1, <1>13 DEF InputEnds
  <2>2. rows[Exp].got = rows[Exp].buf
    BY <1>1, <1>13, <2>1 DEF InputEnds, Unsaved
  <2> QED
    BY <1>1, <2>1, <2>2
<1>14. CASE FlushAppender
  <2>1. pc = "flush" /\ pc' = "unwind" /\ rows[Exp].saved = 0 /\ rows[Exp].got = rows[Exp].buf
    BY <1>1, <1>14 DEF FlushAppender, Return
  <2>2. CASE rows' = Commit(Exp)
    <3>1. rows'[Exp].saved = rows'[Exp].got /\ rows'[Exp].buf = 0
      BY <1>1, <2>1, <2>2, OwnRows
    <3> QED
      BY <1>1, <2>1, <3>1
  <2>3. CASE ret' = "error"
    BY <2>1, <2>3
  <2> QED
    BY <1>14, <2>2, <2>3 DEF FlushAppender, Return
<1>15. CASE RunDefer
  <2>1. pc = "unwind" /\ pc' = "unwind" /\ ret' = ret
    BY <1>15 DEF RunDefer
  <2>2. CASE ret = "nil"
    <3>1. rows[Exp].saved = rows[Exp].got /\ rows[Exp].buf = 0
      BY <1>1, <2>1, <2>2
    <3>2. rows' = Commit(Exp) \/ rows' = Drop(Exp) \/ rows' = rows
      BY <1>15 DEF RunDefer
    <3>3. rows'[Exp].saved = rows'[Exp].got /\ rows'[Exp].buf = 0
      BY <1>1, <3>1, <3>2, OwnRows
    <3> QED
      BY <1>1, <2>1, <3>3
  <2>3. CASE ret # "nil"
    BY <2>1, <2>3
  <2> QED
    BY <2>2, <2>3
<1> QED
  BY <1>2, <1>3, <1>4, <1>5, <1>6, <1>7, <1>8, <1>9, <1>10, <1>11, <1>12, <1>13, <1>14, <1>15 DEF Fetch, Write

LEMMA RowsStep ==
  ASSUME TypeInv, ProgressInv, RowsInv, SuccessIsDurable, [Next]_vars
  PROVE  RowsInv' /\ SuccessIsDurable'
<1> USE NumExporters
<1>1. CASE Fetch \/ Write
  <2>1. next \in 1 .. 4 /\ InExporter' /\ next' = next /\ Exp' = Exp /\ Reported' = Reported
    BY <1>1, InsideExporter DEF TypeInv, TypeOK, PositionByPc, Exp, Reported
  <2>2. \A k \in 1 .. 4 : k # next /\ Exporters[k] \in Tables
                           => rows'[Exporters[k]] = rows[Exporters[k]]
    BY <1>1, OthersUntouched
  <2>3. Exp \in Tables => RowsOfRunning'
    BY <1>1, RunningRows
  <2>4. RowsInv'
    BY <2>1, <2>2, <2>3 DEF RowsInv
  <2>5. SuccessIsDurable'
    BY <2>1, <2>2 DEF SuccessIsDurable
  <2> QED
    BY <2>4, <2>5
<1>2. CASE SettleExporter
  <2>1. /\ InExporter /\ ~InExporter' /\ next' = next + 1 /\ rows' = rows /\ pc = "unwind"
        /\ next \in 1 .. 4
    BY <1>2 DEF SettleExporter, InExporter, TypeInv, TypeOK, PositionByPc
  <2>2. RowsInv'
    BY <2>1 DEF RowsInv, TypeInv, TypeOK
  <2>3. Reported \subseteq Reported' /\ (ret = "error" => Exp \in Reported')
    <3>1. Exp \in PCs \cup Names /\ result.errors \in Seq(PCs \cup Names)
      BY <2>1, ExporterAt DEF TypeInv, TypeOK, ResultType
    <3>2. CASE ret = "error"
      <4>1. result'.errors = Append(result.errors, Exp)
        BY <1>2, <3>2 DEF SettleExporter, TypeInv, TypeOK, ResultType
      <4> QED
        BY <3>1, <4>1, AppendError DEF Reported
    <3>3. CASE ret # "error"
      BY <1>2, <3>3 DEF SettleExporter, Reported
    <3> QED
      BY <3>2, <3>3
  <2>4. ASSUME Exp \in Tables, ret # "error"
        PROVE  rows[Exp].saved = rows[Exp].got /\ rows[Exp].buf = 0
    BY <2>1, <2>4 DEF RowsInv, RowsOfRunning, TypeInv, TypeOK
  <2>5. SuccessIsDurable'
    BY <2>1, <2>3, <2>4 DEF SuccessIsDurable, Exp, TypeInv, TypeOK
  <2> QED
    BY <2>2, <2>5
<1>3. CASE SkipExporter
  <2>1. ~InExporter /\ ~InExporter' /\ next' = next + 1 /\ rows' = rows /\ next \in 1 .. 4
    BY <1>3 DEF SkipExporter, InExporter, TypeInv, TypeOK
  <2>2. Reported' = Reported
    BY <1>3 DEF SkipExporter, Reported
  <2>3. RowsInv'
    BY <2>1 DEF RowsInv
  <2>4. SuccessIsDurable'
    BY <2>1, <2>2 DEF SuccessIsDurable, RowsInv, NoRows
  <2> QED
    BY <2>3, <2>4
<1>4. CASE StartExporter
  <2>1. /\ ~InExporter /\ next' = next /\ rows' = rows /\ next \in 1 .. 4
        /\ pc' = "list" \/ Exp = "profiles"
    BY <1>4 DEF StartExporter, InExporter, TypeInv, TypeOK
  <2>2. Reported' = Reported /\ Exp' = Exp
    BY <1>4 DEF StartExporter, Reported, Exp
  <2>3. Exp \in Tables => rows[Exp] = NoRows
    BY <2>1 DEF RowsInv, Exp
  <2>4. Exp \in Tables => RowsOfRunning'
    BY <2>1, <2>2, <2>3 DEF RowsOfRunning, Tables
  <2>5. RowsInv'
    BY <2>1, <2>2, <2>4 DEF RowsInv
  <2>6. SuccessIsDurable'
    BY <2>1, <2>2 DEF SuccessIsDurable
  <2> QED
    BY <2>5, <2>6
<1>5. CASE Interrupt
  <2>1. /\ InExporter' = InExporter /\ next' = next /\ rows' = rows /\ Exp' = Exp
        /\ Reported' = Reported /\ RowsOfRunning' = RowsOfRunning
    BY <1>5 DEF Interrupt, InExporter, loopVars, Exp, Reported, RowsOfRunning
  <2> QED
    BY <2>1 DEF RowsInv, SuccessIsDurable
<1>6. CASE Setup \/ FinishLoop \/ CloseDatabase \/ Report
  <2>1. ~InExporter /\ ~InExporter' /\ next' = next /\ rows' = rows
    BY <1>6 DEF Setup, FinishLoop, CloseDatabase, Report, SetupSucceeds, SetupFails,
         MakeOutputDir, OpenDatabase, CreateSchema, StartupStep, StartupFails, InExporter, loopVars
  <2>2. CASE ~Setup
    <3>1. Reported' = Reported
      BY <1>6, <2>2 DEF FinishLoop, CloseDatabase, Report, Reported, loopVars, TypeInv, TypeOK,
                        ResultType
    <3> QED
      BY <2>1, <3>1 DEF RowsInv, SuccessIsDurable
  <2>3. CASE Setup
    <3>1. next = 1
      BY <2>3 DEF Setup, SetupSucceeds, SetupFails, MakeOutputDir, OpenDatabase, CreateSchema,
           StartupStep, StartupFails, TypeInv, PositionByPc, Starting
    <3> QED
      BY <2>1, <3>1 DEF RowsInv, SuccessIsDurable
  <2> QED
    BY <2>2, <2>3
<1>7. CASE Terminated \/ UNCHANGED vars
  <2>1. /\ InExporter' = InExporter /\ next' = next /\ rows' = rows /\ Exp' = Exp
        /\ Reported' = Reported /\ RowsOfRunning' = RowsOfRunning
    BY <1>7 DEF Terminated, vars, InExporter, Exp, Reported, RowsOfRunning
  <2> QED
    BY <2>1 DEF RowsInv, SuccessIsDurable
<1> QED
  BY <1>1, <1>2, <1>3, <1>4, <1>5, <1>6, <1>7 DEF Next, Loop

(* An exporter that returned no error left every row it received in its    *)
(* table: each path to "return nil" goes through a successful Flush.       *)
THEOREM DurableSuccess == Spec => []SuccessIsDurable
<1>1. Init => RowsInv /\ SuccessIsDurable
  BY NumExporters DEF Init, RowsInv, SuccessIsDurable, InExporter
<1>2. /\ TypeInv /\ ProgressInv /\ RowsInv /\ SuccessIsDurable /\ [Next]_vars
      => RowsInv' /\ SuccessIsDurable'
  BY RowsStep
<1> QED
  BY <1>1, <1>2, ProgressHolds, PTL DEF Spec

-----------------------------------------------------------------------------
(* ExportRun implements ExportContract, for every MaxRows and MaxItems.     *)

LEMMA NamesAgree == Contract!Names = Names
BY DEF Contract!Names, Names, Exporters

LEMMA PositionOf ==
  ASSUME NEW k \in 1 .. 4
  PROVE  /\ Exporters[k] \in Names
         /\ (CHOOSE j \in DOMAIN Exporters : Exporters[j] = Exporters[k]) = k
<1>1. \E j \in DOMAIN Exporters : Exporters[j] = Exporters[k]
  BY NumExporters
<1>2. Exporters[k] \in Names
  BY DEF Exporters, Names
<1> QED
  BY <1>1, <1>2, NumExporters, PositionUnique

LEMMA NameAt == \A e \in Names : \E k \in 1 .. 4 : e = Exporters[k]
BY DEF Names, Exporters

(* The outcome of the exporter at each position. *)
LEMMA OutcomeAt ==
  /\ DOMAIN Outcome = Names
  /\ \A k \in 1 .. 4 : Outcome[Exporters[k]] =
       IF k >= next THEN "pending"
       ELSE IF Exporters[k] \in opts.skip THEN "skipped"
       ELSE IF Exporters[k] \in Reported THEN "failed" ELSE "ok"
BY PositionOf DEF Outcome

LEMMA OutcomeAtPrime ==
  /\ DOMAIN Outcome' = Names
  /\ \A k \in 1 .. 4 : Outcome'[Exporters[k]] =
       IF k >= next' THEN "pending"
       ELSE IF Exporters[k] \in opts.skip' THEN "skipped"
       ELSE IF Exporters[k] \in Reported' THEN "failed" ELSE "ok"
BY PositionOf DEF Outcome

LEMMA RefineInit == Init => Contract!Init
<1> SUFFICES ASSUME Init PROVE Contract!Init
  OBVIOUS
<1>1. opts.skip \in SUBSET Names /\ exit = -1 /\ next = 1
  BY DEF Init, Running
<1>2. Outcome = [e \in Names |-> "pending"]
  <2>1. \A e \in Names : Outcome[e] = "pending"
    BY <1>1, NameAt, OutcomeAt
  <2>2. Outcome = [e \in Names |-> Outcome[e]]
    BY DEF Outcome
  <2> QED
    BY <2>1, <2>2
<1> QED
  BY <1>1, <1>2, NamesAgree DEF Contract!Init, Contract!Running

(* The loop moving past the exporter it stands on settles it. *)
LEMMA RefineSettle ==
  ASSUME NEW o \in {"skipped", "ok", "failed"}, next \in 1 .. 4, next' = next + 1,
         opts' = opts, exit = Running, exit' = exit,
         (o = "skipped") <=> (Exp \in opts.skip),
         Outcome'[Exp] = o,
         \A k \in 1 .. 4 : k # next => Outcome'[Exporters[k]] = Outcome[Exporters[k]]
  PROVE  Contract!Next
<1>1. Outcome[Exporters[next]] = "pending" /\ Contract!Turn(next)
  BY OutcomeAt DEF Contract!Turn
<1>2. Outcome' = [Outcome EXCEPT ![Exporters[next]] = o]
  <2>1. \A e \in Names : Outcome'[e] = IF e = Exporters[next] THEN o ELSE Outcome[e]
    BY NameAt DEF Exp
  <2>2. Outcome' = [e \in Names |-> Outcome'[e]]
    BY DEF Outcome
  <2>3. Outcome = [e \in Names |-> Outcome[e]]
    BY DEF Outcome
  <2> QED
    BY <2>1, <2>2, <2>3, PositionOf
<1>3. Contract!Settle(next)
  BY <1>1, <1>2 DEF Contract!Settle, Contract!Outcomes, Contract!Running, Running, Exp
<1> QED
  BY <1>3, NumExporters DEF Contract!Next

(* Nothing the contract speaks of changes. *)
LEMMA RefineStutter ==
  ASSUME opts' = opts, next' = next, exit' = exit, Reported' = Reported \/ next = 1
  PROVE  UNCHANGED Contract!cvars
<1>1. \A e \in Names : Outcome'[e] = Outcome[e]
  BY NameAt, OutcomeAt, OutcomeAtPrime
<1>2. Outcome' = [e \in Names |-> Outcome'[e]] /\ Outcome = [e \in Names |-> Outcome[e]]
  BY DEF Outcome
<1> QED
  BY <1>1, <1>2 DEF Contract!cvars

LEMMA RefineReport ==
  ASSUME TypeInv, ProgressInv, Report
  PROVE  Contract!Next
<1>1. /\ exit = Running /\ exit' = ExitCode(result.status) /\ pc = "report"
      /\ opts' = opts /\ next' = next /\ Reported' = Reported
  BY DEF Report, ProgressInv, Reported
<1>2. Outcome' = Outcome /\ opts'.skip = opts.skip
  BY DEF Report, Outcome, Reported
<1>3. CASE next = 1 /\ result.status = "Failure"
  <2>1. \A e \in Names : Outcome[e] = "pending"
    BY <1>3, NameAt, OutcomeAt
  <2>2. exit' = 2
    BY <1>1, <1>3 DEF ExitCode
  <2>3. Contract!Abandon
    BY <1>1, <1>2, <2>1, <2>2, NamesAgree DEF Contract!Abandon, Contract!Running, Running
  <2> QED
    BY <2>3 DEF Contract!Next
<1>4. CASE ~(next = 1 /\ result.status = "Failure")
  <2>1. /\ next = 5 /\ CountsAgree /\ Done = Requested /\ ~InExporter
        /\ exit' = ExitCode(DetermineStatus(count.attempted, count.succeeded))
    BY <1>1, <1>4, DoneAtEnds DEF ProgressInv, InExporter
  <2>2. \A e \in Names : Outcome[e] = IF e \in opts.skip THEN "skipped"
                                     ELSE IF e \in Reported THEN "failed" ELSE "ok"
    BY <2>1, NameAt, OutcomeAt
  <2>3. /\ count.attempted \in Nat /\ count.succeeded \in Nat
        /\ Len(result.errors) \in Nat
        /\ Len(result.errors) = 0 <=> result.errors = <<>>
    BY EmptyErrors DEF TypeInv, TypeOK, ResultType
  <2>4. /\ count.attempted = count.succeeded + Len(result.errors)
        /\ Reported \subseteq Requested
        /\ count.succeeded = 0 <=> Requested \subseteq Reported
        /\ result.errors = <<>> <=> Reported = {}
    BY <2>1, <2>3 DEF CountsAgree
  <2>5. exit' = Contract!ExitCode(Outcome)
    <3>1. CASE Reported = {}
      <4>1. exit' = 0
        BY <2>1, <2>3, <2>4, <3>1 DEF ExitCode, DetermineStatus
      <4>2. \A e \in Contract!Names : Outcome[e] # "failed"
        BY <2>2, <3>1, NamesAgree
      <4> QED
        BY <4>1, <4>2 DEF Contract!ExitCode
    <3>2. CASE Reported # {} /\ count.succeeded > 0
      <4>1. exit' = 1
        BY <2>1, <2>3, <2>4, <3>2 DEF ExitCode, DetermineStatus
      <4>2. /\ \E e \in Contract!Names : Outcome[e] = "failed"
            /\ \E e \in Contract!Names : Outcome[e] = "ok"
        BY <2>2, <2>3, <2>4, <3>2, NamesAgree DEF Requested
      <4> QED
        BY <4>1, <4>2 DEF Contract!ExitCode
    <3>3. CASE Reported # {} /\ count.succeeded = 0
      <4>1. exit' = 2
        BY <2>1, <2>3, <2>4, <3>3 DEF ExitCode, DetermineStatus
      <4>2. /\ \E e \in Contract!Names : Outcome[e] = "failed"
            /\ ~ \E e \in Contract!Names : Outcome[e] = "ok"
        BY <2>2, <2>3, <2>4, <3>3, NamesAgree DEF Requested
      <4> QED
        BY <4>1, <4>2 DEF Contract!ExitCode
    <3> QED
      BY <2>3, <3>1, <3>2, <3>3
  <2>6. \A e \in Names : Outcome[e] # "pending"
    BY <2>2
  <2>7. Contract!Finish
    BY <1>1, <1>2, <2>5, <2>6, NamesAgree DEF Contract!Finish, Contract!Running, Running
  <2> QED
    BY <2>7 DEF Contract!Next
<1> QED
  BY <1>3, <1>4

LEMMA RefineStep ==
  ASSUME TypeInv, ProgressInv, [Next]_vars
  PROVE  [Contract!Next]_(Contract!cvars)
<1>1. CASE Fetch \/ Write
  BY <1>1, InsideExporter, RefineStutter DEF Reported
<1>2. CASE Report
  BY <1>2, RefineReport
<1>3. CASE SkipExporter
  <2>1. /\ next \in 1 .. 4 /\ next' = next + 1 /\ opts' = opts /\ Exp \in opts.skip
        /\ exit = Running /\ exit' = exit /\ Reported' = Reported
    BY <1>3, NumExporters DEF SkipExporter, TypeInv, TypeOK, ProgressInv, Reported
  <2>2. Outcome'[Exp] = "skipped"
    BY <2>1, OutcomeAtPrime DEF Exp
  <2>3. \A k \in 1 .. 4 : k # next => Outcome'[Exporters[k]] = Outcome[Exporters[k]]
    BY <2>1, OutcomeAt, OutcomeAtPrime
  <2> QED
    BY <2>1, <2>2, <2>3, RefineSettle
<1>4. CASE SettleExporter
  <2>1. /\ next \in 1 .. 4 /\ next' = next + 1 /\ opts' = opts /\ Exp \notin opts.skip
        /\ exit = Running /\ exit' = exit /\ InExporter
    BY <1>4 DEF SettleExporter, TypeInv, TypeOK, PositionByPc, ProgressInv, InExporter
  <2>2. Reported \subseteq Done /\ Exp \notin Done
    BY <2>1, DoneAfter DEF ProgressInv, CountsAgree
  <2>3. Reported' = Reported \cup (IF ret = "error" THEN {Exp} ELSE {})
    <3>1. Exp \in PCs \cup Names /\ result.errors \in Seq(PCs \cup Names)
      BY <2>1, ExporterAt DEF TypeInv, TypeOK, ResultType
    <3>2. CASE ret = "error"
      <4>1. result'.errors = Append(result.errors, Exp)
        BY <1>4, <3>2 DEF SettleExporter, TypeInv, TypeOK, ResultType
      <4> QED
        BY <3>1, <3>2, <4>1, AppendError DEF Reported
    <3>3. CASE ret # "error"
      BY <1>4, <3>3 DEF SettleExporter, Reported
    <3> QED
      BY <3>2, <3>3
  <2>4. Outcome'[Exp] = IF ret = "error" THEN "failed" ELSE "ok"
    BY <2>1, <2>2, <2>3, OutcomeAtPrime DEF Exp
  <2>5. \A k \in 1 .. 4 : k # next => Outcome'[Exporters[k]] = Outcome[Exporters[k]]
    BY <2>1, <2>3, OutcomeAt, OutcomeAtPrime, PositionUnique DEF Exp
  <2> QED
    BY <2>1, <2>4, <2>5, RefineSettle
<1>5. CASE StartExporter \/ FinishLoop \/ CloseDatabase
  <2>1. opts' = opts /\ next' = next /\ exit' = exit /\ Reported' = Reported
    BY <1>5 DEF StartExporter, FinishLoop, CloseDatabase, Reported, loopVars, TypeInv, TypeOK,
                ResultType
  <2> QED
    BY <2>1, RefineStutter
<1>6. CASE Setup /\ ~SetupFails
  <2>1. opts' = opts /\ next' = next /\ exit' = exit /\ next = 1
    BY <1>6 DEF Setup, SetupSucceeds, MakeOutputDir, OpenDatabase, CreateSchema, StartupStep,
                StartupFails, loopVars, TypeInv, PositionByPc, Starting
  <2> QED
    BY <2>1, RefineStutter
<1>7. CASE SetupFails
  <2>1. next = 1 /\ exit = Running /\ exit' = 2 /\ opts' = opts /\ Outcome' = Outcome
    BY <1>7 DEF SetupFails, TypeInv, PositionByPc, Starting, ProgressInv, Outcome, Reported
  <2>2. \A e \in Names : Outcome[e] = "pending"
    BY <2>1, NameAt, OutcomeAt
  <2> QED
    BY <2>1, <2>2, NamesAgree DEF Contract!Next, Contract!Abandon, Contract!Running, Running
<1>8. CASE Interrupt
  BY <1>8, RefineStutter DEF Interrupt, loopVars, Reported
<1>9. CASE Terminated \/ UNCHANGED vars
  BY <1>9, RefineStutter DEF Terminated, vars, Reported
<1> QED
  BY <1>1, <1>2, <1>3, <1>4, <1>5, <1>6, <1>7, <1>8, <1>9 DEF Next, Loop

(* A run keeps the promise of ExportContract: every requested exporter is   *)
(* settled once, in order, whatever the others did, and the exit code is a  *)
(* function of the outcomes.                                                *)
THEOREM RunKeepsContract == Spec => ImplementsContract
<1>1. Spec => Contract!Init
  BY RefineInit DEF Spec
<1>2. Spec => [][Contract!Next]_(Contract!cvars)
  BY RefineStep, ProgressHolds, PTL DEF Spec
<1> QED
  BY <1>1, <1>2, PTL DEF ImplementsContract, Contract!Spec

(***************************************************************************)
(* Every step advances the run                                             *)
(***************************************************************************)
LEMMA CallsAre ==
  /\ DOMAIN Calls = 1 .. 15
  /\ Calls[1] = {"setup"} /\ Calls[2] = {"mkdir"} /\ Calls[3] = {"opendb"}
  /\ Calls[4] = {"schema"} /\ Calls[5] = {"loop"} /\ Calls[6] = {"list", "listbody"}
  /\ Calls[7] = {"item", "itembody"} /\ Calls[8] = {"conn"} /\ Calls[9] = {"appender"}
  /\ Calls[10] = {"append"} /\ Calls[11] = {"flush"} /\ Calls[12] = {"unwind"}
  /\ Calls[13] = {"closedb"} /\ Calls[14] = {"report"} /\ Calls[15] = {"exited"}
BY DEF Calls

(* From call i to a later call j. *)
LEMMA Onwards ==
  ASSUME next' = next, NEW i \in 1 .. 15, NEW j \in 1 .. 15, i < j,
         pc \in Calls[i], pc' \in Calls[j]
  PROVE  Advances
BY CallsAre DEF Advances

(* Within call i, with less left to do. *)
LEMMA Shorter ==
  ASSUME next' = next, NEW i \in 1 .. 15, pc \in Calls[i], pc' \in Calls[i],
         0 <= Remaining', Remaining' < Remaining
  PROVE  Advances
BY CallsAre DEF Advances

LEMMA StacksShrink ==
  ASSUME NEW d \in Stacks
  PROVE  Len(d) \in Nat /\ (d # <<>> => Len(Tail(d)) = Len(d) - 1)
BY StackFacts DEF Stacks

LEMMA SpansShrink ==
  ASSUME rows \in RowsType, rows' = Receive("traces", 0, 1), Exp = "traces", next' = next
  PROVE  Unsaved(Exp) \in Int /\ Unsaved(Exp)' = Unsaved(Exp) - 1
<1>1. Exp' = "traces"
  BY DEF Exp
<1>2. QED
  BY <1>1 DEF Unsaved, Receive, RowsType, Tables

LEMMA StepAdvances ==
  TypeInv /\ Next =>
    (ctx = "live" /\ ctx' = "cancelled") \/ ReadsOn \/ Advances \/ UNCHANGED vars
<1> SUFFICES ASSUME TypeInv, Next
             PROVE  (ctx = "live" /\ ctx' = "cancelled") \/ ReadsOn \/ Advances \/ UNCHANGED vars
  OBVIOUS
<1> USE CallsAre DEF loopVars, fetchVars
<1>0. /\ next \in 1 .. 5 /\ apis \in Nat /\ left \in Nat /\ defers \in Stacks
      /\ Len(defers) \in Nat
  BY StacksShrink DEF TypeInv, TypeOK
<1>1. CASE Interrupt
  BY <1>1 DEF Interrupt
<1>2. CASE Setup
  <2>1. CASE SetupSucceeds
    BY <2>1, Onwards DEF SetupSucceeds
  <2>2. CASE SetupFails
    BY <2>2, Onwards DEF SetupFails
  <2>3. CASE MakeOutputDir
    BY <2>3, Onwards DEF MakeOutputDir, StartupStep, StartupFails
  <2>4. CASE OpenDatabase
    BY <2>4, Onwards DEF OpenDatabase, StartupStep, StartupFails
  <2>5. CASE CreateSchema
    BY <2>5, Onwards DEF CreateSchema, StartupStep, StartupFails
  <2>6. QED
    BY <1>2, <2>1, <2>2, <2>3, <2>4, <2>5 DEF Setup
<1>3. CASE Loop
  <2>1. CASE SkipExporter \/ SettleExporter
    BY <1>0, <2>1 DEF SkipExporter, SettleExporter, Advances
  <2>2. CASE StartExporter
    BY <2>2, Onwards DEF StartExporter
  <2>3. CASE FinishLoop
    BY <2>3, Onwards DEF FinishLoop
  <2>4. CASE CloseDatabase
    BY <2>4, Onwards DEF CloseDatabase
  <2>5. CASE Report
    BY <2>5, Onwards DEF Report
  <2>6. QED
    BY <1>3, <2>1, <2>2, <2>3, <2>4, <2>5 DEF Loop
<1>4. CASE RequestSucceeds
  <2>1. CASE Exp \in Streams
    BY <1>4, <2>1, Onwards DEF RequestSucceeds
  <2>2. CASE Exp \notin Streams /\ pc = "list"
    <3>1. pc' = "listbody" /\ next' = next /\ UNCHANGED <<apis, left, defers>>
      BY <1>4, <2>2 DEF RequestSucceeds
    <3>2. 0 <= Remaining' /\ Remaining' < Remaining
      BY <1>0, <2>2, <3>1 DEF Remaining
    <3>3. QED
      BY <2>2, <3>1, <3>2, Shorter
  <2>3. CASE Exp \notin Streams /\ pc = "item"
    <3>1. pc' = "itembody" /\ next' = next /\ UNCHANGED <<apis, left, defers>>
      BY <1>4, <2>3 DEF RequestSucceeds
    <3>2. 0 <= Remaining' /\ Remaining' < Remaining
      BY <1>0, <2>3, <3>1 DEF Remaining
    <3>3. QED
      BY <2>3, <3>1, <3>2, Shorter
  <2>4. QED
    BY <1>4, <2>1, <2>2, <2>3 DEF RequestSucceeds
<1>5. CASE ListFails
  <2>1. CASE apis > 1
    <3>1. /\ pc \in {"list", "listbody"} /\ pc' = "list" /\ next' = next
          /\ apis' = apis - 1 /\ UNCHANGED <<left, defers>>
      BY <1>5, <2>1 DEF ListFails
    <3>2. 0 <= Remaining' /\ Remaining' < Remaining
      BY <1>0, <2>1, <3>1 DEF Remaining
    <3>3. QED
      BY <3>1, <3>2, Shorter
  <2>2. CASE ~ (apis > 1)
    BY <1>5, <2>2, Onwards DEF ListFails, Return
  <2>3. QED
    BY <2>1, <2>2
<1>6. CASE ListDecoded
  BY <1>6, Onwards DEF ListDecoded
<1>7. CASE ItemFails \/ ItemDecoded
  <2>1. /\ pc \in {"item", "itembody"} /\ pc' = "item" /\ next' = next
        /\ left > 0 /\ left' = left - 1 /\ UNCHANGED <<apis, defers>>
    BY <1>7 DEF ItemFails, ItemDecoded, TypeInv, PositionByPc
  <2>2. 0 <= Remaining' /\ Remaining' < Remaining
    BY <1>0, <2>1 DEF Remaining
  <2>3. QED
    BY <2>1, <2>2, Shorter
<1>8. CASE ItemsDone
  BY <1>8, Onwards DEF ItemsDone, Return
<1>9. CASE OpenConnection
  BY <1>9, Onwards DEF OpenConnection, Return
<1>10. CASE OpenAppender
  BY <1>10, Onwards DEF OpenAppender, Return
<1>11. CASE AppendLine
  <2>1. pc = "append" /\ Exp \in Streams /\ next' = next /\ pc' \in {"append", "unwind"}
    BY <1>11 DEF AppendLine, Return
  <2>2. QED
    BY <2>1, Onwards DEF ReadsOn
<1>12. CASE AppendSpan
  <2>1. CASE rows' = Receive(Exp, 0, 1) /\ UNCHANGED <<pc, ret>>
    <3>1. /\ pc = "append" /\ pc' = "append" /\ next' = next
          /\ Exp = "traces" /\ Unsaved(Exp) > 0
      BY <1>12, <2>1 DEF AppendSpan
    <3>2. 0 <= Remaining' /\ Remaining' < Remaining
      BY <2>1, <3>1, SpansShrink DEF Remaining, TypeInv, TypeOK
    <3>3. QED
      BY <3>1, <3>2, Shorter
  <2>2. CASE Return("error")
    BY <1>12, <2>2, Onwards DEF AppendSpan, Return
  <2>3. QED
    BY <1>12, <2>1, <2>2 DEF AppendSpan
<1>13. CASE StreamFails
  BY <1>13, Onwards DEF StreamFails, Return
<1>14. CASE InputEnds
  BY <1>14, Onwards DEF InputEnds
<1>15. CASE FlushAppender
  BY <1>15, Onwards DEF FlushAppender, Return
<1>16. CASE RunDefer
  <2>1. /\ pc = "unwind" /\ pc' = "unwind" /\ next' = next
        /\ defers # <<>> /\ defers' = Tail(defers) /\ UNCHANGED <<apis, left>>
    BY <1>16 DEF RunDefer
  <2>2. Len(defers') \in Nat /\ Len(defers') = Len(defers) - 1
    BY <1>0, <2>1, StacksShrink, PopStack
  <2>3. 0 <= Remaining' /\ Remaining' < Remaining
    BY <1>0, <2>1, <2>2 DEF Remaining
  <2>4. QED
    BY <2>1, <2>3, Shorter
<1>17. CASE Terminated
  BY <1>17 DEF Terminated
<1>18. QED
  BY <1>1, <1>2, <1>3, <1>4, <1>5, <1>6, <1>7, <1>8, <1>9, <1>10, <1>11, <1>12, <1>13, <1>14,
     <1>15, <1>16, <1>17 DEF Next, Fetch, Write

(* No failure ever sends a run back: but for a signal and a further line of *)
(* a stream, each step makes what is left of the run shorter, however many  *)
(* rows and items the backends hand out.                                    *)
THEOREM RunAdvances == Spec => EveryStepAdvances
<1>1. TypeInv /\ [Next]_vars =>
        [(ctx = "live" /\ ctx' = "cancelled") \/ ReadsOn \/ Advances]_vars
  BY StepAdvances
<1>2. TypeInv /\ [Next]_vars => TypeInv'
  BY TypeStep
<1>3. QED
  BY <1>1, <1>2, TypeInit, PTL DEF Spec, EveryStepAdvances

=============================================================================
