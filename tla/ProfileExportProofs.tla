--------------------------- MODULE ProfileExportProofs ---------------------------
(***************************************************************************)
(* Proofs about ProfileExport for any number of runs in one directory, any *)
(* listings and any file names: a counted download is saved unless its     *)
(* file was chosen again, a signal stops the downloads, and each run is a  *)
(* best-effort collection.                                                 *)
(***************************************************************************)
EXTENDS ProfileExport, TLAPS

Places == {"mkdir", "probe", "next", "query", "create", "write", "done", "skipped", "failed"}

Entry == [type : Types, counted : BOOLEAN, file : File]

\* A run past the loop's head has a download under way, one that writes has its file.
CurrentOk ==
    /\ \A r \in Runs : pc[r] \in {"query", "create", "write"} => left[r] # <<>>
    /\ \A r \in Runs : pc[r] = "write" => FileOf(r) \in DOMAIN files

\* Before the listing a run has settled nothing and has nothing left.
FreshOk == \A r \in Runs : pc[r] \in {"mkdir", "probe", "skipped", "failed"} => left[r] = <<>>

\* Whatever is in a file was written by a settled download that chose it.
PiecesOwned ==
    \A f \in DOMAIN files : files[f] # {} =>
        \E r \in Runs : \E i \in DOMAIN settled[r] : settled[r][i].file = f

\* A run creates a file after its signal only for the response it had received.
LateOk ==
    \A r \in Runs :
        /\ ctx[r] = "live" => late[r] = 0
        /\ late[r] \in {0, 1}
        /\ late[r] = 1 => pc[r] # "create"

SavedFileExists ==
    \A r \in Runs : \A i \in DOMAIN settled[r] :
        settled[r][i].counted => settled[r][i].file \in DOMAIN files

IInv == TypeOK /\ CurrentOk /\ FreshOk /\ PiecesOwned /\ LateOk /\ SavedFileExists /\ CountedIsSaved

-----------------------------------------------------------------------------
LEMMA InitEstablishes == Init => IInv
<1> SUFFICES ASSUME Init PROVE IInv
  OBVIOUS
<1>1. TypeOK
  BY MaxTimeAssumption DEF Init, TypeOK, Candidates
<1>2. CurrentOk /\ FreshOk /\ PiecesOwned /\ LateOk
  BY DEF Init, CurrentOk, FreshOk, PiecesOwned, LateOk
<1>3. SavedFileExists /\ CountedIsSaved
  BY DEF Init, SavedFileExists, CountedIsSaved
<1>4. QED
  BY <1>1, <1>2, <1>3 DEF IInv

\* Settling appends one entry and moves to the next type.
LEMMA SettleEffect ==
    ASSUME TypeOK, NEW r \in Runs, NEW c \in BOOLEAN, left[r] # <<>>, Settle(r, c)
    PROVE  /\ pc' = [pc EXCEPT ![r] = "next"]
           /\ left' \in [Runs -> Seq(Types)]
           /\ \A q \in Runs \ {r} : settled'[q] = settled[q] /\ left'[q] = left[q]
           /\ settled' \in [Runs -> Seq(Entry)]
           /\ DOMAIN settled'[r] = 1 .. Len(settled[r]) + 1
           /\ DOMAIN settled[r] = 1 .. Len(settled[r])
           /\ Len(settled[r]) \in Nat
           /\ \A i \in DOMAIN settled[r] : settled'[r][i] = settled[r][i]
           /\ settled'[r][Len(settled[r]) + 1] =
                  [type |-> Head(left[r]), counted |-> c, file |-> FileOf(r)]
<1>1. Head(left[r]) \in Types /\ Tail(left[r]) \in Seq(Types)
  BY DEF TypeOK
<1>2. FileOf(r) \in File
  BY <1>1 DEF FileOf, File, TypeOK
<1>3. settled[r] \in Seq(Entry)
  BY DEF TypeOK, Entry
<1> DEFINE e == [type |-> Head(left[r]), counted |-> c, file |-> FileOf(r)]
<1>4. e \in Entry
  BY <1>1, <1>2 DEF Entry
<1>5. settled' = [settled EXCEPT ![r] = Append(settled[r], e)]
      /\ left' = [left EXCEPT ![r] = Tail(left[r])]
      /\ pc' = [pc EXCEPT ![r] = "next"]
  BY DEF Settle, Goto
<1>6. settled'[r] = Append(settled[r], e)
  BY <1>5 DEF TypeOK
<1>7. Append(settled[r], e) \in Seq(Entry)
  BY <1>3, <1>4
<1>8. settled \in [Runs -> Seq(Entry)] /\ left \in [Runs -> Seq(Types)]
  BY DEF TypeOK, Entry
<1>9. settled' \in [Runs -> Seq(Entry)]
  BY <1>5, <1>7, <1>8
<1>10. left' \in [Runs -> Seq(Types)]
  BY <1>1, <1>5, <1>8
<1>11. \A q \in Runs \ {r} : settled'[q] = settled[q] /\ left'[q] = left[q]
  BY <1>5, <1>8
<1>12. /\ Len(settled[r]) \in Nat
       /\ DOMAIN settled[r] = 1 .. Len(settled[r])
  BY <1>3
<1>13. /\ DOMAIN Append(settled[r], e) = 1 .. Len(settled[r]) + 1
       /\ \A i \in 1 .. Len(settled[r]) : Append(settled[r], e)[i] = settled[r][i]
       /\ Append(settled[r], e)[Len(settled[r]) + 1] = e
  <2> HIDE DEF e
  <2>1. QED
    BY <1>3, <1>4
<1>14. QED
  BY <1>5, <1>6, <1>9, <1>10, <1>11, <1>12, <1>13

\* Every way in which a download ends keeps the invariant: the files of others stay
\* as they are, and what is counted has replaced an empty file by its data.
LEMMA SettleKeeps ==
    ASSUME IInv, NEW r \in Runs, NEW c \in BOOLEAN, Settle(r, c),
           pc[r] \in {"query", "create", "write"},
           UNCHANGED <<ctx, probe, now, clock, late>>,
           DOMAIN files' = DOMAIN files,
           \A f \in DOMAIN files : files'[f] \subseteq Piece,
           \A f \in DOMAIN files \ {FileOf(r)} : files'[f] = files[f],
           c => /\ FileOf(r) \in DOMAIN files
                /\ files[FileOf(r)] = {} =>
                       files'[FileOf(r)] =
                           {[type |-> Head(left[r]), by |-> r, whole |-> TRUE]}
    PROVE  IInv'
<1> DEFINE n == Len(settled[r]) + 1
           F == FileOf(r)
<1>1. left[r] # <<>> /\ TypeOK
  BY DEF IInv, CurrentOk
<1>2. /\ pc' = [pc EXCEPT ![r] = "next"]
      /\ left' \in [Runs -> Seq(Types)]
      /\ \A q \in Runs \ {r} : settled'[q] = settled[q] /\ left'[q] = left[q]
      /\ settled' \in [Runs -> Seq(Entry)]
      /\ DOMAIN settled'[r] = 1 .. n
      /\ DOMAIN settled[r] = 1 .. Len(settled[r])
      /\ Len(settled[r]) \in Nat
      /\ \A i \in DOMAIN settled[r] : settled'[r][i] = settled[r][i]
      /\ settled'[r][n] = [type |-> Head(left[r]), counted |-> c, file |-> F]
  BY <1>1, SettleEffect
<1>3. pc'[r] = "next" /\ \A q \in Runs \ {r} : pc'[q] = pc[q]
  BY <1>1, <1>2 DEF TypeOK
<1>4. \A q \in Runs \ {r} : FileOf(q)' = FileOf(q)
  BY <1>2 DEF FileOf
<1>5. /\ n \in DOMAIN settled'[r] /\ n \notin DOMAIN settled[r]
      /\ \A q \in Runs : \A i \in DOMAIN settled[q] :
             i \in DOMAIN settled'[q] /\ settled'[q][i] = settled[q][i]
      /\ \A q \in Runs : \A i \in DOMAIN settled'[q] :
             i \in DOMAIN settled[q] \/ (q = r /\ i = n)
  <2>1. /\ n \in Nat /\ n \in 1 .. n /\ n \notin 1 .. Len(settled[r])
        /\ \A i \in 1 .. Len(settled[r]) : i \in 1 .. n
        /\ \A i \in 1 .. n : i \in 1 .. Len(settled[r]) \/ i = n
    BY <1>2
  <2>2. DOMAIN settled'[r] = 1 .. n /\ DOMAIN settled[r] = 1 .. Len(settled[r])
    BY <1>2
  <2> HIDE DEF n
  <2>3. \A i \in DOMAIN settled[r] : settled'[r][i] = settled[r][i]
    BY <1>2
  <2>4. \A q \in Runs \ {r} : settled'[q] = settled[q]
    BY <1>2
  <2>5. \A q \in Runs : \A i \in DOMAIN settled[q] :
            i \in DOMAIN settled'[q] /\ settled'[q][i] = settled[q][i]
    <3> TAKE q \in Runs
    <3>1. CASE q = r
      BY <3>1, <2>1, <2>2, <2>3
    <3>2. CASE q # r
      BY <3>2, <2>4
    <3>3. QED
      BY <3>1, <3>2
  <2>6. \A q \in Runs : \A i \in DOMAIN settled'[q] :
            i \in DOMAIN settled[q] \/ (q = r /\ i = n)
    <3> SUFFICES ASSUME NEW q \in Runs, NEW i \in DOMAIN settled'[q]
                 PROVE  i \in DOMAIN settled[q] \/ (q = r /\ i = n)
      OBVIOUS
    <3>1. CASE q = r
      <4>1. i \in 1 .. n
        BY <3>1, <2>2
      <4>2. i \in 1 .. Len(settled[r]) \/ i = n
        BY <4>1, <2>1
      <4>3. QED
        BY <3>1, <4>2, <2>2
    <3>2. CASE q # r
      BY <3>2, <2>4
    <3>3. QED
      BY <3>1, <3>2
  <2>7. QED
    BY <2>1, <2>2, <2>5, <2>6
<1>e. settled'[r][n].file = F /\ settled'[r][n].type = Head(left[r])
      /\ settled'[r][n].counted = c
  BY <1>2
<1> HIDE DEF n, F
<1>6. TypeOK'
  <2>1. pc' \in [Runs -> {"mkdir", "probe", "next", "query", "create", "write",
                          "done", "skipped", "failed"}]
    BY <1>1, <1>2 DEF TypeOK
  <2>2. settled' \in [Runs -> Seq([type : Types, counted : BOOLEAN, file : File])]
    BY <1>2 DEF Entry
  <2>3. left' \in [Runs -> Seq(Types)]
    BY <1>2
  <2>4. QED
    BY <1>1, <2>1, <2>2, <2>3 DEF TypeOK
<1>7. CurrentOk'
  <2> SUFFICES ASSUME NEW q \in Runs, pc'[q] \in {"query", "create", "write"}
               PROVE  left'[q] # <<>> /\ (pc'[q] = "write" => FileOf(q)' \in DOMAIN files')
    BY DEF CurrentOk
  <2>1. q # r /\ pc'[q] = pc[q]
    BY <1>3
  <2>2. QED
    BY <1>2, <1>4, <2>1 DEF IInv, CurrentOk
<1>8. FreshOk'
  BY <1>2, <1>3 DEF IInv, FreshOk
<1>9. PiecesOwned'
  <2> SUFFICES ASSUME NEW f \in DOMAIN files, files'[f] # {}
               PROVE  \E q \in Runs : \E i \in DOMAIN settled'[q] : settled'[q][i].file = f
    BY DEF PiecesOwned
  <2>1. CASE f = F
    BY <2>1, <1>5, <1>e
  <2>2. CASE f # F
    BY <2>2, <1>5 DEF IInv, PiecesOwned, F
  <2>3. QED
    BY <2>1, <2>2
<1>10. LateOk'
  BY <1>3 DEF IInv, LateOk
<1>11. SavedFileExists'
  BY <1>5, <1>e DEF IInv, SavedFileExists, F
<1>12. CountedIsSaved'
  <2> SUFFICES ASSUME NEW q \in Runs, NEW i \in DOMAIN settled'[q],
                      settled'[q][i].counted, Alone(q, i)'
               PROVE  Saved(q, i)'
    BY DEF CountedIsSaved
  <2>1. CASE q = r /\ i = n
    <3>1. \A p \in Runs : \A j \in DOMAIN settled[p] : settled[p][j].file # F
      BY <2>1, <1>5, <1>e DEF Alone
    <3>2. c /\ F \in DOMAIN files /\ files[F] = {}
      BY <2>1, <3>1, <1>e DEF IInv, PiecesOwned, F
    <3>3. QED
      BY <2>1, <3>2, <1>e DEF Saved, F
  <2>2. CASE i \in DOMAIN settled[q] /\ ~(q = r /\ i = n)
    <3>1. settled'[q][i] = settled[q][i]
      BY <2>2, <1>5
    <3>2. settled[q][i].file # F
      BY <2>2, <3>1, <1>5, <1>e DEF Alone
    <3>3. Alone(q, i)
      BY <2>2, <3>1, <3>2, <1>3, <1>4, <1>5 DEF Alone, F
    <3>4. Saved(q, i) /\ settled[q][i].file \in DOMAIN files
      BY <2>2, <3>1, <3>3 DEF IInv, CountedIsSaved, SavedFileExists
    <3>5. QED
      BY <3>1, <3>2, <3>4 DEF Saved, F
  <2>3. QED
    BY <2>1, <2>2, <1>5
<1>13. QED
  BY <1>6, <1>7, <1>8, <1>9, <1>10, <1>11, <1>12 DEF IInv

\* A step that leaves the files, the settled downloads and the writers alone keeps
\* what is said of them.
LEMMA QuietKeeps ==
    ASSUME IInv, TypeOK', CurrentOk', FreshOk', LateOk', UNCHANGED <<settled, files>>,
           \A q \in Runs : pc[q] = "write" => pc'[q] = "write" /\ FileOf(q)' = FileOf(q)
    PROVE  IInv'
<1>1. PiecesOwned' /\ SavedFileExists'
  BY DEF IInv, PiecesOwned, SavedFileExists
<1>2. ASSUME NEW q \in Runs, NEW i \in DOMAIN settled[q], Alone(q, i)'
      PROVE  Alone(q, i)
  BY <1>2 DEF Alone
<1>3. CountedIsSaved'
  BY <1>2 DEF IInv, CountedIsSaved, Saved
<1>4. QED
  BY <1>1, <1>3 DEF IInv

LEMMA StepPreserves == IInv /\ [Next]_vars => IInv'
<1> SUFFICES ASSUME IInv, [Next]_vars
             PROVE  IInv'
  OBVIOUS
<1>t. TypeOK
  BY DEF IInv
<1>1. ASSUME NEW r \in Runs, MakeDirectory(r) PROVE IInv'
  <2>1. TypeOK'
    BY <1>1, <1>t DEF MakeDirectory, Goto, TypeOK, Candidates
  <2>2. CurrentOk' /\ FreshOk' /\ LateOk'
    BY <1>1, <1>t DEF MakeDirectory, Goto, IInv, TypeOK, CurrentOk, FreshOk, LateOk, FileOf
  <2>3. \A q \in Runs : pc[q] = "write" => pc'[q] = "write" /\ FileOf(q)' = FileOf(q)
    BY <1>1, <1>t DEF MakeDirectory, Goto, TypeOK, FileOf
  <2>4. QED
    BY <1>1, <2>1, <2>2, <2>3, QuietKeeps DEF MakeDirectory
<1>2. ASSUME NEW r \in Runs, ProbeAnswered(r) \/ ProbeBlank(r) PROVE IInv'
  <2>0. PICK types \in Seq(Types) : pc[r] = "probe" /\ Discover(r, types)
    <3>1. <<>> \in Seq(Types)
      OBVIOUS
    <3>2. QED
      BY <1>2, <3>1, ListingsAssumption, Zenon DEF ProbeAnswered, ProbeBlank
  <2>1. TypeOK'
    BY <2>0, <1>t DEF Discover, Goto, TypeOK, Candidates
  <2>2. CurrentOk' /\ FreshOk' /\ LateOk'
    BY <2>0, <1>t DEF Discover, Goto, IInv, TypeOK, CurrentOk, FreshOk, LateOk, FileOf
  <2>3. \A q \in Runs : pc[q] = "write" => pc'[q] = "write" /\ FileOf(q)' = FileOf(q)
    BY <2>0, <1>t DEF Discover, Goto, TypeOK, FileOf
  <2>4. QED
    BY <2>0, <2>1, <2>2, <2>3, QuietKeeps DEF Discover
<1>3. ASSUME NEW r \in Runs, ProbeRefused(r) PROVE IInv'
  <2>1. TypeOK'
    BY <1>3, <1>t DEF ProbeRefused, Goto, TypeOK, Candidates
  <2>2. CurrentOk' /\ FreshOk' /\ LateOk'
    BY <1>3, <1>t DEF ProbeRefused, Goto, IInv, TypeOK, CurrentOk, FreshOk, LateOk, FileOf
  <2>3. \A q \in Runs : pc[q] = "write" => pc'[q] = "write" /\ FileOf(q)' = FileOf(q)
    BY <1>3, <1>t DEF ProbeRefused, Goto, TypeOK, FileOf
  <2>4. QED
    BY <1>3, <2>1, <2>2, <2>3, QuietKeeps DEF ProbeRefused
<1>4. ASSUME NEW r \in Runs, StartDownload(r) PROVE IInv'
  <2>1. TypeOK'
    BY <1>4, <1>t DEF StartDownload, Goto, TypeOK, Candidates
  <2>2. CurrentOk' /\ FreshOk' /\ LateOk'
    BY <1>4, <1>t DEF StartDownload, Goto, IInv, TypeOK, CurrentOk, FreshOk, LateOk, FileOf
  <2>3. \A q \in Runs : pc[q] = "write" => pc'[q] = "write" /\ FileOf(q)' = FileOf(q)
    BY <1>4, <1>t DEF StartDownload, Goto, TypeOK, FileOf
  <2>4. QED
    BY <1>4, <2>1, <2>2, <2>3, QuietKeeps DEF StartDownload
<1>5. ASSUME NEW r \in Runs, Finish(r) PROVE IInv'
  <2>1. TypeOK'
    BY <1>5, <1>t DEF Finish, Goto, TypeOK, Candidates
  <2>2. CurrentOk' /\ FreshOk' /\ LateOk'
    BY <1>5, <1>t DEF Finish, Goto, IInv, TypeOK, CurrentOk, FreshOk, LateOk, FileOf
  <2>3. \A q \in Runs : pc[q] = "write" => pc'[q] = "write" /\ FileOf(q)' = FileOf(q)
    BY <1>5, <1>t DEF Finish, Goto, TypeOK, FileOf
  <2>4. QED
    BY <1>5, <2>1, <2>2, <2>3, QuietKeeps DEF Finish
<1>6. ASSUME NEW r \in Runs, QuerySucceeds(r) PROVE IInv'
  <2>1. TypeOK'
    BY <1>6, <1>t DEF QuerySucceeds, Goto, TypeOK, Candidates
  <2>2. CurrentOk' /\ FreshOk' /\ LateOk'
    BY <1>6, <1>t DEF QuerySucceeds, Goto, IInv, TypeOK, CurrentOk, FreshOk, LateOk, FileOf
  <2>3. \A q \in Runs : pc[q] = "write" => pc'[q] = "write" /\ FileOf(q)' = FileOf(q)
    BY <1>6, <1>t DEF QuerySucceeds, Goto, TypeOK, FileOf
  <2>4. QED
    BY <1>6, <2>1, <2>2, <2>3, QuietKeeps DEF QuerySucceeds
<1>7. ASSUME NEW r \in Runs, QueryFails(r) \/ CreateFails(r) PROVE IInv'
  BY <1>7, <1>t, SettleKeeps DEF QueryFails, CreateFails, TypeOK
<1>8. ASSUME NEW r \in Runs, CreateFile(r) PROVE IInv'
  <2>1. left[r] # <<>> /\ FileOf(r) \in File
    BY <1>8, <1>t DEF CreateFile, IInv, CurrentOk, TypeOK, FileOf, File
  <2>2. /\ DOMAIN files' = DOMAIN files \cup {FileOf(r)}
        /\ files'[FileOf(r)] = {}
        /\ \A f \in DOMAIN files \ {FileOf(r)} : files'[f] = files[f]
    BY <1>8 DEF CreateFile
  <2>3. pc'[r] = "write" /\ \A q \in Runs \ {r} : pc'[q] = pc[q]
    BY <1>8, <1>t DEF CreateFile, Goto, TypeOK
  <2>4. \A q \in Runs : FileOf(q)' = FileOf(q)
    BY <1>8 DEF CreateFile, FileOf
  <2>5. TypeOK'
    <3>1. /\ DOMAIN files' \subseteq File
          /\ \A f \in DOMAIN files' : files'[f] \subseteq Piece
      <4>1. DOMAIN files \subseteq File /\ \A f \in DOMAIN files : files[f] \subseteq Piece
        BY <1>t DEF TypeOK
      <4>2. DOMAIN files' \subseteq File
        BY <2>1, <2>2, <4>1
      <4>3. ASSUME NEW f \in DOMAIN files' PROVE files'[f] \subseteq Piece
        BY <2>2, <4>1
      <4>4. QED
        BY <4>2, <4>3
    <3>2. late' \in [Runs -> Nat]
      BY <1>8, <1>t DEF CreateFile, TypeOK
    <3>3. QED
      BY <1>8, <1>t, <3>1, <3>2 DEF CreateFile, Goto, TypeOK, File
  <2>6. CurrentOk' /\ FreshOk'
    <3>1. CurrentOk'
      BY <1>8, <2>1, <2>3, <2>4 DEF CreateFile, IInv, CurrentOk
    <3>2. FreshOk'
      BY <1>8, <2>2, <2>3, <2>4 DEF CreateFile, IInv, FreshOk
    <3>3. QED
      BY <3>1, <3>2
  <2>7. PiecesOwned' /\ SavedFileExists'
    <3>1. settled' = settled
      BY <1>8 DEF CreateFile
    <3>2. \A f \in DOMAIN files' : files'[f] # {} => f \in DOMAIN files /\ files[f] # {}
      BY <2>2
    <3>3. PiecesOwned'
      BY <3>1, <3>2 DEF IInv, PiecesOwned
    <3>4. SavedFileExists'
      BY <2>2, <3>1 DEF IInv, SavedFileExists
    <3>5. QED
      BY <3>3, <3>4
  <2>8. LateOk'
    BY <1>8, <1>t, <2>3 DEF CreateFile, IInv, LateOk, TypeOK
  <2>9. CountedIsSaved'
    <3> SUFFICES ASSUME NEW q \in Runs, NEW i \in DOMAIN settled[q],
                        settled[q][i].counted, Alone(q, i)'
                 PROVE  Saved(q, i)'
      BY <1>8 DEF CreateFile, CountedIsSaved
    <3>1. settled' = settled
      BY <1>8 DEF CreateFile
    <3>2. settled[q][i].file # FileOf(r)
      BY <2>3, <2>4, <3>1 DEF Alone
    <3>3. Alone(q, i)
      BY <2>3, <2>4, <3>1, <3>2 DEF Alone
    <3>4. Saved(q, i) /\ settled[q][i].file \in DOMAIN files
      BY <3>3 DEF IInv, CountedIsSaved, SavedFileExists
    <3>5. QED
      BY <2>2, <3>1, <3>2, <3>4 DEF Saved
  <2>10. QED
    BY <2>5, <2>6, <2>7, <2>8, <2>9 DEF IInv
<1>9. ASSUME NEW r \in Runs, WriteSucceeds(r) \/ WriteFails(r) PROVE IInv'
  <2>1. left[r] # <<>> /\ FileOf(r) \in DOMAIN files /\ Head(left[r]) \in Types
    <3>1. pc[r] = "write"
      BY <1>9 DEF WriteSucceeds, WriteFails
    <3>2. left[r] # <<>> /\ FileOf(r) \in DOMAIN files
      BY <3>1 DEF IInv, CurrentOk
    <3>3. left[r] \in Seq(Types)
      BY <1>t DEF TypeOK
    <3>4. QED
      BY <3>2, <3>3
  <2>2. \A whole \in BOOLEAN : Data(r, whole) \in Piece
    BY <2>1 DEF Data, Piece
  <2>3. ASSUME NEW pieces \in SUBSET Piece, Put(r, pieces)
        PROVE  /\ DOMAIN files' = DOMAIN files
               /\ \A f \in DOMAIN files : files'[f] \subseteq Piece
               /\ \A f \in DOMAIN files \ {FileOf(r)} : files'[f] = files[f]
               /\ files[FileOf(r)] = {} => files'[FileOf(r)] = pieces
    BY <2>1, <2>3, <1>t DEF Put, TypeOK
  <2>4. CASE WriteSucceeds(r)
    <3>1. Put(r, {Data(r, TRUE)}) /\ {Data(r, TRUE)} \in SUBSET Piece
      BY <2>2, <2>4 DEF WriteSucceeds
    <3>2. QED
      BY <2>1, <2>3, <2>4, <3>1, SettleKeeps DEF WriteSucceeds, Data
  <2>5. CASE WriteFails(r)
    <3>1. PICK pieces \in {{}, {Data(r, FALSE)}} : Put(r, pieces)
      BY <2>5 DEF WriteFails
    <3>2. pieces \in SUBSET Piece
      BY <2>2
    <3>3. QED
      BY <2>3, <2>5, <3>1, <3>2, SettleKeeps DEF WriteFails
  <2>6. QED
    BY <1>9, <2>4, <2>5
<1>10. ASSUME NEW r \in Runs, Signal(r) PROVE IInv'
  <2>1. TypeOK'
    BY <1>10, <1>t DEF Signal, Goto, TypeOK, Candidates
  <2>2. CurrentOk' /\ FreshOk' /\ LateOk'
    BY <1>10, <1>t DEF Signal, Goto, IInv, TypeOK, CurrentOk, FreshOk, LateOk, FileOf
  <2>3. \A q \in Runs : pc[q] = "write" => pc'[q] = "write" /\ FileOf(q)' = FileOf(q)
    BY <1>10, <1>t DEF Signal, Goto, TypeOK, FileOf
  <2>4. QED
    BY <1>10, <2>1, <2>2, <2>3, QuietKeeps DEF Signal
<1>11. CASE Tick
  <2>1. TypeOK'
    <3>1. clock' \in 0 .. MaxTime
      BY <1>11, <1>t, MaxTimeAssumption DEF Tick, TypeOK
    <3>2. QED
      BY <1>11, <1>t, <3>1 DEF Tick, TypeOK
  <2>2. CurrentOk' /\ FreshOk' /\ LateOk'
    BY <1>11, <1>t DEF Tick, Goto, IInv, TypeOK, CurrentOk, FreshOk, LateOk, FileOf
  <2>3. \A q \in Runs : pc[q] = "write" => pc'[q] = "write" /\ FileOf(q)' = FileOf(q)
    BY <1>11, <1>t DEF Tick, Goto, TypeOK, FileOf
  <2>4. QED
    BY <1>11, <2>1, <2>2, <2>3, QuietKeeps DEF Tick
<1>12. CASE UNCHANGED vars
  <2>1. TypeOK'
    BY <1>12, <1>t DEF vars, Goto, TypeOK, Candidates
  <2>2. CurrentOk' /\ FreshOk' /\ LateOk'
    BY <1>12, <1>t DEF vars, Goto, IInv, TypeOK, CurrentOk, FreshOk, LateOk, FileOf
  <2>3. \A q \in Runs : pc[q] = "write" => pc'[q] = "write" /\ FileOf(q)' = FileOf(q)
    BY <1>12, <1>t DEF vars, Goto, TypeOK, FileOf
  <2>4. QED
    BY <1>12, <2>1, <2>2, <2>3, QuietKeeps DEF vars
<1>13. QED
  BY <1>1, <1>2, <1>3, <1>4, <1>5, <1>6, <1>7, <1>8, <1>9, <1>10, <1>11, <1>12
     DEF Next, Step

LEMMA Inductive == Spec => []IInv
<1>1. QED
  BY InitEstablishes, StepPreserves, PTL DEF Spec

\* The state stays well typed; in particular no probe runs past the last candidate.
THEOREM TypeCorrect == Spec => []TypeOK
<1>1. IInv => TypeOK
  BY DEF IInv
<1>2. QED
  BY <1>1, Inductive, PTL

\* What is counted as downloaded is in its file, whole and unmixed, unless another
\* download chose the same file.
THEOREM CountedSaved == Spec => []CountedIsSaved
<1>1. IInv => CountedIsSaved
  BY DEF IInv
<1>2. QED
  BY <1>1, Inductive, PTL

\* After its signal a run creates at most one more file.
THEOREM SignalStops == Spec => []AtMostOneLateFile
<1>1. IInv => AtMostOneLateFile
  <2> SUFFICES ASSUME IInv, NEW r \in Runs
               PROVE  late[r] <= 1
    BY DEF AtMostOneLateFile
  <2>1. late[r] = 0 \/ late[r] = 1
    BY DEF IInv, LateOk
  <2>2. QED
    BY <2>1
<1>2. QED
  BY <1>1, Inductive, PTL

-----------------------------------------------------------------------------
(* Each run is a best-effort collection *)

Outcomes(r) ==
    [i \in DOMAIN settled[r] |-> [item |-> settled[r][i].type, kept |-> settled[r][i].counted]]

LEMMA AppendAsFunction ==
    ASSUME NEW S, NEW s \in Seq(S), NEW e \in S
    PROVE  Append(s, e) = [i \in 1 .. Len(s) + 1 |-> IF i <= Len(s) THEN s[i] ELSE e]
<1> DEFINE t == Append(s, e)
<1>1. t \in Seq(S) /\ Len(t) = Len(s) + 1
  OBVIOUS
<1>2. t \in [1 .. Len(s) + 1 -> S]
  <2> HIDE DEF t
  <2>1. QED
    BY <1>1
<1>3. \A i \in 1 .. Len(s) + 1 : t[i] = IF i <= Len(s) THEN s[i] ELSE e
  OBVIOUS
<1> HIDE DEF t
<1>4. t = [i \in 1 .. Len(s) + 1 |-> IF i <= Len(s) THEN s[i] ELSE e]
  BY <1>2, <1>3
<1>5. QED
  BY <1>4 DEF t

LEMMA InitRefines == ASSUME Init, NEW r \in Runs PROVE Collection(r)!Init
<1>1. settled[r] = <<>> /\ left[r] = <<>> /\ pc[r] = "mkdir"
  BY DEF Init
<1>2. Outcomes(r) = <<>>
  <2>1. Outcomes(r) = [i \in 1 .. 0 |-> [item |-> settled[r][i].type, kept |-> settled[r][i].counted]]
    BY <1>1 DEF Outcomes
  <2>2. Outcomes(r) \in Seq({}) /\ Len(Outcomes(r)) = 0
    BY <2>1
  <2>3. QED
    BY <2>2
<1>3. QED
  BY <1>1, <1>2 DEF Collection!Init, Outcomes, PhaseOf

\* Settling a download is the settling of the next entry.
LEMMA SettleRefines ==
    ASSUME IInv, NEW r \in Runs, NEW c \in BOOLEAN, Settle(r, c),
           pc[r] \in {"query", "create", "write"}
    PROVE  Collection(r)!Settle(c)
<1>1. left[r] # <<>> /\ TypeOK
  BY DEF IInv, CurrentOk
<1> DEFINE n == Len(settled[r]) + 1
<1>2. /\ pc'[r] = "next" /\ left'[r] = Tail(left[r])
      /\ DOMAIN settled'[r] = 1 .. n
      /\ DOMAIN settled[r] = 1 .. Len(settled[r])
      /\ Len(settled[r]) \in Nat
      /\ \A i \in DOMAIN settled[r] : settled'[r][i] = settled[r][i]
      /\ settled'[r][n].type = Head(left[r]) /\ settled'[r][n].counted = c
  <2>1. left'[r] = Tail(left[r])
    BY <1>1 DEF Settle, TypeOK
  <2>2. pc'[r] = "next"
    BY <1>1, SettleEffect DEF TypeOK
  <2>3. settled'[r][n] = [type |-> Head(left[r]), counted |-> c, file |-> FileOf(r)]
    BY <1>1, SettleEffect
  <2>4. /\ DOMAIN settled'[r] = 1 .. n
        /\ DOMAIN settled[r] = 1 .. Len(settled[r])
        /\ Len(settled[r]) \in Nat
        /\ \A i \in DOMAIN settled[r] : settled'[r][i] = settled[r][i]
    BY <1>1, SettleEffect
  <2>5. QED
    BY <2>1, <2>2, <2>3, <2>4
<1>3. Outcomes(r)' = Append(Outcomes(r), [item |-> Head(left[r]), kept |-> c])
  <2> DEFINE o == [item |-> Head(left[r]), kept |-> c]
             L == Len(settled[r])
  <2>1. /\ Outcomes(r) = [i \in 1 .. L |->
                [item |-> settled[r][i].type, kept |-> settled[r][i].counted]]
        /\ Outcomes(r)' = [i \in 1 .. n |->
                [item |-> settled'[r][i].type, kept |-> settled'[r][i].counted]]
    BY <1>2 DEF Outcomes
  <2>2. \A i \in 1 .. L : Outcomes(r)'[i] = Outcomes(r)[i]
    <3>1. \A i \in 1 .. L : i \in 1 .. n /\ settled'[r][i] = settled[r][i]
      BY <1>2
    <3> HIDE DEF n, L
    <3>2. QED
      BY <2>1, <3>1
  <2>3. Outcomes(r)'[n] = o
    BY <1>2, <2>1
  <2>4. Append(Outcomes(r), o) = [i \in 1 .. n |-> IF i <= L THEN Outcomes(r)[i] ELSE o]
    <3>0. left[r] \in Seq(Types)
      BY <1>1 DEF TypeOK
    <3>1. settled[r] \in Seq(Entry) /\ Head(left[r]) \in Types
      <4>1. settled[r] \in Seq(Entry)
        BY <1>1 DEF TypeOK, Entry
      <4>2. QED
        BY <1>1, <3>0, <4>1
    <3>2. \A i \in 1 .. L : settled[r][i] \in Entry
      BY <3>1
    <3>3. \A i \in 1 .. L : [item |-> settled[r][i].type, kept |-> settled[r][i].counted]
                             \in [item : Types, kept : BOOLEAN]
      BY <3>2 DEF Entry
    <3>4. Outcomes(r) \in Seq([item : Types, kept : BOOLEAN])
      <4>1. L \in Nat
        BY <1>2
      <4> HIDE DEF L
      <4>2. QED
        BY <2>1, <3>3, <4>1
    <3>5. Len(Outcomes(r)) = L
      BY <2>1, <3>4, <1>2
    <3>6. o \in [item : Types, kept : BOOLEAN]
      BY <3>1
    <3>7. QED
      BY <3>4, <3>5, <3>6, AppendAsFunction
  <2>5. \A i \in 1 .. n : Outcomes(r)'[i] = IF i <= L THEN Outcomes(r)[i] ELSE o
    <3>1. \A i \in 1 .. n : i <= L \/ i = n
      BY <1>2
    <3>2. n > L /\ L \in Nat /\ n \in Nat
      BY <1>2
    <3> HIDE DEF n, L, o
    <3>3. \A i \in 1 .. n : i <= L => i \in 1 .. L
      OBVIOUS
    <3>4. QED
      BY <2>2, <2>3, <3>1, <3>2, <3>3
  <2>6. QED
    <3> DEFINE D == 1 .. n
               f == Append(Outcomes(r), o)
    <3>1. /\ Outcomes(r)' = [i \in D |-> Outcomes(r)'[i]]
          /\ f = [i \in D |-> f[i]]
          /\ \A i \in D : Outcomes(r)'[i] = f[i]
      <4> HIDE DEF n, L, o
      <4>1. Outcomes(r)' = [i \in D |-> Outcomes(r)'[i]]
        BY <2>1
      <4>2. f = [i \in D |-> f[i]] /\ \A i \in D : f[i] = Outcomes(r)'[i]
        BY <2>4, <2>5
      <4>3. QED
        BY <4>1, <4>2
    <3> HIDE DEF D, f
    <3>2. Outcomes(r)' = f
      BY <3>1
    <3>3. QED
      BY <3>2 DEF f
<1>4. PhaseOf[pc[r]] = "collecting" /\ PhaseOf[pc'[r]] = "collecting"
  BY <1>2 DEF PhaseOf
<1>5. UNCHANGED PhaseOf[pc[r]]
  BY <1>4
<1>6. QED
  BY <1>1, <1>2, <1>3, <1>4, <1>5 DEF Collection!Settle, Outcomes

LEMMA StepRefines ==
    ASSUME IInv, [Next]_vars, NEW r \in Runs
    PROVE  [Collection(r)!Next]_(Collection(r)!vars)
<1>t. TypeOK
  BY DEF IInv
<1>1. CASE MakeDirectory(r) \/ ProbeRefused(r)
  BY <1>1, <1>t DEF MakeDirectory, ProbeRefused, Goto, TypeOK, IInv, FreshOk, PhaseOf,
                    Collection!Next, Collection!GiveUp, Collection!vars
<1>2. CASE ProbeAnswered(r) \/ ProbeBlank(r)
  <2>1. PICK types \in Seq(Types) : pc[r] = "probe" /\ Discover(r, types)
    <3>1. <<>> \in Seq(Types)
      OBVIOUS
    <3>2. QED
      BY <1>2, <3>1, ListingsAssumption, Zenon DEF ProbeAnswered, ProbeBlank
  <2>2. pc'[r] = "next" /\ left'[r] = types /\ settled' = settled
    BY <2>1, <1>t DEF Discover, Goto, TypeOK
  <2>3. Collection(r)!List(types)
    BY <2>1, <2>2 DEF Collection!List, PhaseOf
  <2>4. QED
    BY <2>1, <2>2, <2>3 DEF Collection!Next, PhaseOf
<1>3. CASE StartDownload(r) \/ QuerySucceeds(r) \/ CreateFile(r)
  <2>1. PhaseOf[pc[r]]' = PhaseOf[pc[r]] /\ UNCHANGED <<left, settled>>
    BY <1>3, <1>t DEF StartDownload, QuerySucceeds, CreateFile, Goto, TypeOK, PhaseOf
  <2>2. QED
    BY <2>1 DEF Collection!vars
<1>4. CASE Finish(r)
  <2>1. pc[r] = "next" /\ pc'[r] = "done" /\ left[r] = <<>> /\ UNCHANGED <<left, settled>>
    BY <1>4, <1>t DEF Finish, Goto, TypeOK
  <2>2. QED
    BY <2>1 DEF Collection!Next, Collection!Finish, PhaseOf
<1>5. CASE QueryFails(r) \/ CreateFails(r) \/ WriteSucceeds(r) \/ WriteFails(r)
  <2>1. PICK c \in BOOLEAN : Settle(r, c) /\ pc[r] \in {"query", "create", "write"}
    BY <1>5 DEF QueryFails, CreateFails, WriteSucceeds, WriteFails
  <2>2. Collection(r)!Settle(c)
    BY <2>1, SettleRefines
  <2>3. QED
    BY <2>2 DEF Collection!Next
<1>6. CASE UNCHANGED <<pc[r], left[r], settled[r]>>
  BY <1>6 DEF Collection!vars
<1>7. ASSUME NEW q \in Runs \ {r}, Step(q)
      PROVE  UNCHANGED <<pc[r], left[r], settled[r]>>
  BY <1>7, <1>t DEF Step, MakeDirectory, ProbeAnswered, ProbeBlank, ProbeRefused, Discover,
                    StartDownload, Finish, QuerySucceeds, QueryFails, CreateFile, CreateFails,
                    WriteSucceeds, WriteFails, Settle, Goto, TypeOK
<1>8. CASE Tick \/ UNCHANGED vars \/ \E q \in Runs : Signal(q)
  BY <1>6, <1>8 DEF Tick, vars, Signal
<1>9. QED
  BY <1>1, <1>2, <1>3, <1>4, <1>5, <1>6, <1>7, <1>8 DEF Next, Step

\* Every run tries each listed type once and in order, for any listings and any number
\* of runs.
THEOREM CollectionsBestEffort == Spec => EveryTypeTried
<1>1. Init => \A r \in Runs : Collection(r)!Init
  BY InitRefines
<1>2. IInv /\ [Next]_vars => \A r \in Runs : [Collection(r)!Next]_(Collection(r)!vars)
  BY StepRefines
<1>3. QED
  BY <1>1, <1>2, Inductive, PTL DEF Spec, EveryTypeTried

=============================================================================
