-------------------------- MODULE FileStorage_proofs --------------------------
(***************************************************************************)
(* Theorems about FileStorage: for any sessions, users and FILE objects    *)
(* and any number of uploads, what is listed is stored, a lone session     *)
(* works on the file it was shown, nothing is left over and the server     *)
(* does not exit of itself.                                                *)
(***************************************************************************)
EXTENDS FileStorage, FiniteSetTheorems, WellFoundedInduction, TLAPS

(* The first and the k-th of a set of numbers *)

(* A set of natural numbers that is not empty has a smallest element. *)
LEMMA SmallestExists ==
  ASSUME NEW T \in SUBSET Nat, T # {}
  PROVE  \E x \in T : \A y \in T : x <= y
<1> DEFINE R == {ss \in Nat \X Nat : ss[1] < ss[2]}
<1>1. IsWellFoundedOn(R, Nat)
  BY NatLessThanWellFounded, Zenon DEF OpToRel
<1>2. ASSUME NEW x \in Nat, NEW y \in Nat, <<y, x>> \notin R
      PROVE  x <= y
  <2>1. <<y, x>> \in Nat \X Nat /\ <<y, x>>[1] = y /\ <<y, x>>[2] = x
    OBVIOUS
  <2>2. ~ (y < x)
    BY <1>2, <2>1, Zenon
  <2> QED
    BY <2>2
<1> HIDE DEF R
<1>3. PICK x \in T : \A y \in T : <<y, x>> \notin R
  BY <1>1, WFMin
<1> QED
  BY <1>2, <1>3

LEMMA FirstIsMember ==
  ASSUME NEW T \in SUBSET Nat, T # {}
  PROVE  First(T) \in T
BY SmallestExists DEF First

LEMMA NthIsMember ==
  ASSUME NEW m \in Nat, NEW ids \in SUBSET (1 .. m), NEW k \in 1 .. Cardinality(ids)
  PROVE  NthId(ids, k) \in ids
<1> DEFINE c(x) == Cardinality(UpTo(ids, x))
<1>0. \A y \in ids : y \in Nat /\ 1 <= y /\ y <= m
  BY ids \subseteq 1 .. m
<1>1. IsFiniteSet(ids)
  <2>1. IsFiniteSet(1 .. m)
    BY FS_Interval
  <2> QED
    BY <2>1, FS_Subset
<1>2. \A x \in Nat : IsFiniteSet(UpTo(ids, x)) /\ c(x) \in Nat
  <2>1. \A x \in Nat : UpTo(ids, x) \subseteq ids
    BY DEF UpTo
  <2> QED
    BY <1>1, <2>1, FS_Subset, FS_CardinalityType
<1>3. k \in Nat /\ k >= 1
  BY <1>1, FS_CardinalityType
<1> DEFINE T == {x \in Nat : c(x) >= k}
<1>4. m \in T
  <2>1. UpTo(ids, m) = ids
    BY <1>0 DEF UpTo
  <2>2. c(m) >= k
    BY <1>1, <2>1, FS_CardinalityType
  <2> QED
    BY <2>2
<1>5. PICK x \in T : \A y \in T : x <= y
  <2>1. T \in SUBSET Nat /\ T # {}
    BY <1>4
  <2> HIDE DEF T
  <2> QED
    BY <2>1, SmallestExists
<1>6. x \in Nat /\ c(x) >= k /\ c(x) \in Nat
  BY <1>2, <1>5
<1>7. x # 0
  <2>1. UpTo(ids, 0) = {}
    <3>1. \A y \in ids : ~ (y <= 0)
      BY <1>0
    <3> QED
      BY <3>1, Zenon DEF UpTo
  <2>2. c(0) = 0
    BY <2>1, FS_EmptySet
  <2> QED
    BY <1>3, <1>6, <2>2
<1>8. x - 1 \in Nat /\ c(x - 1) \in Nat /\ c(x - 1) < k
  <2>1. x - 1 \in Nat
    BY <1>6, <1>7
  <2>2. x - 1 \notin T
    BY <1>5, <1>6, <2>1
  <2> QED
    BY <1>2, <1>3, <2>1, <2>2
<1>9. x \in ids
  <2> SUFFICES ASSUME x \notin ids PROVE FALSE
    OBVIOUS
  <2>1. UpTo(ids, x) = UpTo(ids, x - 1)
    <3>1. \A y \in ids : y <= x <=> y <= x - 1
      BY <1>0, <1>6
    <3> QED
      BY <3>1, Zenon DEF UpTo
  <2>2. c(x) = c(x - 1)
    BY <2>1
  <2> HIDE DEF c
  <2> QED
    BY <1>3, <1>6, <1>8, <2>2
<1>10. c(x) = k
  <2>1. UpTo(ids, x) = UpTo(ids, x - 1) \cup {x}
    <3>1. \A y \in ids : y <= x <=> y <= x - 1 \/ y = x
      BY <1>0, <1>6
    <3> QED
      BY <1>9, <3>1, Zenon DEF UpTo
  <2>2. x \notin UpTo(ids, x - 1)
    BY <1>6 DEF UpTo
  <2>3. c(x) = c(x - 1) + 1
    BY <1>2, <1>8, <2>1, <2>2, FS_AddElement
  <2> HIDE DEF c
  <2> QED
    BY <1>3, <1>6, <1>8, <2>3
<1>11. \E id \in ids : Cardinality(UpTo(ids, id)) = k
  BY <1>9, <1>10
<1> QED
  BY <1>11 DEF NthId

-----------------------------------------------------------------------------
(* The table, the list of a user's files and the FILE objects *)

LEMMA FilesAreRows ==
  ASSUME TypeOK, NEW u \in User
  PROVE  /\ FilesOf(u) \in Seq(File)
         /\ Len(FilesOf(u)) = Cardinality(OwnRows(u))
         /\ Cardinality(OwnRows(u)) \in 0 .. MaxUploads
         /\ \A k \in 1 .. Cardinality(OwnRows(u)) :
              \E id \in DOMAIN rows : rows[id].owner = u /\ rows[id].file = FilesOf(u)[k]
<1> DEFINE own == OwnRows(u)
           n == Cardinality(own)
<1>1. /\ lastId \in Nat /\ own \in SUBSET (1 .. lastId) /\ own \subseteq DOMAIN rows
      /\ \A id \in own : rows[id].owner = u
      /\ \A id \in DOMAIN rows : rows[id].file \in File
      /\ \A i, j \in DOMAIN rows : rows[i].file = rows[j].file => i = j
  BY DEF TypeOK, OwnRows
<1>2. IsFiniteSet(own)
  <2>1. IsFiniteSet(1 .. lastId)
    BY <1>1, FS_Interval
  <2> QED
    BY <1>1, <2>1, FS_Subset
<1>3. n \in 0 .. MaxUploads
  <2>1. IsFiniteSet(File) /\ Cardinality(File) = MaxUploads
    BY UploadsAssumption, FS_Interval DEF File
  <2> DEFINE f == [id \in own |-> rows[id].file]
  <2>2. f \in Injection(own, File)
    BY <1>1 DEF Injection, IsInjective
  <2>3. n <= Cardinality(File)
    BY <2>1, <2>2, FS_Injection
  <2>4. n \in Nat
    BY <1>2, FS_CardinalityType
  <2> QED
    BY <2>1, <2>3, <2>4, UploadsAssumption
<1>4. \A k \in 1 .. n : NthId(own, k) \in own
  BY <1>1, NthIsMember
<1> HIDE DEF own
<1>5. FilesOf(u) = [k \in 1 .. n |-> rows[NthId(own, k)].file]
  BY DEF FilesOf, own
<1> HIDE DEF n
<1>6. FilesOf(u) \in Seq(File) /\ Len(FilesOf(u)) = n
  <2>1. n \in Nat /\ \A k \in 1 .. n : rows[NthId(own, k)].file \in File
    <3>1. n \in Nat
      BY <1>3, UploadsAssumption
    <3>2. \A k \in 1 .. n : rows[NthId(own, k)].file \in File
      BY <1>1, <1>4, Zenon
    <3> QED
      BY <3>1, <3>2
  <2>2. FilesOf(u) \in [1 .. n -> File]
    BY <1>5, <2>1
  <2> QED
    BY <2>1, <2>2
<1> QED
  BY <1>1, <1>3, <1>4, <1>5, <1>6 DEF own, n

LEMMA LowestIsFree ==
  ASSUME FreeStreams # {}
  PROVE  LowestFree \in Stream /\ streams[LowestFree] = Closed
<1>1. FreeStreams \in SUBSET Nat
  BY StreamsAssumption DEF FreeStreams, Stream
<1> QED
  BY <1>1, FirstIsMember DEF LowestFree, FreeStreams

-----------------------------------------------------------------------------
(* The steps: an end of the program, a restart, and those of one session.    *)

SessionStep(s) ==
  \/ Arrive(s) \/ Leave(s)
  \/ RequestList(s) \/ RequestUpload(s)
  \/ \E i \in 1 .. MaxUploads : RequestDownload(s, i) \/ RequestDelete(s, i)
  \/ ListCount(s) \/ ListRows(s)
  \/ UploadStep(s) \/ DownloadStep(s) \/ DeleteStep(s)

LEMMA StepKinds ==
  ASSUME [Next]_vars
  PROVE  \/ \E how \in {"exited", "killed"} : Stop(how)
         \/ /\ UNCHANGED <<storeVars, streams, unread, sessionVars, mishap>>
            /\ server' \in {server, "up"}
         \/ ~ Exit /\ \E s \in Session : SessionStep(s)
<1>1. CASE Exit \/ Kill
  BY <1>1 DEF Exit, Kill
<1>2. CASE Restart \/ UNCHANGED vars
  BY <1>2 DEF Restart, vars, processVars
<1> QED
  BY <1>1, <1>2 DEF Next, StatementFails, SessionStep

-----------------------------------------------------------------------------
(* TypeOK and JobsInvariant *)

Label == Idle \cup Statements \cup
         {"receive", "matched", "mismatched", "answer", "open", "send", "remove"}
Job == [file : {NoFile} \cup File, stream : {0} \cup Stream, index : 0 .. MaxUploads]

LEMMA JobType ==
  /\ NoJob \in Job
  /\ \A j \in Job : /\ \A f \in File : [j EXCEPT !.file = f] \in Job
                    /\ \A i \in Stream : [j EXCEPT !.stream = i] \in Job
                    /\ \A n \in 1 .. MaxUploads : [j EXCEPT !.index = n] \in Job
BY UploadsAssumption DEF Job, NoJob

LEMMA NoteType ==
  ASSUME TypeOK, NEW what \in {"shared", "overlap", "broken", "crossed", "crash"}, NEW condition,
         Note(what, condition)
  PROVE  mishap' \subseteq {"shared", "overlap", "broken", "crossed", "crash"}
BY DEF TypeOK, Note

(* A step of one session that leaves table, storage and FILE objects alone.  *)
LEMMA MoveType ==
  ASSUME TypeOK, NEW s \in Session, NEW label \in Label, NEW j \in Job,
         pc' = [pc EXCEPT ![s] = label], job' = [job EXCEPT ![s] = j],
         UNCHANGED <<rows, lastId>>, UNCHANGED server,
         content' \in [File -> {NoFile, Damaged} \cup File],
         streams' \in [Stream -> [file : {NoFile} \cup File, writable : BOOLEAN]],
         unread' \in BOOLEAN,
         seen' \in [Session -> [count : 0 .. MaxUploads, files : Seq(File)]],
         uploads' \in 0 .. MaxUploads,
         mishap' \subseteq {"shared", "overlap", "broken", "crossed", "crash"}
  PROVE  TypeOK'
BY DEF TypeOK, Label, Job

LEMMA CloseType ==
  ASSUME TypeOK, NEW s \in Session, Close(s)
  PROVE  /\ streams' \in [Stream -> [file : {NoFile} \cup File, writable : BOOLEAN]]
         /\ mishap' \subseteq {"shared", "overlap", "broken", "crossed", "crash"}
BY NoteType DEF TypeOK, Close, Closed

LEMMA OpenType ==
  ASSUME TypeOK, NEW f \in {NoFile} \cup File, NEW forWriting \in BOOLEAN, Open(f, forWriting)
  PROVE  streams' \in [Stream -> [file : {NoFile} \cup File, writable : BOOLEAN]]
<1>1. [file |-> f, writable |-> forWriting] \in [file : {NoFile} \cup File, writable : BOOLEAN]
  OBVIOUS
<1> QED
  BY <1>1 DEF TypeOK, Open

LEMMA StopType ==
  ASSUME TypeOK, NEW how \in {"exited", "killed"}, Stop(how)
  PROVE  TypeOK'
<1>1. <<>> \in Seq(File)
  OBVIOUS
<1>2. Nothing \in [count : 0 .. MaxUploads, files : Seq(File)]
  BY <1>1, UploadsAssumption DEF Nothing
<1>3. Closed \in [file : {NoFile} \cup File, writable : BOOLEAN]
  BY DEF Closed
<1>4. seen' \in [Session -> [count : 0 .. MaxUploads, files : Seq(File)]]
  BY <1>2 DEF Stop
<1>5. streams' \in [Stream -> [file : {NoFile} \cup File, writable : BOOLEAN]]
  BY <1>3 DEF Stop
<1>6. job' \in [Session -> Job] /\ pc' \in [Session -> Label]
  BY JobType DEF Stop, Label, Idle
<1>7. mishap' \subseteq {"shared", "overlap", "broken", "crossed", "crash"}
  BY DEF TypeOK, Stop
<1>8. UNCHANGED <<rows, lastId, content, uploads>> /\ unread' \in BOOLEAN /\ server' = how
  BY DEF Stop, storeVars, tableVars
<1> QED
  BY <1>4, <1>5, <1>6, <1>7, <1>8 DEF TypeOK, Job, Label

LEMMA TypeStep == TypeOK /\ JobsInvariant /\ [Next]_vars => TypeOK'
<1> SUFFICES ASSUME TypeOK, JobsInvariant, [Next]_vars PROVE TypeOK'
  OBVIOUS
<1>1. /\ pc \in [Session -> Label] /\ job \in [Session -> Job]
      /\ content \in [File -> {NoFile, Damaged} \cup File]
      /\ streams \in [Stream -> [file : {NoFile} \cup File, writable : BOOLEAN]]
      /\ unread \in BOOLEAN
      /\ seen \in [Session -> [count : 0 .. MaxUploads, files : Seq(File)]]
      /\ uploads \in 0 .. MaxUploads
      /\ mishap \subseteq {"shared", "overlap", "broken", "crossed", "crash"}
  BY DEF TypeOK, Label, Job
<1>2. CASE \E how \in {"exited", "killed"} : Stop(how)
  BY <1>2, StopType
<1>3. CASE /\ UNCHANGED <<storeVars, streams, unread, sessionVars, mishap>>
           /\ server' \in {server, "up"}
  BY <1>3 DEF storeVars, tableVars, sessionVars, TypeOK
<1> SUFFICES ASSUME ~ Exit, NEW s \in Session, SessionStep(s)
             PROVE  TypeOK'
  BY <1>2, <1>3, StepKinds
<1>4. job = [job EXCEPT ![s] = job[s]] /\ job[s] \in Job /\ NoJob \in Job
  BY <1>1, JobType
<1>5. seen = [seen EXCEPT ![s] = seen[s]] /\ [seen EXCEPT ![s] = Nothing] \in [Session -> [count : 0 .. MaxUploads, files : Seq(File)]]
  <2>1. <<>> \in Seq(File)
    OBVIOUS
  <2> QED
    BY <1>1, <2>1, UploadsAssumption DEF Nothing
<1> USE DEF storeVars, tableVars, processVars
<1>6. CASE Arrive(s)
  <2>1. mishap' \subseteq {"shared", "overlap", "broken", "crossed", "crash"}
    BY <1>6, NoteType DEF Arrive
  <2> QED
    BY <1>1, <1>4, <1>6, <2>1, MoveType DEF Arrive, Goto, Label, Idle
<1>7. CASE Leave(s)
  BY <1>1, <1>4, <1>5, <1>7, MoveType DEF Leave, HangUp, Goto, Label, Idle
<1>8. CASE RequestList(s)
  <2>1. mishap' \subseteq {"shared", "overlap", "broken", "crossed", "crash"}
    BY <1>8, NoteType DEF RequestList, Request
  <2> QED
    BY <1>1, <1>4, <1>8, <2>1, MoveType DEF RequestList, Request, Goto, Label, Statements
<1>9. CASE RequestUpload(s)
  <2> DEFINE f == uploads + 1
  <2>1. f \in File /\ f \in 0 .. MaxUploads
    BY <1>1, <1>9, UploadsAssumption DEF RequestUpload, File
  <2>2. FreeStreams # {}
    BY <1>9 DEF RequestUpload
  <2>3. LowestFree \in Stream
    BY <2>2, LowestIsFree
  <2>4. mishap' \subseteq {"shared", "overlap", "broken", "crossed", "crash"}
    BY <1>9, <2>2, NoteType DEF RequestUpload, Request
  <2>5. [[NoJob EXCEPT !.file = f] EXCEPT !.stream = LowestFree] \in Job
    <3>1. [NoJob EXCEPT !.file = f] \in Job
      BY <2>1, JobType
    <3> QED
      BY <2>3, <3>1, JobType
  <2>6. [content EXCEPT ![f] = Damaged] \in [File -> {NoFile, Damaged} \cup File]
    BY <1>1
  <2>7. streams' \in [Stream -> [file : {NoFile} \cup File, writable : BOOLEAN]]
    BY <1>9, <2>1, <2>2, OpenType DEF RequestUpload
  <2>8. /\ pc' = [pc EXCEPT ![s] = "receive"]
        /\ job' = [job EXCEPT ![s] = [[NoJob EXCEPT !.file = f] EXCEPT !.stream = LowestFree]]
        /\ content' = [content EXCEPT ![f] = Damaged] /\ uploads' = f
        /\ UNCHANGED <<rows, lastId>> /\ UNCHANGED <<server, unread, seen>>
    BY <1>9, <2>2 DEF RequestUpload, Request, Goto
  <2>9. "receive" \in Label
    BY DEF Label
  <2> HIDE DEF f
  <2> QED
    BY <1>1, <2>1, <2>4, <2>5, <2>6, <2>7, <2>8, <2>9, MoveType
<1>10. ASSUME NEW i \in 1 .. MaxUploads, RequestDownload(s, i) \/ RequestDelete(s, i) PROVE TypeOK'
  <2>1. mishap' \subseteq {"shared", "overlap", "broken", "crossed", "crash"}
    BY <1>10, NoteType DEF RequestDownload, RequestDelete, Choose, Request
  <2>2. [NoJob EXCEPT !.index = i] \in Job
    BY JobType
  <2> QED
    <3>1. pc' = [pc EXCEPT ![s] = "select"] \/ pc' = [pc EXCEPT ![s] = "find"]
      BY <1>10 DEF RequestDownload, RequestDelete, Choose, Request, Goto
    <3>2. /\ job' = [job EXCEPT ![s] = [NoJob EXCEPT !.index = i]]
          /\ UNCHANGED <<rows, lastId, content, uploads, streams, server, unread, seen>>
      BY <1>10 DEF RequestDownload, RequestDelete, Choose
    <3>3. "select" \in Label /\ "find" \in Label
      BY DEF Label, Statements
    <3> QED
      BY <1>1, <2>1, <2>2, <3>1, <3>2, <3>3, MoveType
<1>11. /\ FilesOf(Owner[s]) \in Seq(File) /\ Len(FilesOf(Owner[s])) \in 0 .. MaxUploads
       /\ \A k \in 1 .. Len(FilesOf(Owner[s])) : FilesOf(Owner[s])[k] \in File
  <2>1. Owner[s] \in User
    BY OwnerAssumption
  <2>2. FilesOf(Owner[s]) \in Seq(File) /\ Len(FilesOf(Owner[s])) \in 0 .. MaxUploads
    BY <2>1, FilesAreRows
  <2> QED
    BY <2>2
<1>12. CASE ListCount(s)
  <2>1. <<>> \in Seq(File)
    OBVIOUS
  <2>2. seen' \in [Session -> [count : 0 .. MaxUploads, files : Seq(File)]]
    BY <1>1, <1>11, <1>12, <2>1 DEF ListCount
  <2> QED
    BY <1>1, <1>4, <1>12, <2>2, MoveType DEF ListCount, Goto, Label, Idle, Statements
<1>13. CASE ListRows(s)
  <2>1. seen' \in [Session -> [count : 0 .. MaxUploads, files : Seq(File)]]
    BY <1>1, <1>11, <1>13 DEF ListRows
  <2> QED
    BY <1>1, <1>4, <1>13, <2>1, MoveType DEF ListRows, Goto, Label, Idle
<1>14. CASE ReceiveFile(s)
  <2>1. /\ streams' \in [Stream -> [file : {NoFile} \cup File, writable : BOOLEAN]]
        /\ mishap' \subseteq {"shared", "overlap", "broken", "crossed", "crash"}
    BY <1>14, CloseType DEF ReceiveFile
  <2>2. job[s].file \in {NoFile} \cup File
    BY <1>4 DEF Job
  <2>3. content' \in [File -> {NoFile, Damaged} \cup File]
    BY <1>1, <1>14, <2>2 DEF ReceiveFile
  <2>4. pc' = [pc EXCEPT ![s] = "matched"] \/ pc' = [pc EXCEPT ![s] = "mismatched"]
    BY <1>14 DEF ReceiveFile, Goto
  <2>5. /\ job' = job /\ UNCHANGED <<rows, lastId>> /\ UNCHANGED server /\ unread' = unread
        /\ seen' = seen /\ uploads' = uploads
    BY <1>14 DEF ReceiveFile
  <2>6. "matched" \in Label /\ "mismatched" \in Label
    BY DEF Label
  <2> QED
    BY <1>1, <1>4, <2>1, <2>3, <2>4, <2>5, <2>6, MoveType
<1>15. CASE ReceiveBreaks(s) \/ InfoBreaks(s) \/ AnswerBreaks(s) \/ SendBreaks(s)
  <2>1. mishap' \subseteq {"shared", "overlap", "broken", "crossed", "crash"}
    BY <1>15, NoteType DEF ReceiveBreaks, InfoBreaks, AnswerBreaks, SendBreaks
  <2> QED
    <3>1. /\ pc' = [pc EXCEPT ![s] = "away"] /\ job' = [job EXCEPT ![s] = NoJob]
          /\ seen' = [seen EXCEPT ![s] = Nothing]
          /\ UNCHANGED <<rows, lastId, content, uploads, streams, server, unread>>
      BY <1>15 DEF ReceiveBreaks, InfoBreaks, AnswerBreaks, SendBreaks, HangUp, Goto
    <3>2. "away" \in Label
      BY DEF Label, Idle
    <3> QED
      BY <1>1, <1>4, <1>5, <2>1, <3>1, <3>2, MoveType
<1>16. CASE CompareHash(s)
  <2>1. content' \in [File -> {NoFile, Damaged} \cup File]
    BY <1>1, <1>16 DEF CompareHash, RemoveStored
  <2> QED
    <3>1. /\ \/ pc' = [pc EXCEPT ![s] = "insert"] /\ job' = job
             \/ pc' = [pc EXCEPT ![s] = "list"] /\ job' = [job EXCEPT ![s] = NoJob]
          /\ UNCHANGED <<rows, lastId, uploads, streams, server, unread, seen, mishap>>
      BY <1>16 DEF CompareHash, Done, Goto
    <3>2. "insert" \in Label /\ "list" \in Label
      BY DEF Label, Idle, Statements
    <3> QED
      BY <1>1, <1>4, <2>1, <3>1, <3>2, MoveType
<1>17. CASE InsertRow(s)
  <2>1. lastId \in Nat /\ lastId' = lastId + 1
    BY <1>17 DEF InsertRow, Insert, TypeOK
  <2>2. job[s].file \in File
    BY <1>4, <1>17 DEF InsertRow, JobsInvariant, JobIsSound, Job, Unchosen, Idle
  <2>3. \A id \in DOMAIN rows : id \in 1 .. lastId /\ rows[id] \in [owner : User, file : File]
                               /\ rows[id].file # job[s].file
    BY <1>17 DEF InsertRow, JobsInvariant, JobIsSound, TypeOK, Arriving
  <2>4. rows' = [id \in DOMAIN rows \cup {lastId'} |->
                  IF id = lastId' THEN [owner |-> Owner[s], file |-> job[s].file] ELSE rows[id]]
    BY <1>17 DEF InsertRow, Insert
  <2>5. DOMAIN rows' = DOMAIN rows \cup {lastId'} /\ lastId' \notin DOMAIN rows
    BY <2>1, <2>3, <2>4
  <2>6. rows'[lastId'] = [owner |-> Owner[s], file |-> job[s].file]
        /\ \A id \in DOMAIN rows : rows'[id] = rows[id]
    BY <2>4, <2>5
  <2>7. [owner |-> Owner[s], file |-> job[s].file] \in [owner : User, file : File]
    BY <2>2, OwnerAssumption
  <2>8. /\ lastId' \in Nat /\ DOMAIN rows' \subseteq 1 .. lastId'
        /\ rows' \in [DOMAIN rows' -> [owner : User, file : File]]
    BY <2>1, <2>3, <2>4, <2>5, <2>6, <2>7
  <2>9. \A i, j \in DOMAIN rows' : rows'[i].file = rows'[j].file => i = j
    BY <2>3, <2>5, <2>6 DEF TypeOK
  <2>10. pc' \in [Session -> Label] /\ UNCHANGED <<content, uploads, streams, server, unread, job, seen, mishap>>
    BY <1>1, <1>17 DEF InsertRow, Goto, Label
  <2> QED
    BY <1>1, <2>8, <2>9, <2>10 DEF TypeOK, Label
<1>18. CASE AnswerUpload(s)
  <2>1. /\ streams' \in [Stream -> [file : {NoFile} \cup File, writable : BOOLEAN]]
        /\ mishap' \subseteq {"shared", "overlap", "broken", "crossed", "crash"}
    BY <1>18, CloseType DEF AnswerUpload
  <2> QED
    BY <1>1, <1>4, <1>18, <2>1, MoveType DEF AnswerUpload, Done, Goto, Label, Idle
<1>19. CASE SendFile(s)
  <2>1. /\ streams' \in [Stream -> [file : {NoFile} \cup File, writable : BOOLEAN]]
        /\ mishap' \subseteq {"shared", "overlap", "broken", "crossed", "crash"}
    BY <1>19, CloseType DEF SendFile
  <2> QED
    BY <1>1, <1>4, <1>19, <2>1, MoveType DEF SendFile, Done, Goto, Label, Idle
<1>20. job[s].index \in 1 .. Len(FilesOf(Owner[s])) => 
         [job[s] EXCEPT !.file = FilesOf(Owner[s])[job[s].index]] \in Job
  BY <1>4, <1>11, JobType
<1>21. ASSUME pc[s] \in {"select", "find"}, ~ (job[s].index > Len(FilesOf(Owner[s])))
       PROVE  job[s].index \in 1 .. Len(FilesOf(Owner[s]))
  <2>1. job[s].index \in 1 .. seen[s].count /\ seen[s].count \in Nat
    BY <1>1, <1>21, UploadsAssumption DEF JobsInvariant, JobIsSound
  <2> QED
    BY <1>11, <1>21, <2>1
<1>22. CASE SelectFile(s)
  <2>1. ~ (job[s].index > Len(FilesOf(Owner[s]))) /\ pc[s] = "select"
    BY <1>22 DEF SelectFile
  <2>2. [job[s] EXCEPT !.file = FilesOf(Owner[s])[job[s].index]] \in Job
    BY <1>20, <1>21, <2>1
  <2>3. job' = [job EXCEPT ![s] = [job[s] EXCEPT !.file = FilesOf(Owner[s])[job[s].index]]]
    BY <1>1, <1>22, <2>1 DEF SelectFile
  <2> QED
    BY <1>1, <1>22, <2>1, <2>2, <2>3, MoveType DEF SelectFile, Goto, Label
<1>23. CASE FindRow(s)
  <2>1. ~ (job[s].index > Len(FilesOf(Owner[s]))) /\ pc[s] = "find"
    BY <1>23 DEF FindRow
  <2>2. [job[s] EXCEPT !.file = FilesOf(Owner[s])[job[s].index]] \in Job
    BY <1>20, <1>21, <2>1
  <2>3. job' = [job EXCEPT ![s] = [job[s] EXCEPT !.file = FilesOf(Owner[s])[job[s].index]]]
    BY <1>1, <1>23, <2>1 DEF FindRow
  <2> QED
    BY <1>1, <1>23, <2>1, <2>2, <2>3, MoveType DEF FindRow, Goto, Label, Statements
<1>24. CASE OpenFile(s)
  <2>1. FreeStreams # {} /\ pc[s] = "open"
    BY <1>24 DEF OpenFile
  <2>2. LowestFree \in Stream
    BY <2>1, LowestIsFree
  <2>3. job[s].file \in {NoFile} \cup File
    BY <1>4 DEF Job
  <2>4. streams' \in [Stream -> [file : {NoFile} \cup File, writable : BOOLEAN]]
    BY <1>24, <2>3, OpenType DEF OpenFile
  <2>5. [job[s] EXCEPT !.stream = LowestFree] \in Job
    BY <1>4, <2>2, JobType
  <2>6. job' = [job EXCEPT ![s] = [job[s] EXCEPT !.stream = LowestFree]]
    BY <1>1, <1>24 DEF OpenFile
  <2> QED
    <3>1. /\ pc' = [pc EXCEPT ![s] = "send"]
          /\ UNCHANGED <<rows, lastId, content, uploads, server, unread, seen, mishap>>
      BY <1>24 DEF OpenFile, Goto
    <3>2. "send" \in Label
      BY DEF Label
    <3> QED
      BY <1>1, <2>4, <2>5, <2>6, <3>1, <3>2, MoveType
<1>25. CASE DeleteRow(s)
  <2>1. rows' = [id \in {i \in DOMAIN rows : rows[i].file # job[s].file} |-> rows[id]]
    BY <1>25 DEF DeleteRow
  <2>2. /\ DOMAIN rows' \subseteq DOMAIN rows
        /\ \A id \in DOMAIN rows' : rows'[id] = rows[id]
        /\ rows' = [id \in DOMAIN rows' |-> rows[id]]
    BY <2>1
  <2>3. /\ DOMAIN rows' \subseteq 1 .. lastId
        /\ rows' \in [DOMAIN rows' -> [owner : User, file : File]]
        /\ \A i, j \in DOMAIN rows' : rows'[i].file = rows'[j].file => i = j
    BY <2>2 DEF TypeOK
  <2>4. pc' \in [Session -> Label]
        /\ UNCHANGED <<lastId, content, uploads, streams, server, unread, job, seen, mishap>>
    BY <1>1, <1>25 DEF DeleteRow, Goto, Label
  <2> QED
    BY <1>1, <2>3, <2>4 DEF TypeOK, Label
<1>26. CASE RemoveFile(s)
  <2>1. content' \in [File -> {NoFile, Damaged} \cup File]
    BY <1>1, <1>26 DEF RemoveFile, RemoveStored
  <2> QED
    BY <1>1, <1>4, <1>26, <2>1, MoveType DEF RemoveFile, Done, Goto, Label, Idle
<1> QED
  BY <1>6, <1>7, <1>8, <1>9, <1>10, <1>12, <1>13, <1>14, <1>15, <1>16, <1>17, <1>18, <1>19,
     <1>22, <1>23, <1>24, <1>25, <1>26 DEF SessionStep, UploadStep, DownloadStep, DeleteStep

(* What is required of a step in which session s goes on with the job j at   *)
(* label: rows are deleted, or one is inserted whose file no other session   *)
(* works on, and the job is sound.                                           *)
RowsAfter(s, label, j) ==
  \A id \in DOMAIN rows' :
    /\ rows'[id].file <= uploads'
    /\ \/ id \in DOMAIN rows /\ rows'[id] = rows[id]
       \/ \A t \in Session \ {s} : job[t].file # rows'[id].file
    /\ rows'[id].file = j.file => rows'[id].owner = Owner[s]
    /\ label \in Arriving \cup {"remove"} => rows'[id].file # j.file

JobAfter(s, label, j) ==
  /\ uploads' \in Nat /\ uploads' >= uploads /\ j.file <= uploads'
  /\ label \in Unchosen <=> j.file = NoFile
  /\ label \in Arriving \cup {"answer", "send"} => j.stream \in Stream
  /\ label \in {"select", "find"} => j.index \in 1 .. seen'[s].count
  /\ label \in Arriving => \A t \in Session \ {s} : job[t].file # j.file
  /\ \A t \in Session \ {s} : pc[t] \in Arriving => job[t].file # j.file

LEMMA JobsMove ==
  ASSUME TypeOK, JobsInvariant, NEW s \in Session, NEW label, NEW j,
         pc' = [pc EXCEPT ![s] = label], job' = [job EXCEPT ![s] = j],
         \A t \in Session \ {s} : seen'[t] = seen[t],
         RowsAfter(s, label, j), JobAfter(s, label, j)
  PROVE  JobsInvariant'
<1>1. pc'[s] = label /\ job'[s] = j /\ \A t \in Session \ {s} : pc'[t] = pc[t] /\ job'[t] = job[t]
  BY DEF TypeOK
<1>2. JobIsSound(s)'
  BY <1>1 DEF JobIsSound, RowsAfter, JobAfter
<1>3. ASSUME NEW t \in Session \ {s} PROVE JobIsSound(t)'
  <2>1. JobIsSound(t) /\ pc'[t] = pc[t] /\ job'[t] = job[t] /\ seen'[t] = seen[t]
    BY <1>1 DEF JobsInvariant
  <2>2. pc[t] \in Arriving => \A r \in Session \ {t} : job'[r].file # job[t].file
    BY <1>1, <2>1 DEF JobIsSound, JobAfter
  <2>3. job[t].file <= uploads'
    <3>1. job[t].file \in Nat /\ uploads \in Nat
      BY UploadsAssumption DEF TypeOK, File, NoFile
    <3> QED
      BY <2>1, <3>1 DEF JobIsSound, JobAfter
  <2>4. /\ pc[t] \in Arriving \cup {"remove"} => \A id \in DOMAIN rows' : rows'[id].file # job[t].file
        /\ \A id \in DOMAIN rows' : rows'[id].file = job[t].file => rows'[id].owner = Owner[t]
    BY <2>1 DEF JobIsSound, RowsAfter
  <2> QED
    BY <2>1, <2>2, <2>3, <2>4 DEF JobIsSound
<1> QED
  BY <1>2, <1>3 DEF JobsInvariant, RowsAfter

(* The session works on no file. *)
LEMMA JobsRest ==
  ASSUME TypeOK, JobsInvariant, NEW s \in Session, NEW label \in Unchosen, NEW j, j.file = NoFile,
         pc' = [pc EXCEPT ![s] = label], job' = [job EXCEPT ![s] = j],
         UNCHANGED <<rows, uploads>>,
         \A t \in Session \ {s} : seen'[t] = seen[t],
         label \in {"select", "find"} => j.index \in 1 .. seen'[s].count
  PROVE  JobsInvariant'
<1>1. uploads \in Nat /\ \A id \in DOMAIN rows : rows[id].file # NoFile /\ rows[id].file <= uploads
  BY UploadsAssumption DEF TypeOK, JobsInvariant, File, NoFile
<1>2. label \notin Arriving \cup {"remove", "answer", "send"}
  BY DEF Unchosen, Idle, Arriving
<1>3. \A t \in Session : pc[t] \in Arriving => job[t].file # NoFile
  BY DEF JobsInvariant, JobIsSound, Arriving, Unchosen, Idle
<1>4. NoFile <= uploads
  BY <1>1 DEF NoFile
<1>5. RowsAfter(s, label, j)
  BY <1>1, <1>2 DEF RowsAfter
<1>6. JobAfter(s, label, j)
  BY <1>1, <1>2, <1>3, <1>4 DEF JobAfter
<1> QED
  BY <1>5, <1>6, JobsMove

(* It goes on with the same file, of which it may have deleted the row.      *)
LEMMA JobsGoOn ==
  ASSUME TypeOK, JobsInvariant, NEW s \in Session, NEW label,
         NEW j, j.file = job[s].file, pc[s] \notin Unchosen, label \notin Unchosen,
         pc' = [pc EXCEPT ![s] = label], job' = [job EXCEPT ![s] = j],
         uploads' = uploads, seen' = seen,
         \A id \in DOMAIN rows' : id \in DOMAIN rows /\ rows'[id] = rows[id],
         label \in Arriving \cup {"answer", "send"} => j.stream \in Stream,
         label \in Arriving => pc[s] \in Arriving,
         label = "remove" => \A id \in DOMAIN rows' : rows'[id].file # job[s].file
  PROVE  JobsInvariant'
<1>1. JobIsSound(s) /\ \A t \in Session : JobIsSound(t)
  BY DEF JobsInvariant
<1>2. uploads \in Nat /\ uploads >= uploads /\ \A id \in DOMAIN rows : rows[id].file <= uploads
  BY UploadsAssumption DEF TypeOK, JobsInvariant
<1>3. \A t \in Session \ {s} : pc[t] \in Arriving => job[t].file # job[s].file
  BY <1>1 DEF JobIsSound
<1>4. label \in Arriving => \A t \in Session \ {s} : job[t].file # job[s].file
  BY <1>1 DEF JobIsSound
<1>5. label \in Arriving \cup {"remove"} => \A id \in DOMAIN rows' : rows'[id].file # job[s].file
  BY <1>1 DEF JobIsSound
<1>6. \A id \in DOMAIN rows' : rows'[id].file = job[s].file => rows'[id].owner = Owner[s]
  BY <1>1 DEF JobIsSound
<1>7. label \notin {"select", "find"} /\ job[s].file # NoFile /\ job[s].file <= uploads
  BY <1>1 DEF JobIsSound, Unchosen
<1>8. RowsAfter(s, label, j)
  BY <1>2, <1>5, <1>6 DEF RowsAfter
<1>9. JobAfter(s, label, j)
  BY <1>2, <1>3, <1>4, <1>7 DEF JobAfter
<1> QED
  BY <1>8, <1>9, JobsMove

(* It chooses a file of its user's list.                                     *)
LEMMA JobsChoose ==
  ASSUME TypeOK, JobsInvariant, NEW s \in Session, NEW label \in {"open", "delete"},
         pc[s] \in {"select", "find"}, ~ (job[s].index > Len(FilesOf(Owner[s]))),
         pc' = [pc EXCEPT ![s] = label],
         job' = [job EXCEPT ![s].file = FilesOf(Owner[s])[job[s].index]],
         UNCHANGED <<rows, uploads, seen>>
  PROVE  JobsInvariant'
<1> DEFINE file == FilesOf(Owner[s])[job[s].index]
           j == [job[s] EXCEPT !.file = file]
<1>1. job' = [job EXCEPT ![s] = j] /\ j.file = file
  BY DEF TypeOK
<1>2. job[s].index \in 1 .. Len(FilesOf(Owner[s])) /\ Owner[s] \in User
  <2>1. job[s].index \in 1 .. seen[s].count /\ seen[s].count \in Nat
    BY UploadsAssumption DEF JobsInvariant, JobIsSound, TypeOK
  <2>2. Owner[s] \in User
    BY OwnerAssumption
  <2>3. Len(FilesOf(Owner[s])) \in 0 .. MaxUploads
    BY <2>2, FilesAreRows
  <2> QED
    BY <2>1, <2>2, <2>3, UploadsAssumption
<1>3. PICK id \in DOMAIN rows : rows[id].owner = Owner[s] /\ rows[id].file = file
  BY <1>2, FilesAreRows
<1> HIDE DEF file, j
<1>4. /\ uploads \in Nat /\ uploads >= uploads /\ \A i \in DOMAIN rows : rows[i].file <= uploads
      /\ file \in File /\ file # NoFile /\ file <= uploads
      /\ \A i \in DOMAIN rows : rows[i].file = file => i = id
  BY <1>3, UploadsAssumption DEF TypeOK, JobsInvariant, File, NoFile
<1>5. \A t \in Session \ {s} : pc[t] \in Arriving => job[t].file # file
  BY <1>3 DEF JobsInvariant, JobIsSound
<1>6. label \notin Unchosen /\ label \notin Arriving \cup {"remove", "answer", "send"}
      /\ label \notin {"select", "find"}
  BY DEF Unchosen, Idle, Arriving
<1>7. RowsAfter(s, label, j)
  BY <1>1, <1>3, <1>4, <1>6 DEF RowsAfter
<1>8. JobAfter(s, label, j)
  BY <1>1, <1>4, <1>5, <1>6 DEF JobAfter
<1> QED
  BY <1>1, <1>7, <1>8, JobsMove

LEMMA JobsStop ==
  ASSUME TypeOK, JobsInvariant, NEW how, Stop(how)
  PROVE  JobsInvariant'
<1>1. uploads \in Nat /\ \A id \in DOMAIN rows : rows[id].file # NoFile /\ rows[id].file <= uploads
  BY UploadsAssumption DEF TypeOK, JobsInvariant, File, NoFile
<1>2. UNCHANGED <<rows, uploads>>
  BY DEF Stop, storeVars, tableVars
<1>3. ASSUME NEW s \in Session PROVE JobIsSound(s)'
  <2>1. pc'[s] = "away" /\ job'[s].file = NoFile
    BY DEF Stop, NoJob
  <2> QED
    BY <1>1, <1>2, <2>1 DEF JobIsSound, Unchosen, Idle, Arriving, NoFile
<1> QED
  BY <1>1, <1>2, <1>3 DEF JobsInvariant

LEMMA JobsStep == TypeOK /\ JobsInvariant /\ [Next]_vars => JobsInvariant'
<1> SUFFICES ASSUME TypeOK, JobsInvariant, [Next]_vars PROVE JobsInvariant'
  OBVIOUS
<1>1. CASE \E how \in {"exited", "killed"} : Stop(how)
  BY <1>1, JobsStop
<1>2. CASE UNCHANGED <<storeVars, streams, unread, sessionVars, mishap>>
  BY <1>2 DEF storeVars, tableVars, sessionVars, JobsInvariant, JobIsSound
<1> SUFFICES ASSUME ~ Exit, NEW s \in Session, SessionStep(s)
             PROVE  JobsInvariant'
  BY <1>1, <1>2, StepKinds
<1>3. job = [job EXCEPT ![s] = job[s]] /\ NoJob.file = NoFile /\ JobIsSound(s)
      /\ \A t \in Session : JobIsSound(t)
  BY DEF TypeOK, NoJob, JobsInvariant
<1>4. pc[s] \in Unchosen => job[s].file = NoFile
  BY <1>3 DEF JobIsSound
<1> USE DEF storeVars, tableVars, processVars
<1>5. CASE Arrive(s)
  BY <1>3, <1>4, <1>5, JobsRest DEF Arrive, Goto, Unchosen, Idle
<1>6. CASE Leave(s)
  BY <1>3, <1>6, JobsRest DEF Leave, HangUp, Goto, Unchosen, Idle, TypeOK
<1>7. CASE RequestList(s)
  BY <1>3, <1>4, <1>7, JobsRest DEF RequestList, Request, Goto, Unchosen, Idle
<1>8. CASE RequestUpload(s)
  <2> DEFINE file == uploads + 1
             j == [[NoJob EXCEPT !.file = file] EXCEPT !.stream = LowestFree]
  <2>1. FreeStreams # {}
    BY <1>8 DEF RequestUpload
  <2>2. LowestFree \in Stream
    BY <2>1, LowestIsFree
  <2>3. /\ pc' = [pc EXCEPT ![s] = "receive"] /\ job' = [job EXCEPT ![s] = j]
        /\ uploads' = uploads + 1 /\ UNCHANGED <<rows, seen>>
    BY <1>8, <2>1 DEF RequestUpload, Request, Goto
  <2>4. j.file = file /\ j.stream = LowestFree
    BY DEF NoJob
  <2>5. /\ uploads \in Nat
        /\ \A id \in DOMAIN rows : rows[id].file \in Nat /\ rows[id].file <= uploads
        /\ \A t \in Session : job[t].file \in Nat /\ job[t].file <= uploads
    BY <1>3, UploadsAssumption DEF TypeOK, JobsInvariant, JobIsSound, File, NoFile
  <2> HIDE DEF j
  <2>6. RowsAfter(s, "receive", j)
    BY <2>3, <2>4, <2>5 DEF RowsAfter
  <2>7. JobAfter(s, "receive", j)
    BY <2>2, <2>3, <2>4, <2>5 DEF JobAfter, Unchosen, Idle, Arriving, NoFile
  <2> QED
    BY <2>3, <2>6, <2>7, JobsMove
<1>9. ASSUME NEW i \in 1 .. MaxUploads, RequestDownload(s, i) \/ RequestDelete(s, i) PROVE JobsInvariant'
  <2> DEFINE j == [NoJob EXCEPT !.index = i]
  <2>1. \E label \in {"select", "find"} : pc' = [pc EXCEPT ![s] = label]
    BY <1>9 DEF RequestDownload, RequestDelete, Choose, Request, Goto
  <2>2. job' = [job EXCEPT ![s] = j] /\ UNCHANGED <<rows, uploads, seen>> /\ i <= seen[s].count
    BY <1>9 DEF RequestDownload, RequestDelete, Choose
  <2>3. j.file = NoFile /\ j.index = i
    BY DEF NoJob
  <2>4. i \in 1 .. seen'[s].count
    BY <2>2, UploadsAssumption DEF TypeOK
  <2> HIDE DEF j
  <2> QED
    BY <2>1, <2>2, <2>3, <2>4, JobsRest DEF Unchosen
<1>10. CASE ListCount(s)
  <2>1. pc[s] \in Unchosen
    BY <1>10 DEF ListCount, Unchosen
  <2>2. \E label \in {"menu", "rows"} : pc' = [pc EXCEPT ![s] = label]
    BY <1>10 DEF ListCount, Goto
  <2>3. job' = job /\ UNCHANGED <<rows, uploads>> /\ \A t \in Session \ {s} : seen'[t] = seen[t]
    BY <1>10 DEF ListCount, TypeOK
  <2> QED
    BY <1>3, <1>4, <2>1, <2>2, <2>3, JobsRest DEF Unchosen, Idle
<1>11. CASE ListRows(s)
  BY <1>3, <1>4, <1>11, JobsRest DEF ListRows, Goto, Unchosen, Idle, TypeOK
<1>12. CASE ReceiveFile(s)
  <2>1. \E label \in {"matched", "mismatched"} : pc' = [pc EXCEPT ![s] = label]
    BY <1>12 DEF ReceiveFile, Goto
  <2>2. pc[s] = "receive" /\ UNCHANGED <<rows, uploads, job, seen>>
    BY <1>12 DEF ReceiveFile
  <2>3. job[s].stream \in Stream
    BY <1>3, <2>2 DEF JobIsSound, Arriving
  <2>4. pc[s] \notin Unchosen /\ pc[s] \in Arriving
    BY <2>2 DEF Unchosen, Idle, Arriving
  <2>5. "matched" \notin Unchosen /\ "mismatched" \notin Unchosen
    BY DEF Unchosen, Idle
  <2>6. CASE pc' = [pc EXCEPT ![s] = "matched"]
    BY <1>3, <2>2, <2>3, <2>4, <2>5, <2>6, JobsGoOn
  <2>7. CASE pc' = [pc EXCEPT ![s] = "mismatched"]
    BY <1>3, <2>2, <2>3, <2>4, <2>5, <2>7, JobsGoOn
  <2> QED
    BY <2>1, <2>6, <2>7
<1>13. CASE ReceiveBreaks(s) \/ InfoBreaks(s) \/ AnswerBreaks(s) \/ SendBreaks(s)
  <2>1. /\ pc' = [pc EXCEPT ![s] = "away"] /\ job' = [job EXCEPT ![s] = NoJob]
        /\ \A t \in Session \ {s} : seen'[t] = seen[t]
        /\ UNCHANGED <<rows, uploads>>
    BY <1>13 DEF ReceiveBreaks, InfoBreaks, AnswerBreaks, SendBreaks, HangUp, Goto, TypeOK
  <2> QED
    BY <1>3, <2>1, JobsRest DEF Unchosen, Idle
<1>14. CASE CompareHash(s)
  <2>1. CASE pc[s] = "matched" /\ pc' = [pc EXCEPT ![s] = "insert"] /\ UNCHANGED <<job, rows, uploads, seen>>
    BY <1>3, <2>1, JobsGoOn DEF JobIsSound, Arriving, Unchosen, Idle
  <2>2. CASE pc' = [pc EXCEPT ![s] = "list"] /\ job' = [job EXCEPT ![s] = NoJob]
             /\ UNCHANGED <<rows, uploads, seen>>
    BY <1>3, <2>2, JobsRest DEF Unchosen, Idle
  <2> QED
    BY <1>14, <2>1, <2>2 DEF CompareHash, Done, Goto
<1>15. CASE InsertRow(s)
  <2>1. /\ pc[s] = "insert" /\ lastId' = lastId + 1
        /\ rows' = [id \in DOMAIN rows \cup {lastId'} |->
                     IF id = lastId' THEN [owner |-> Owner[s], file |-> job[s].file] ELSE rows[id]]
        /\ pc' = [pc EXCEPT ![s] = "answer"] /\ UNCHANGED <<uploads, job, seen>>
    BY <1>15 DEF InsertRow, Insert, Goto
  <2>2. /\ \A t \in Session \ {s} : job[t].file # job[s].file
        /\ job[s].file # NoFile /\ job[s].file <= uploads /\ job[s].stream \in Stream
    BY <1>3, <2>1 DEF JobIsSound, Arriving, Unchosen, Idle
  <2>3. uploads \in Nat /\ \A id \in DOMAIN rows : rows[id].file <= uploads
    BY UploadsAssumption DEF TypeOK, JobsInvariant
  <2>4. \A id \in DOMAIN rows' :
          \/ id \in DOMAIN rows /\ rows'[id] = rows[id]
          \/ rows'[id].owner = Owner[s] /\ rows'[id].file = job[s].file
    BY <2>1
  <2>5. \A id \in DOMAIN rows : rows[id].file = job[s].file => rows[id].owner = Owner[s]
    BY <1>3 DEF JobIsSound
  <2>6. RowsAfter(s, "answer", job[s])
    BY <2>1, <2>2, <2>3, <2>4, <2>5 DEF RowsAfter, Arriving
  <2>7. JobAfter(s, "answer", job[s])
    BY <2>1, <2>2, <2>3 DEF JobAfter, Unchosen, Idle, Arriving
  <2> QED
    BY <1>3, <2>1, <2>6, <2>7, JobsMove
<1>16. CASE AnswerUpload(s)
  BY <1>3, <1>16, JobsRest DEF AnswerUpload, Done, Goto, Unchosen, Idle
<1>17. CASE SelectFile(s)
  BY <1>17, JobsChoose DEF SelectFile, Goto
<1>18. CASE OpenFile(s)
  <2> DEFINE j == [job[s] EXCEPT !.stream = LowestFree]
  <2>1. FreeStreams # {} /\ pc[s] = "open"
    BY <1>18 DEF OpenFile
  <2>2. LowestFree \in Stream
    BY <2>1, LowestIsFree
  <2>3. job' = [job EXCEPT ![s] = j] /\ j.file = job[s].file /\ j.stream = LowestFree
    <3>1. job \in [Session -> Job]
      BY DEF TypeOK, Job
    <3>2. job' = [job EXCEPT ![s].stream = LowestFree]
      BY <1>18, <2>1 DEF OpenFile
    <3>3. job[s] \in Job
      BY <3>1
    <3> QED
      BY <3>1, <3>2, <3>3 DEF Job
  <2>4. pc' = [pc EXCEPT ![s] = "send"] /\ UNCHANGED <<rows, uploads, seen>>
    BY <1>18 DEF OpenFile, Goto
  <2> HIDE DEF j
  <2> QED
    BY <2>1, <2>2, <2>3, <2>4, JobsGoOn DEF Unchosen, Idle, Arriving
<1>19. CASE SendFile(s)
  BY <1>3, <1>19, JobsRest DEF SendFile, Done, Goto, Unchosen, Idle
<1>20. CASE FindRow(s)
  BY <1>20, JobsChoose DEF FindRow, Goto
<1>21. CASE DeleteRow(s)
  <2>1. /\ rows' = [id \in {i \in DOMAIN rows : rows[i].file # job[s].file} |-> rows[id]]
        /\ pc[s] = "delete" /\ pc' = [pc EXCEPT ![s] = "remove"] /\ UNCHANGED <<uploads, job, seen>>
    BY <1>21 DEF DeleteRow, Goto
  <2>2. \A id \in DOMAIN rows' : id \in DOMAIN rows /\ rows'[id] = rows[id] /\ rows'[id].file # job[s].file
    BY <2>1
  <2> QED
    BY <1>3, <2>1, <2>2, JobsGoOn DEF Unchosen, Idle, Arriving
<1>22. CASE RemoveFile(s)
  BY <1>3, <1>22, JobsRest DEF RemoveFile, Done, Goto, Unchosen, Idle
<1> QED
  BY <1>5, <1>6, <1>7, <1>8, <1>9, <1>10, <1>11, <1>12, <1>13, <1>14, <1>15, <1>16, <1>17, <1>18,
     <1>19, <1>20, <1>21, <1>22 DEF SessionStep, UploadStep, DownloadStep, DeleteStep

LEMMA CoreInit == Init => TypeOK /\ JobsInvariant
<1> SUFFICES ASSUME Init PROVE TypeOK /\ JobsInvariant
  OBVIOUS
<1>1. <<>> \in Seq(File) /\ DOMAIN rows = {} /\ rows \in [{} -> [owner : User, file : File]]
  BY DEF Init
<1>2. Nothing \in [count : 0 .. MaxUploads, files : Seq(File)]
      /\ Closed \in [file : {NoFile} \cup File, writable : BOOLEAN]
  BY <1>1, UploadsAssumption DEF Nothing, Closed
<1>3. /\ seen \in [Session -> [count : 0 .. MaxUploads, files : Seq(File)]]
      /\ streams \in [Stream -> [file : {NoFile} \cup File, writable : BOOLEAN]]
      /\ job \in [Session -> Job] /\ pc \in [Session -> Label]
    BY <1>2, JobType DEF Init, Label, Idle
<1>4. TypeOK
  <2>1. lastId \in Nat /\ DOMAIN rows \subseteq 1 .. lastId
    BY <1>1 DEF Init
  <2>2. /\ rows \in [DOMAIN rows -> [owner : User, file : File]]
        /\ \A i, j \in DOMAIN rows : rows[i].file = rows[j].file => i = j
    BY <1>1
  <2>3. content \in [File -> {NoFile, Damaged} \cup File]
    BY DEF Init
  <2>4. uploads \in 0 .. MaxUploads
    BY UploadsAssumption DEF Init
  <2>5. mishap \subseteq {"shared", "overlap", "broken", "crossed", "crash"}
        /\ server \in {"up", "exited", "killed"} /\ unread \in BOOLEAN
    BY DEF Init
  <2> QED
    BY <1>3, <2>1, <2>2, <2>3, <2>4, <2>5 DEF TypeOK, Job, Label
<1>5. \A s \in Session : pc[s] = "away" /\ job[s].file = NoFile
  BY DEF Init, NoJob
<1>6. \A s \in Session : JobIsSound(s)
  BY <1>1, <1>5, UploadsAssumption DEF Init, JobIsSound, Unchosen, Idle, Arriving, NoFile
<1> QED
  BY <1>1, <1>4, <1>6 DEF JobsInvariant

(* Every variable keeps its type, for any number of sessions, uploads and    *)
(* FILE objects; in particular no stored file is in the table twice, and     *)
(* no handler closes a FILE object that never was its own.                   *)
THEOREM TypeCorrect == Spec => []TypeOK
  BY CoreInit, TypeStep, JobsStep, PTL DEF Spec

-----------------------------------------------------------------------------
(* WorkInvariant *)

(* A session's own step moves this session only, and what has happened is    *)
(* not forgotten; one that takes up a request while there is another notes   *)
(* it.                                                                       *)
LEMMA SessionMoves ==
  ASSUME TypeOK, ~ Exit, NEW s \in Session, SessionStep(s)
  PROVE  /\ mishap \subseteq mishap'
         /\ \E label \in Label : /\ pc' = [pc EXCEPT ![s] = label]
                                 /\ \/ label \in Idle \/ pc[s] \notin Idle
                                    \/ "overlap" \in mishap' \/ \A t \in Session : pc[t] \in Idle
<1> DEFINE Moves(label) ==
      /\ pc' = [pc EXCEPT ![s] = label]
      /\ \/ label \in Idle \/ pc[s] \notin Idle
         \/ "overlap" \in mishap' \/ \A t \in Session : pc[t] \in Idle
<1> SUFFICES mishap \subseteq mishap' /\ \E label \in Label : Moves(label)
  OBVIOUS
<1>1. CASE Arrive(s)
  <2>1. Moves("list") /\ mishap \subseteq mishap'
    BY <1>1 DEF Arrive, Goto, Note, Idle
  <2> QED
    BY <2>1 DEF Label, Idle
<1>2. CASE Leave(s)
  <2>1. Moves("away") /\ mishap \subseteq mishap'
    BY <1>2 DEF Leave, HangUp, Goto, Idle
  <2> QED
    BY <2>1 DEF Label, Idle
<1>3. ASSUME NEW label \in Statements \cup {"receive"}, Request(s, label)
      PROVE  Moves(label) /\ label \in Label /\ mishap \subseteq mishap'
  BY <1>3 DEF Request, Goto, Note, Label
<1>4. CASE RequestList(s)
  BY <1>3, <1>4 DEF RequestList, Statements
<1>5. CASE RequestUpload(s)
  BY <1>3, <1>5 DEF RequestUpload
<1>6. CASE \E i \in 1 .. MaxUploads : RequestDownload(s, i) \/ RequestDelete(s, i)
  BY <1>3, <1>6 DEF RequestDownload, RequestDelete, Choose, Statements
<1>7. ASSUME NEW label \in Label, pc[s] \notin Idle, Goto(s, label)
      PROVE  Moves(label)
  BY <1>7 DEF Goto
<1> HIDE DEF Moves
<1>8. CASE ListCount(s) \/ ListRows(s)
  BY <1>7, <1>8 DEF ListCount, ListRows, processVars, Label, Idle, Statements
<1>9. CASE UploadStep(s)
  <2>1. pc[s] \notin Idle
    BY <1>9 DEF UploadStep, ReceiveFile, ReceiveBreaks, InfoBreaks, CompareHash, InsertRow,
                AnswerUpload, AnswerBreaks, Idle
  <2>2. mishap \subseteq mishap'
    BY <1>9 DEF UploadStep, ReceiveFile, ReceiveBreaks, InfoBreaks, CompareHash, InsertRow,
                AnswerUpload, AnswerBreaks, Close, Note
  <2>3. \E label \in Label : Goto(s, label)
    BY <1>9 DEF UploadStep, ReceiveFile, ReceiveBreaks, InfoBreaks, CompareHash, InsertRow,
                AnswerUpload, AnswerBreaks, HangUp, Done, Label, Idle, Statements
  <2> QED
    BY <1>7, <2>1, <2>2, <2>3
<1>10. CASE DownloadStep(s)
  <2>1. pc[s] \notin Idle
    BY <1>10 DEF DownloadStep, SelectFile, OpenFile, SendFile, SendBreaks, Idle
  <2>2. mishap \subseteq mishap'
    BY <1>10 DEF DownloadStep, SelectFile, OpenFile, SendFile, SendBreaks, Close, Note
  <2>3. \E label \in Label : Goto(s, label)
    BY <1>10 DEF DownloadStep, SelectFile, OpenFile, SendFile, SendBreaks, HangUp, Done, Label, Idle
  <2> QED
    BY <1>7, <2>1, <2>2, <2>3
<1>11. CASE DeleteStep(s)
  <2>1. pc[s] \notin Idle /\ mishap' = mishap
    BY <1>11 DEF DeleteStep, FindRow, DeleteRow, RemoveFile, Idle
  <2>2. \E label \in Label : Goto(s, label)
    BY <1>11 DEF DeleteStep, FindRow, DeleteRow, RemoveFile, Done, Label, Idle, Statements
  <2> QED
    BY <1>7, <2>1, <2>2
<1> QED
  BY <1>1, <1>2, <1>4, <1>5, <1>6, <1>8, <1>9, <1>10, <1>11 DEF SessionStep

(* One request at a time. *)
LEMMA RequestsStep ==
  ASSUME TypeOK, [Next]_vars, "overlap" \notin mishap => OneRequest
  PROVE  "overlap" \notin mishap' => OneRequest'
<1> SUFFICES ASSUME "overlap" \notin mishap' PROVE OneRequest'
  OBVIOUS
<1>1. CASE \E how \in {"exited", "killed"} : Stop(how)
  BY <1>1 DEF Stop, OneRequest, Idle
<1>2. CASE UNCHANGED <<storeVars, streams, unread, sessionVars, mishap>>
  BY <1>2 DEF OneRequest, sessionVars
<1>3. CASE ~ Exit /\ \E s \in Session : SessionStep(s)
  <2>1. PICK s \in Session : SessionStep(s)
    BY <1>3
  <2>2. mishap \subseteq mishap'
    BY <1>3, <2>1, SessionMoves
  <2>3. PICK label \in Label :
          /\ pc' = [pc EXCEPT ![s] = label]
          /\ label \in Idle \/ pc[s] \notin Idle \/ \A t \in Session : pc[t] \in Idle
    BY <1>3, <2>1, SessionMoves
  <2>4. OneRequest /\ pc \in [Session -> Label]
    BY <2>2 DEF TypeOK, Label
  <2> QED
    BY <2>3, <2>4 DEF OneRequest
<1> QED
  BY <1>1, <1>2, <1>3, StepKinds

(* A session that has nothing open of its own and opens nothing.             *)
LEMMA NothingLeftStays ==
  ASSUME TypeOK, NothingLeft, NEW s \in Session, NEW label, NEW j,
         pc[s] \notin {"receive", "send", "open"},
         pc' = [pc EXCEPT ![s] = label], job' = [job EXCEPT ![s] = j],
         unread' = unread,
         \A i \in Stream : streams'[i] = streams[i] \/ streams'[i] = Closed
  PROVE  NothingLeft'
<1>1. \A t \in Session \ {s} : pc'[t] = pc[t] /\ job'[t] = job[t]
  BY DEF TypeOK
<1>2. unread' => \E t \in Session : pc'[t] \in {"open", "send"}
  BY <1>1 DEF NothingLeft
<1>3. ASSUME NEW i \in Stream, streams'[i] # Closed
      PROVE  \E t \in Session : /\ pc'[t] \in {"receive", "send"}
                                /\ job'[t].stream = i /\ job'[t].file = streams'[i].file
  <2>1. PICK t \in Session : /\ pc[t] \in {"receive", "send"}
                             /\ job[t].stream = i /\ job[t].file = streams[i].file
    BY <1>3 DEF NothingLeft
  <2> QED
    BY <1>1, <1>3, <2>1
<1> QED
  BY <1>2, <1>3 DEF NothingLeft, Closed

(* A session that closes its own file.                                       *)
LEMMA NothingLeftCloses ==
  ASSUME TypeOK, NothingLeft, NEW s \in Session, NEW label, NEW j,
         pc' = [pc EXCEPT ![s] = label], job' = [job EXCEPT ![s] = j],
         streams' = [streams EXCEPT ![job[s].stream] = Closed],
         unread' => unread /\ pc[s] \notin {"open", "send"}
  PROVE  NothingLeft'
<1>1. \A t \in Session \ {s} : pc'[t] = pc[t] /\ job'[t] = job[t]
  BY DEF TypeOK
<1>2. unread' => \E t \in Session : pc'[t] \in {"open", "send"}
  BY <1>1 DEF NothingLeft
<1>3. ASSUME NEW i \in Stream, streams'[i] # Closed
      PROVE  \E t \in Session : /\ pc'[t] \in {"receive", "send"}
                                /\ job'[t].stream = i /\ job'[t].file = streams'[i].file
  <2>1. i # job[s].stream /\ streams'[i] = streams[i]
    BY <1>3 DEF TypeOK
  <2>2. PICK t \in Session : /\ pc[t] \in {"receive", "send"}
                             /\ job[t].stream = i /\ job[t].file = streams[i].file
    BY <1>3, <2>1 DEF NothingLeft
  <2> QED
    BY <1>1, <2>1, <2>2
<1> QED
  BY <1>2, <1>3 DEF NothingLeft, Closed

(* A session that opens a file for its transfer.                             *)
LEMMA NothingLeftOpens ==
  ASSUME TypeOK, NothingLeft, NEW s \in Session, NEW label \in {"receive", "send"}, NEW j,
         pc[s] \notin {"receive", "send"}, pc[s] = "open" => label = "send",
         pc' = [pc EXCEPT ![s] = label], job' = [job EXCEPT ![s] = j],
         FreeStreams # {}, j.stream = LowestFree, NEW forWriting, Open(j.file, forWriting),
         unread' = unread
  PROVE  NothingLeft'
<1>1. /\ \A t \in Session \ {s} : pc'[t] = pc[t] /\ job'[t] = job[t]
      /\ pc'[s] = label /\ job'[s] = j
  BY DEF TypeOK
<1>2. unread' => \E t \in Session : pc'[t] \in {"open", "send"}
  BY <1>1 DEF NothingLeft
<1>3. LowestFree \in Stream
  BY LowestIsFree
<1>4. ASSUME NEW i \in Stream, streams'[i] # Closed
      PROVE  \E t \in Session : /\ pc'[t] \in {"receive", "send"}
                                /\ job'[t].stream = i /\ job'[t].file = streams'[i].file
  <2>1. CASE i = LowestFree
    <3>1. streams'[i].file = j.file
      BY <1>3, <2>1 DEF TypeOK, Open
    <3> QED
      BY <1>1, <2>1, <3>1
  <2>2. CASE i # LowestFree
    <3>1. streams'[i] = streams[i]
      BY <2>2 DEF TypeOK, Open
    <3>2. PICK t \in Session : /\ pc[t] \in {"receive", "send"}
                               /\ job[t].stream = i /\ job[t].file = streams[i].file
      BY <1>4, <3>1 DEF NothingLeft
    <3> QED
      BY <1>1, <3>1, <3>2
  <2> QED
    BY <2>1, <2>2
<1> QED
  BY <1>2, <1>4 DEF NothingLeft, Closed

LEMMA NothingLeftStep ==
  ASSUME TypeOK, [Next]_vars, "broken" \notin mishap => NothingLeft
  PROVE  "broken" \notin mishap' => NothingLeft'
<1> SUFFICES ASSUME "broken" \notin mishap' PROVE NothingLeft'
  OBVIOUS
<1>1. CASE \E how \in {"exited", "killed"} : Stop(how)
  BY <1>1 DEF Stop, NothingLeft, Closed
<1>2. CASE UNCHANGED <<storeVars, streams, unread, sessionVars, mishap>>
  BY <1>2 DEF NothingLeft, sessionVars, Closed
<1>3. CASE ~ Exit /\ \E s \in Session : SessionStep(s)
  <2>1. PICK s \in Session : SessionStep(s)
    BY <1>3
  <2>2. NothingLeft
    BY <1>3, <2>1, SessionMoves
  <2>3. /\ job = [job EXCEPT ![s] = job[s]] /\ job \in [Session -> Job]
        /\ \A i \in Stream : streams[i] = streams[i] \/ streams[i] = Closed
    BY DEF TypeOK, Job
  <2> USE DEF storeVars, processVars, tableVars
  <2>4. CASE Arrive(s) \/ RequestList(s) \/ ListCount(s) \/ ListRows(s)
    <3>1. /\ pc[s] \notin {"receive", "send", "open"} /\ job' = job
          /\ unread' = unread /\ streams' = streams
      BY <2>4 DEF Arrive, RequestList, ListCount, ListRows
    <3>2. \E label \in Label : pc' = [pc EXCEPT ![s] = label]
      BY <1>3, <2>1, SessionMoves
    <3> QED
      BY <2>2, <2>3, <3>1, <3>2, NothingLeftStays
  <2>5. CASE Leave(s) \/ CompareHash(s) \/ InsertRow(s) \/ FindRow(s) \/ DeleteRow(s) \/ RemoveFile(s)
    <3>1. /\ pc[s] \notin {"receive", "send", "open"}
          /\ unread' = unread /\ streams' = streams
      BY <1>3, <2>5 DEF Leave, CompareHash, InsertRow, FindRow, DeleteRow, RemoveFile
    <3>2. \E label \in Label : pc' = [pc EXCEPT ![s] = label]
      BY <1>3, <2>1, SessionMoves
    <3>3. \E j \in {NoJob, job[s], [job[s] EXCEPT !.file = FilesOf(Owner[s])[job[s].index]]} :
            job' = [job EXCEPT ![s] = j]
      BY <1>3, <2>3, <2>5 DEF Leave, HangUp, CompareHash, Done, InsertRow, FindRow, DeleteRow, RemoveFile
    <3> QED
      BY <2>2, <2>3, <3>1, <3>2, <3>3, NothingLeftStays
  <2>6. CASE RequestUpload(s)
    <3> DEFINE j == [[NoJob EXCEPT !.file = uploads + 1] EXCEPT !.stream = LowestFree]
    <3>1. FreeStreams # {}
      BY <1>3, <2>6 DEF RequestUpload
    <3>2. /\ pc[s] = "menu" /\ pc' = [pc EXCEPT ![s] = "receive"] /\ unread' = unread
          /\ job' = [job EXCEPT ![s] = j] /\ Open(uploads + 1, TRUE)
      BY <2>6, <3>1 DEF RequestUpload, Request, Goto
    <3>3. j.file = uploads + 1 /\ j.stream = LowestFree
      BY DEF NoJob
    <3> HIDE DEF j
    <3> QED
      BY <2>2, <3>1, <3>2, <3>3, NothingLeftOpens
  <2>7. CASE \E i \in 1 .. MaxUploads : RequestDownload(s, i) \/ RequestDelete(s, i)
    <3>1. /\ pc[s] \notin {"receive", "send", "open"}
          /\ unread' = unread /\ streams' = streams
      BY <2>7 DEF RequestDownload, RequestDelete, Choose
    <3>2. \E label \in Label : pc' = [pc EXCEPT ![s] = label]
      BY <1>3, <2>1, SessionMoves
    <3>3. PICK i \in 1 .. MaxUploads : job' = [job EXCEPT ![s] = [NoJob EXCEPT !.index = i]]
      BY <2>7 DEF RequestDownload, RequestDelete, Choose
    <3> QED
      BY <2>2, <2>3, <3>1, <3>2, <3>3, NothingLeftStays
  <2>8. CASE ReceiveFile(s)
    <3>1. /\ pc[s] = "receive" /\ unread' = unread /\ job' = job
          /\ streams' = [streams EXCEPT ![job[s].stream] = Closed]
      BY <2>8 DEF ReceiveFile, Close
    <3>2. \E label \in Label : pc' = [pc EXCEPT ![s] = label]
      BY <1>3, <2>1, SessionMoves
    <3> QED
      BY <2>2, <2>3, <3>1, <3>2, NothingLeftCloses
  <2>9. CASE AnswerUpload(s) \/ SendFile(s)
    <3>1. /\ pc[s] = "answer" \/ ~ unread'
          /\ unread' => unread
          /\ streams' = [streams EXCEPT ![job[s].stream] = Closed]
          /\ pc' = [pc EXCEPT ![s] = "list"] /\ job' = [job EXCEPT ![s] = NoJob]
      BY <2>9 DEF AnswerUpload, SendFile, Close, Done, Goto
    <3>2. unread' => unread /\ pc[s] \notin {"open", "send"}
      BY <3>1
    <3> QED
      BY <2>2, <3>1, <3>2, NothingLeftCloses
  <2>10. CASE ReceiveBreaks(s) \/ InfoBreaks(s) \/ AnswerBreaks(s) \/ SendBreaks(s)
    BY <2>10 DEF ReceiveBreaks, InfoBreaks, AnswerBreaks, SendBreaks, Note
  <2>11. CASE SelectFile(s)
    <3>1. /\ pc[s] = "select" /\ pc' = [pc EXCEPT ![s] = "open"] /\ streams' = streams
          /\ job' = [job EXCEPT ![s].file = FilesOf(Owner[s])[job[s].index]]
      BY <1>3, <2>11 DEF SelectFile, Goto
    <3>2. \A t \in Session \ {s} : pc'[t] = pc[t] /\ job'[t] = job[t]
      BY <3>1 DEF TypeOK
    <3>3. pc'[s] = "open"
      BY <3>1 DEF TypeOK
    <3>4. ASSUME NEW i \in Stream, streams'[i] # Closed
          PROVE  \E t \in Session : /\ pc'[t] \in {"receive", "send"}
                                    /\ job'[t].stream = i /\ job'[t].file = streams'[i].file
      <4>1. PICK t \in Session : /\ pc[t] \in {"receive", "send"}
                                 /\ job[t].stream = i /\ job[t].file = streams[i].file
        BY <2>2, <3>1, <3>4 DEF NothingLeft
      <4>2. t # s
        BY <3>1, <4>1
      <4> QED
        BY <3>1, <3>2, <4>1, <4>2
    <3>5. unread' => \E t \in Session : pc'[t] \in {"open", "send"}
      BY <3>3
    <3> QED
      BY <3>4, <3>5 DEF NothingLeft, Closed
  <2>12. CASE OpenFile(s)
    <3> DEFINE j == [job[s] EXCEPT !.stream = LowestFree]
    <3>1. FreeStreams # {} /\ pc[s] = "open"
      BY <1>3, <2>12 DEF OpenFile
    <3>2. /\ pc' = [pc EXCEPT ![s] = "send"] /\ unread' = unread
          /\ job' = [job EXCEPT ![s].stream = LowestFree] /\ Open(job[s].file, FALSE)
      BY <1>3, <2>12 DEF OpenFile, Goto
    <3>3. job' = [job EXCEPT ![s] = j] /\ j.file = job[s].file /\ j.stream = LowestFree
      <4>1. job[s] \in Job
        BY <2>3
      <4> QED
        BY <2>3, <3>2, <4>1 DEF Job
    <3> HIDE DEF j
    <3> QED
      BY <2>2, <3>1, <3>2, <3>3, NothingLeftOpens
  <2> QED
    BY <2>1, <2>4, <2>5, <2>6, <2>7, <2>8, <2>9, <2>10, <2>11, <2>12
       DEF SessionStep, UploadStep, DownloadStep, DeleteStep
<1> QED
  BY <1>1, <1>2, <1>3, StepKinds

(* While there is one request and nothing is left, a FILE object that is     *)
(* closed has the file of its own session.                                   *)
LEMMA ClosesOwn ==
  ASSUME TypeOK, JobsInvariant, OneRequest, NothingLeft, NEW s \in Session, pc[s] \notin Idle,
         job[s].stream \in Stream
  PROVE  streams[job[s].stream].file \in {NoFile, job[s].file}
<1> SUFFICES ASSUME streams[job[s].stream].file # NoFile
             PROVE  streams[job[s].stream].file = job[s].file
  OBVIOUS
<1>1. streams[job[s].stream] # Closed
  BY DEF Closed
<1>2. PICK t \in Session : /\ pc[t] \in {"receive", "send"}
                           /\ job[t].file = streams[job[s].stream].file
  BY <1>1 DEF NothingLeft
<1>3. pc[t] \notin Idle
  BY <1>2 DEF Idle
<1> QED
  BY <1>2, <1>3 DEF OneRequest

LEMMA WorkStep == TypeOK /\ JobsInvariant /\ WorkInvariant /\ [Next]_vars => WorkInvariant'
<1> SUFFICES ASSUME TypeOK, JobsInvariant, WorkInvariant, [Next]_vars PROVE WorkInvariant'
  OBVIOUS
<1>1. /\ "overlap" \notin mishap' => OneRequest'
      /\ "broken" \notin mishap' => NothingLeft'
  BY RequestsStep, NothingLeftStep DEF WorkInvariant
<1>2. ASSUME mishap' \cap {"overlap", "broken"} = {}
      PROVE  "crossed" \notin mishap'
  <2>1. CASE \E how \in {"exited", "killed"} : Stop(how)
    BY <1>2, <2>1 DEF Stop, WorkInvariant
  <2>2. CASE UNCHANGED <<storeVars, streams, unread, sessionVars, mishap>>
    BY <1>2, <2>2 DEF WorkInvariant
  <2>3. CASE ~ Exit /\ \E s \in Session : SessionStep(s)
    <3>1. PICK s \in Session : SessionStep(s)
      BY <2>3
    <3>2. /\ mishap \subseteq mishap' /\ "overlap" \notin mishap /\ "broken" \notin mishap
          /\ OneRequest /\ NothingLeft /\ "crossed" \notin mishap
      <4>1. mishap \subseteq mishap'
        BY <2>3, <3>1, SessionMoves
      <4> QED
        BY <1>2, <4>1 DEF WorkInvariant
    <3>3. ASSUME pc[s] \in {"receive", "answer", "send"}, Close(s)
          PROVE  "crossed" \notin mishap'
      <4>1. job[s].stream \in Stream
        BY <3>3 DEF JobsInvariant, JobIsSound, Arriving
      <4>2. pc[s] \notin Idle
        BY <3>3 DEF Idle
      <4>3. streams[job[s].stream].file \in {NoFile, job[s].file}
        BY <3>2, <4>1, <4>2, ClosesOwn
      <4> QED
        BY <3>2, <3>3, <4>3 DEF Close, Note
    <3>4. CASE ReceiveFile(s) \/ AnswerUpload(s) \/ SendFile(s)
      BY <3>3, <3>4 DEF ReceiveFile, AnswerUpload, SendFile
    <3>5. CASE ~ (ReceiveFile(s) \/ AnswerUpload(s) \/ SendFile(s))
      <4>1. CASE \/ Arrive(s) \/ Leave(s) \/ RequestList(s) \/ RequestUpload(s)
                 \/ ListCount(s) \/ ListRows(s)
        <5>1. CASE Arrive(s)
          BY <3>2, <5>1 DEF Arrive, Note
        <5>2. CASE RequestList(s)
          BY <3>2, <5>2 DEF RequestList, Request, Note
        <5>3. CASE RequestUpload(s)
          <6>1. Request(s, "receive")
            BY <2>3, <5>3 DEF RequestUpload
          <6> QED
            BY <3>2, <6>1 DEF Request, Note
        <5>4. CASE Leave(s) \/ ListCount(s) \/ ListRows(s)
          BY <3>2, <5>4 DEF Leave, ListCount, ListRows
        <5> QED
          BY <4>1, <5>1, <5>2, <5>3, <5>4
      <4>2. CASE \E i \in 1 .. MaxUploads : RequestDownload(s, i) \/ RequestDelete(s, i)
        BY <3>2, <4>2 DEF RequestDownload, RequestDelete, Choose, Request, Note
      <4>3. CASE UploadStep(s)
        BY <3>2, <3>5, <4>3 DEF UploadStep, ReceiveBreaks, InfoBreaks, CompareHash, InsertRow,
                                AnswerBreaks, Note
      <4>4. CASE DownloadStep(s) \/ DeleteStep(s)
        <5>1. CASE SelectFile(s)
          BY <2>3, <3>2, <5>1 DEF SelectFile
        <5>2. CASE OpenFile(s)
          BY <2>3, <3>2, <5>2 DEF OpenFile
        <5>3. CASE FindRow(s)
          BY <2>3, <3>2, <5>3 DEF FindRow
        <5>4. CASE SendBreaks(s) \/ DeleteRow(s) \/ RemoveFile(s)
          BY <3>2, <5>4 DEF SendBreaks, Note, DeleteRow, RemoveFile
        <5> QED
          BY <3>5, <4>4, <5>1, <5>2, <5>3, <5>4 DEF DownloadStep, DeleteStep
      <4> QED
        BY <3>1, <4>1, <4>2, <4>3, <4>4 DEF SessionStep
    <3> QED
      BY <3>4, <3>5
  <2> QED
    BY <2>1, <2>2, <2>3, StepKinds
<1> QED
  BY <1>1, <1>2 DEF WorkInvariant

LEMMA WorkInit == Init => WorkInvariant
BY DEF Init, WorkInvariant, OneRequest, NothingLeft, Idle, NoJob

-----------------------------------------------------------------------------
(* StoredInvariant *)

(* What a step of one session has to keep: the rows have their files, and    *)
(* the uploads of the others are left alone.                                 *)
KeepsUploads(s, label, j) ==
  /\ \A id \in DOMAIN rows' : content'[rows'[id].file] = rows'[id].file
  /\ \A t \in Session \ {s} :
       /\ pc[t] = "receive" => streams'[job[t].stream] = streams[job[t].stream]
       /\ pc[t] \in {"matched", "insert"} => content'[job[t].file] = content[job[t].file]
  /\ label = "receive" => streams'[j.stream] = [file |-> j.file, writable |-> TRUE]
  /\ label \in {"matched", "insert"} => content'[j.file] = j.file

LEMMA StoredMove ==
  ASSUME TypeOK, UploadsAreWhole, NEW s \in Session, NEW label, NEW j,
         pc' = [pc EXCEPT ![s] = label], job' = [job EXCEPT ![s] = j],
         KeepsUploads(s, label, j)
  PROVE  StoredInvariant'
<1>1. pc'[s] = label /\ job'[s] = j /\ \A t \in Session \ {s} : pc'[t] = pc[t] /\ job'[t] = job[t]
  BY DEF TypeOK
<1>2. RowsHaveFiles'
  BY DEF KeepsUploads, RowsHaveFiles
<1>3. UploadsAreWhole'
  <2>1. ASSUME NEW t \in Session, pc'[t] = "receive"
        PROVE  streams'[job'[t].stream] = [file |-> job'[t].file, writable |-> TRUE]
    <3>1. CASE t = s
      BY <1>1, <2>1, <3>1 DEF KeepsUploads
    <3>2. CASE t # s
      <4>1. pc[t] = "receive" /\ job'[t] = job[t]
        BY <1>1, <2>1, <3>2
      <4>2. streams'[job[t].stream] = streams[job[t].stream]
        BY <3>2, <4>1 DEF KeepsUploads
      <4>3. streams[job[t].stream] = [file |-> job[t].file, writable |-> TRUE]
        BY <4>1 DEF UploadsAreWhole
      <4> QED
        BY <4>1, <4>2, <4>3
    <3> QED
      BY <3>1, <3>2
  <2>2. ASSUME NEW t \in Session, pc'[t] \in {"matched", "insert"}
        PROVE  content'[job'[t].file] = job'[t].file
    <3>1. CASE t = s
      BY <1>1, <2>2, <3>1 DEF KeepsUploads
    <3>2. CASE t # s
      <4>1. pc[t] \in {"matched", "insert"} /\ job'[t] = job[t]
        BY <1>1, <2>2, <3>2
      <4>2. content'[job[t].file] = content[job[t].file]
        BY <3>2, <4>1 DEF KeepsUploads
      <4>3. content[job[t].file] = job[t].file
        BY <4>1 DEF UploadsAreWhole
      <4> QED
        BY <4>1, <4>2, <4>3
    <3> QED
      BY <3>1, <3>2
  <2> QED
    BY <2>1, <2>2 DEF UploadsAreWhole
<1> QED
  BY <1>2, <1>3 DEF StoredInvariant

(* It touches neither storage nor FILE objects.                              *)
LEMMA StoredRests ==
  ASSUME TypeOK, RowsHaveFiles, "crossed" \notin mishap, UploadsAreWhole,
         NEW s \in Session, NEW label \in Label, NEW j,
         pc' = [pc EXCEPT ![s] = label], job' = [job EXCEPT ![s] = j],
         UNCHANGED <<content, streams>>, label \notin {"receive", "matched", "insert"},
         \A id \in DOMAIN rows' : id \in DOMAIN rows /\ rows'[id] = rows[id]
  PROVE  StoredInvariant'
<1>1. KeepsUploads(s, label, j)
  BY DEF KeepsUploads, RowsHaveFiles
<1> QED
  BY <1>1, StoredMove

(* A FILE object is opened or closed: no upload of another is hit.           *)
LEMMA OthersStayOpen ==
  ASSUME TypeOK, JobsInvariant, UploadsAreWhole, NEW s \in Session,
         \/ FreeStreams # {} /\ \E f, w : Open(f, w)
         \/ Close(s) /\ "crossed" \notin mishap'
  PROVE  \A t \in Session \ {s} :
           pc[t] = "receive" => streams'[job[t].stream] = streams[job[t].stream]
<1> SUFFICES ASSUME NEW t \in Session \ {s}, pc[t] = "receive"
             PROVE  streams'[job[t].stream] = streams[job[t].stream]
  OBVIOUS
<1>1. JobIsSound(t) /\ pc[t] \in Arriving /\ pc[t] \notin Unchosen
  BY DEF JobsInvariant, Arriving, Unchosen, Idle
<1>2. /\ streams[job[t].stream].file = job[t].file
      /\ job[t].stream \in Stream /\ job[t].file # NoFile /\ job[s].file # job[t].file
  <2>1. streams[job[t].stream] = [file |-> job[t].file, writable |-> TRUE]
    BY DEF UploadsAreWhole
  <2>2. streams[job[t].stream].file = job[t].file
    BY <2>1
  <2>3. job[t].stream \in Stream /\ job[t].file # NoFile
    BY <1>1 DEF JobIsSound
  <2>4. job[s].file # job[t].file
    BY <1>1 DEF JobIsSound
  <2> QED
    BY <2>2, <2>3, <2>4
<1>3. CASE FreeStreams # {} /\ \E f, w : Open(f, w)
  <2>1. streams[LowestFree] = Closed
    BY <1>3, LowestIsFree
  <2>2. job[t].stream # LowestFree
    BY <1>2, <2>1 DEF Closed
  <2> QED
    BY <1>2, <1>3, <2>2 DEF Open, TypeOK
<1>4. CASE Close(s) /\ "crossed" \notin mishap'
  <2>1. streams[job[s].stream].file \in {NoFile, job[s].file}
    BY <1>4 DEF Close, Note
  <2>2. job[s].stream # job[t].stream
    BY <1>2, <2>1
  <2> QED
    BY <1>2, <1>4, <2>2 DEF Close, TypeOK
<1> QED
  BY <1>3, <1>4

(* The content of one file changes that is in no row and is no other         *)
(* session's upload.                                                         *)
LEMMA OthersKeepContent ==
  ASSUME TypeOK, RowsHaveFiles, "crossed" \notin mishap, NEW s \in Session, NEW f, NEW c,
         content' = [content EXCEPT ![f] = c], rows' = rows,
         \A id \in DOMAIN rows : rows[id].file # f,
         \A t \in Session \ {s} : pc[t] \in Arriving => job[t].file # f
  PROVE  /\ \A id \in DOMAIN rows' : content'[rows'[id].file] = rows'[id].file
         /\ \A t \in Session \ {s} :
              pc[t] \in {"matched", "insert"} => content'[job[t].file] = content[job[t].file]
<1>1. \A x \in File : x # f => content'[x] = content[x]
  BY DEF TypeOK
<1>2. \A id \in DOMAIN rows : rows[id].file \in File
  BY DEF TypeOK
<1>3. \A x : x # f => content'[x] = content[x]
  BY DEF TypeOK
<1> QED
  BY <1>1, <1>2, <1>3 DEF RowsHaveFiles, Arriving

LEMMA StoredStep == TypeOK /\ JobsInvariant /\ StoredInvariant /\ [Next]_vars => StoredInvariant'
<1> SUFFICES ASSUME TypeOK, JobsInvariant, StoredInvariant, [Next]_vars PROVE StoredInvariant'
  OBVIOUS
<1>1. CASE \E how \in {"exited", "killed"} : Stop(how)
  BY <1>1 DEF Stop, storeVars, tableVars, StoredInvariant, RowsHaveFiles, UploadsAreWhole
<1>2. CASE UNCHANGED <<storeVars, streams, unread, sessionVars, mishap>>
  BY <1>2 DEF storeVars, tableVars, sessionVars, StoredInvariant, RowsHaveFiles, UploadsAreWhole
<1>3. CASE ~ Exit /\ \E s \in Session : SessionStep(s)
  <2>1. PICK s \in Session : SessionStep(s)
    BY <1>3
  <2> SUFFICES ASSUME "crossed" \notin mishap' PROVE StoredInvariant'
    BY DEF StoredInvariant, RowsHaveFiles
  <2>2. "crossed" \notin mishap /\ RowsHaveFiles /\ UploadsAreWhole
    <3>1. mishap \subseteq mishap'
      BY <1>3, <2>1, SessionMoves
    <3> QED
      BY <3>1 DEF StoredInvariant
  <2>3. /\ job = [job EXCEPT ![s] = job[s]] /\ job \in [Session -> Job] /\ job[s] \in Job
        /\ pc \in [Session -> Label] /\ JobIsSound(s) /\ \A t \in Session : JobIsSound(t)
        /\ \A id \in DOMAIN rows : id \in DOMAIN rows /\ rows[id] = rows[id]
    BY DEF TypeOK, Job, Label, JobsInvariant
  <2>4. \A id \in DOMAIN rows : content[rows[id].file] = rows[id].file
    BY <2>2 DEF RowsHaveFiles
  <2>5. pc[s] \in Arriving =>
          /\ job[s].file # NoFile /\ job[s].file \in File /\ job[s].stream \in Stream
          /\ \A id \in DOMAIN rows : rows[id].file # job[s].file
          /\ \A t \in Session \ {s} : job[t].file # job[s].file
    BY <2>3 DEF JobIsSound, Job, Arriving, Unchosen, Idle
  <2> USE DEF storeVars, processVars, tableVars
  <2>6. CASE Arrive(s) \/ RequestList(s) \/ ListCount(s) \/ ListRows(s)
    <3>1. UNCHANGED <<content, streams, rows, job>>
      BY <2>6 DEF Arrive, RequestList, ListCount, ListRows
    <3>2. \E label \in Label \ {"receive", "matched", "insert"} : pc' = [pc EXCEPT ![s] = label]
      BY <2>6 DEF Arrive, RequestList, Request, ListCount, ListRows, Goto, Label, Idle, Statements
    <3> QED
      BY <2>2, <2>3, <3>1, <3>2, StoredRests
  <2>7. CASE \/ Leave(s) \/ FindRow(s) \/ DeleteRow(s) \/ SelectFile(s)
             \/ ReceiveBreaks(s) \/ InfoBreaks(s) \/ AnswerBreaks(s) \/ SendBreaks(s)
    <3>1. UNCHANGED <<content, streams>> /\ \A id \in DOMAIN rows' : id \in DOMAIN rows /\ rows'[id] = rows[id]
      BY <1>3, <2>7 DEF Leave, FindRow, DeleteRow, SelectFile, ReceiveBreaks, InfoBreaks, AnswerBreaks, SendBreaks
    <3>2. \E label \in Label \ {"receive", "matched", "insert"} : pc' = [pc EXCEPT ![s] = label]
      BY <1>3, <2>7 DEF Leave, FindRow, DeleteRow, SelectFile, ReceiveBreaks, InfoBreaks, AnswerBreaks,
                        SendBreaks, HangUp, Goto, Label, Idle, Statements
    <3>3. \E j \in {NoJob, job[s], [job[s] EXCEPT !.file = FilesOf(Owner[s])[job[s].index]]} :
            job' = [job EXCEPT ![s] = j]
      BY <1>3, <2>3, <2>7 DEF Leave, FindRow, DeleteRow, SelectFile, ReceiveBreaks, InfoBreaks, AnswerBreaks,
                              SendBreaks, HangUp
    <3> QED
      BY <2>2, <2>3, <3>1, <3>2, <3>3, StoredRests
  <2>8. CASE \E i \in 1 .. MaxUploads : RequestDownload(s, i) \/ RequestDelete(s, i)
    <3>1. UNCHANGED <<content, streams, rows>>
      BY <2>8 DEF RequestDownload, RequestDelete, Choose
    <3>2. \E label \in Label \ {"receive", "matched", "insert"} : pc' = [pc EXCEPT ![s] = label]
      BY <2>8 DEF RequestDownload, RequestDelete, Choose, Request, Goto, Label, Statements
    <3>3. PICK i \in 1 .. MaxUploads : job' = [job EXCEPT ![s] = [NoJob EXCEPT !.index = i]]
      BY <2>8 DEF RequestDownload, RequestDelete, Choose
    <3> QED
      BY <2>2, <2>3, <3>1, <3>2, <3>3, StoredRests
  <2>9. CASE RequestUpload(s)
    <3> DEFINE f == uploads + 1
               j == [[NoJob EXCEPT !.file = f] EXCEPT !.stream = LowestFree]
    <3>1. FreeStreams # {}
      BY <1>3, <2>9 DEF RequestUpload
    <3>2. /\ pc' = [pc EXCEPT ![s] = "receive"] /\ rows' = rows
          /\ job' = [job EXCEPT ![s] = j] /\ Open(f, TRUE) /\ content' = [content EXCEPT ![f] = Damaged]
      BY <2>9, <3>1 DEF RequestUpload, Request, Goto
    <3>3. j.file = f /\ j.stream = LowestFree
      BY DEF NoJob
    <3>4. /\ \A id \in DOMAIN rows : rows[id].file # f
          /\ \A t \in Session \ {s} : job[t].file # f
      BY <2>3, UploadsAssumption DEF TypeOK, JobsInvariant, JobIsSound, File, NoFile
    <3> HIDE DEF j, f
    <3>5. /\ \A id \in DOMAIN rows' : content'[rows'[id].file] = rows'[id].file
          /\ \A t \in Session \ {s} :
               pc[t] \in {"matched", "insert"} => content'[job[t].file] = content[job[t].file]
      BY <2>2, <3>2, <3>4, OthersKeepContent
    <3>6. \A t \in Session \ {s} :
            pc[t] = "receive" => streams'[job[t].stream] = streams[job[t].stream]
      BY <2>2, <3>1, <3>2, OthersStayOpen
    <3>7. streams'[j.stream] = [file |-> j.file, writable |-> TRUE]
      <4>1. LowestFree \in Stream
        BY <3>1, LowestIsFree
      <4> QED
        BY <3>2, <3>3, <4>1 DEF Open, TypeOK
    <3>8. KeepsUploads(s, "receive", j)
      BY <3>5, <3>6, <3>7 DEF KeepsUploads
    <3> QED
      BY <2>2, <3>2, <3>8, StoredMove
  <2>10. CASE ReceiveFile(s)
    <3>1. /\ pc[s] = "receive" /\ Close(s) /\ job' = job /\ rows' = rows
          /\ streams[job[s].stream] = [file |-> job[s].file, writable |-> TRUE]
      BY <2>2, <2>10 DEF ReceiveFile, UploadsAreWhole
    <3>2. PICK arrived \in {job[s].file, Damaged} :
            /\ content' = [content EXCEPT ![job[s].file] = arrived]
            /\ Goto(s, IF arrived = job[s].file THEN "matched" ELSE "mismatched")
      BY <2>10, <3>1 DEF ReceiveFile
    <3>3. pc[s] \in Arriving
      BY <3>1 DEF Arriving
    <3>4. /\ \A id \in DOMAIN rows' : content'[rows'[id].file] = rows'[id].file
          /\ \A t \in Session \ {s} :
               pc[t] \in {"matched", "insert"} => content'[job[t].file] = content[job[t].file]
      BY <2>2, <2>5, <3>1, <3>2, <3>3, OthersKeepContent
    <3>5. \A t \in Session \ {s} :
            pc[t] = "receive" => streams'[job[t].stream] = streams[job[t].stream]
      BY <2>2, <3>1, OthersStayOpen
    <3>6. CASE arrived = job[s].file
      <4>1. content'[job[s].file] = job[s].file
        BY <2>5, <3>2, <3>3, <3>6 DEF TypeOK
      <4>2. KeepsUploads(s, "matched", job[s])
        BY <3>4, <3>5, <4>1 DEF KeepsUploads
      <4>3. pc' = [pc EXCEPT ![s] = "matched"]
        BY <3>2, <3>6 DEF Goto
      <4> QED
        BY <2>2, <2>3, <3>1, <4>2, <4>3, StoredMove
    <3>7. CASE arrived # job[s].file
      <4>1. KeepsUploads(s, "mismatched", job[s])
        BY <3>4, <3>5 DEF KeepsUploads
      <4>2. pc' = [pc EXCEPT ![s] = "mismatched"]
        BY <3>2, <3>7 DEF Goto
      <4> QED
        BY <2>2, <2>3, <3>1, <4>1, <4>2, StoredMove
    <3> QED
      BY <3>6, <3>7
  <2>11. CASE CompareHash(s) /\ pc[s] = "matched"
    <3>1. /\ pc' = [pc EXCEPT ![s] = "insert"] /\ UNCHANGED <<rows, content, streams, job>>
      BY <2>11 DEF CompareHash, Goto
    <3>2. KeepsUploads(s, "insert", job[s])
      BY <2>2, <2>4, <2>11, <3>1 DEF KeepsUploads, UploadsAreWhole
    <3> QED
      BY <2>2, <2>3, <3>1, <3>2, StoredMove
  <2>12. CASE (CompareHash(s) /\ pc[s] # "matched") \/ RemoveFile(s)
    <3>1. pc[s] \in {"mismatched", "remove"} /\ rows' = rows /\ streams' = streams
          /\ pc' = [pc EXCEPT ![s] = "list"] /\ job' = [job EXCEPT ![s] = NoJob]
      BY <2>12 DEF CompareHash, RemoveFile, Done, Goto
    <3> DEFINE c == IF IsOpen(job[s].file) THEN content[job[s].file] ELSE NoFile
    <3>5. content' = [content EXCEPT ![job[s].file] = c]
      BY <2>12 DEF CompareHash, RemoveFile, RemoveStored
    <3> HIDE DEF c
    <3>2. /\ \A id \in DOMAIN rows : rows[id].file # job[s].file
          /\ \A t \in Session \ {s} : pc[t] \in Arriving => job[t].file # job[s].file
      BY <2>3, <3>1 DEF JobIsSound, Arriving
    <3>3. /\ \A id \in DOMAIN rows' : content'[rows'[id].file] = rows'[id].file
          /\ \A t \in Session \ {s} :
               pc[t] \in {"matched", "insert"} => content'[job[t].file] = content[job[t].file]
      BY <2>2, <3>1, <3>2, <3>5, OthersKeepContent
    <3>4. KeepsUploads(s, "list", NoJob)
      BY <3>1, <3>3 DEF KeepsUploads
    <3> QED
      BY <2>2, <3>1, <3>4, StoredMove
  <2>13. CASE InsertRow(s)
    <3>1. /\ pc[s] = "insert" /\ pc' = [pc EXCEPT ![s] = "answer"] /\ UNCHANGED <<content, streams, job>>
          /\ \A id \in DOMAIN rows' :
               (id \in DOMAIN rows /\ rows'[id] = rows[id]) \/ rows'[id].file = job[s].file
      BY <2>13 DEF InsertRow, Insert, Goto
    <3>2. content[job[s].file] = job[s].file
      BY <2>2, <3>1 DEF UploadsAreWhole
    <3>3. KeepsUploads(s, "answer", job[s])
      BY <2>4, <3>1, <3>2 DEF KeepsUploads
    <3> QED
      BY <2>2, <2>3, <3>1, <3>3, StoredMove
  <2>14. CASE AnswerUpload(s) \/ SendFile(s)
    <3>1. /\ Close(s) /\ pc' = [pc EXCEPT ![s] = "list"] /\ job' = [job EXCEPT ![s] = NoJob]
          /\ UNCHANGED <<rows, content>>
      BY <2>14 DEF AnswerUpload, SendFile, Done, Goto
    <3>2. \A t \in Session \ {s} :
            pc[t] = "receive" => streams'[job[t].stream] = streams[job[t].stream]
      BY <2>2, <3>1, OthersStayOpen
    <3>3. KeepsUploads(s, "list", NoJob)
      BY <2>4, <3>1, <3>2 DEF KeepsUploads
    <3> QED
      BY <2>2, <3>1, <3>3, StoredMove
  <2>15. CASE OpenFile(s)
    <3> DEFINE j == [job[s] EXCEPT !.stream = LowestFree]
    <3>1. FreeStreams # {} /\ pc[s] = "open"
      BY <1>3, <2>15 DEF OpenFile
    <3>2. /\ pc' = [pc EXCEPT ![s] = "send"] /\ UNCHANGED <<rows, content>>
          /\ job' = [job EXCEPT ![s].stream = LowestFree] /\ Open(job[s].file, FALSE)
      BY <1>3, <2>15 DEF OpenFile, Goto
    <3>3. job' = [job EXCEPT ![s] = j]
      BY <2>3, <3>2 DEF Job
    <3>4. \A t \in Session \ {s} :
            pc[t] = "receive" => streams'[job[t].stream] = streams[job[t].stream]
      BY <2>2, <3>1, <3>2, OthersStayOpen
    <3> HIDE DEF j
    <3>5. KeepsUploads(s, "send", j)
      BY <2>4, <3>2, <3>4 DEF KeepsUploads
    <3> QED
      BY <2>2, <3>2, <3>3, <3>5, StoredMove
  <2> QED
    BY <2>1, <2>6, <2>7, <2>8, <2>9, <2>10, <2>11, <2>12, <2>13, <2>14, <2>15
       DEF SessionStep, UploadStep, DownloadStep, DeleteStep
<1> QED
  BY <1>1, <1>2, <1>3, StepKinds

LEMMA StoredInit == Init => StoredInvariant
BY DEF Init, StoredInvariant, RowsHaveFiles, UploadsAreWhole

(* A row's file is in the storage, whole, for any number of sessions and     *)
(* uploads, wherever the server is stopped or a transfer breaks off, as long *)
(* as no FILE object was closed under another session's hands.               *)
THEOREM RowsHaveFilesAlways == Spec => []RowsHaveFiles
<1>1. Init => TypeOK /\ JobsInvariant /\ StoredInvariant
  BY CoreInit, StoredInit
<1>2. TypeOK /\ JobsInvariant /\ StoredInvariant /\ [Next]_vars
        => (TypeOK /\ JobsInvariant /\ StoredInvariant)'
  BY TypeStep, JobsStep, StoredStep
<1>3. StoredInvariant => RowsHaveFiles
  BY DEF StoredInvariant
<1> QED
  BY <1>1, <1>2, <1>3, PTL DEF Spec

-----------------------------------------------------------------------------
(* LoneInvariant *)

(* The list of a user depends on its own rows only.                          *)
LEMMA FilesOfOthersStay ==
  ASSUME TypeOK, NEW u \in User,
         \A id \in DOMAIN rows : rows[id].owner = u => id \in DOMAIN rows' /\ rows'[id] = rows[id],
         \A id \in DOMAIN rows' : rows'[id].owner = u => id \in DOMAIN rows /\ rows'[id] = rows[id]
  PROVE  OwnRows(u)' = OwnRows(u) /\ FilesOf(u)' = FilesOf(u)
<1> DEFINE own == OwnRows(u)
<1>1. OwnRows(u)' = own
  <2>1. \A id : id \in DOMAIN rows' /\ rows'[id].owner = u <=> id \in DOMAIN rows /\ rows[id].owner = u
    OBVIOUS
  <2> QED
    BY <2>1 DEF OwnRows
<1>2. lastId \in Nat /\ own \in SUBSET (1 .. lastId) /\ \A id \in own : rows'[id] = rows[id]
  BY DEF TypeOK, OwnRows
<1> HIDE DEF own
<1>3. \A k \in 1 .. Cardinality(own) : NthId(own, k) \in own
  BY <1>2, NthIsMember
<1>4. \A k \in 1 .. Cardinality(own) : rows'[NthId(own, k)].file = rows[NthId(own, k)].file
  BY <1>2, <1>3
<1>5. /\ FilesOf(u) = [k \in 1 .. Cardinality(own) |-> rows[NthId(own, k)].file]
      /\ FilesOf(u)' = [k \in 1 .. Cardinality(own) |-> rows'[NthId(own, k)].file]
  BY <1>1 DEF FilesOf, own
<1>6. FilesOf(u)' = FilesOf(u)
  BY <1>4, <1>5
<1> QED
  BY <1>1, <1>6 DEF own

(* What a session's step has to keep of its own list and file, and of those  *)
(* of the others.                                                            *)
SeenAfter(s, label, j) ==
  /\ label \in {"rows", "menu", "select", "find"} =>
       seen'[s].count = Cardinality(OwnRows(Owner[s])')
  /\ label \in {"menu", "select", "find"} => seen'[s].files = FilesOf(Owner[s])'
  /\ label \in {"answer", "open", "send", "delete"} =>
       \E id \in DOMAIN rows' : rows'[id].file = j.file
  /\ label \in {"open", "send", "delete", "remove"} => j.file = seen'[s].files[j.index]
  /\ j.file # NoFile => \A t \in Session \ {s} : job[t].file # j.file

OthersAfter(s) ==
  /\ \A t \in Session \ {s} : seen'[t] = seen[t]
  /\ \/ rows' = rows
     \/ /\ pc[s] # "away"
        /\ \A u \in User \ {Owner[s]} : OwnRows(u)' = OwnRows(u) /\ FilesOf(u)' = FilesOf(u)
        /\ \A id \in DOMAIN rows : rows[id].file # job[s].file =>
             id \in DOMAIN rows' /\ rows'[id] = rows[id]

LEMMA LoneMove ==
  ASSUME TypeOK, JobsInvariant, LoneInvariant, "shared" \notin mishap, "shared" \notin mishap',
         NEW s \in Session, NEW label \in Label, NEW j,
         pc' = [pc EXCEPT ![s] = label], job' = [job EXCEPT ![s] = j],
         \/ pc[s] # "away"
         \/ \A t \in Session \ {s} : Owner[t] = Owner[s] => pc[t] = "away",
         SeenAfter(s, label, j), OthersAfter(s)
  PROVE  LoneInvariant'
<1>1. /\ pc'[s] = label /\ job'[s] = j
      /\ \A t \in Session \ {s} : pc'[t] = pc[t] /\ job'[t] = job[t] /\ seen'[t] = seen[t]
  BY DEF TypeOK, OthersAfter
<1>2. /\ OneSession /\ \A t \in Session : SeenIsThere(t)
      /\ \A r, t \in Session : r = t \/ job[r].file = NoFile \/ job[t].file # job[r].file
      /\ ActsOnWhatWasShown
  BY DEF LoneInvariant
<1>3. OneSession'
  BY <1>1, <1>2 DEF OneSession
<1>4. ActsOnWhatWasShown'
  BY <1>1, <1>2 DEF ActsOnWhatWasShown, SeenAfter
<1>5. \A r, t \in Session : r = t \/ job'[r].file = NoFile \/ job'[t].file # job'[r].file
  BY <1>1, <1>2 DEF SeenAfter
<1>6. SeenIsThere(s)'
  BY <1>1 DEF SeenIsThere, SeenAfter
<1>7. ASSUME NEW t \in Session \ {s} PROVE SeenIsThere(t)'
  <2>1. SeenIsThere(t) /\ pc'[t] = pc[t] /\ job'[t] = job[t] /\ seen'[t] = seen[t]
    BY <1>1, <1>2
  <2>2. CASE rows' = rows
    BY <2>1, <2>2 DEF SeenIsThere, OwnRows, FilesOf
  <2>3. CASE pc[t] = "away"
    BY <2>1, <2>3 DEF SeenIsThere
  <2>4. CASE rows' # rows /\ pc[t] # "away"
    <3>1. Owner[t] \in User \ {Owner[s]}
      BY <1>2, <2>4, OwnerAssumption DEF OneSession, OthersAfter
    <3>2. OwnRows(Owner[t])' = OwnRows(Owner[t]) /\ FilesOf(Owner[t])' = FilesOf(Owner[t])
      BY <2>4, <3>1 DEF OthersAfter
    <3>3. ASSUME pc[t] \in {"answer", "open", "send", "delete"}
          PROVE  \E id \in DOMAIN rows' : rows'[id].file = job[t].file
      <4>1. PICK id \in DOMAIN rows : rows[id].file = job[t].file
        BY <2>1, <3>3 DEF SeenIsThere
      <4>2. job[t].file # NoFile
        BY <4>1 DEF TypeOK, File, NoFile
      <4>3. rows[id].file # job[s].file
        BY <1>2, <4>1, <4>2
      <4> QED
        BY <2>4, <4>1, <4>3 DEF OthersAfter
    <3> QED
      BY <2>1, <3>2, <3>3 DEF SeenIsThere
  <2> QED
    BY <2>2, <2>3, <2>4
<1> QED
  BY <1>3, <1>4, <1>5, <1>6, <1>7 DEF LoneInvariant

(* It neither changes the table nor takes up a file.                         *)
LEMMA LoneRests ==
  ASSUME TypeOK, JobsInvariant, LoneInvariant, "shared" \notin mishap, "shared" \notin mishap',
         NEW s \in Session, NEW label \in Label, NEW j,
         pc' = [pc EXCEPT ![s] = label], job' = [job EXCEPT ![s] = j],
         \/ pc[s] # "away"
         \/ \A t \in Session \ {s} : Owner[t] = Owner[s] => pc[t] = "away",
         rows' = rows, \A t \in Session \ {s} : seen'[t] = seen[t],
         j.file = NoFile,
         label \in {"away", "list", "count"}
  PROVE  LoneInvariant'
<1>1. SeenAfter(s, label, j) /\ OthersAfter(s)
  BY DEF SeenAfter, OthersAfter
<1> QED
  BY <1>1, LoneMove

(* It goes on with its file, which is no other session's.                    *)
LEMMA LoneGoesOn ==
  ASSUME TypeOK, JobsInvariant, LoneInvariant, "shared" \notin mishap, "shared" \notin mishap',
         NEW s \in Session, NEW label \in Label, NEW j,
         pc' = [pc EXCEPT ![s] = label], job' = [job EXCEPT ![s] = j],
         pc[s] \notin Unchosen, j.file = job[s].file, seen' = seen,
         OthersAfter(s), label \notin Unchosen,
         label \in {"answer", "open", "send", "delete"} =>
           \E id \in DOMAIN rows' : rows'[id].file = job[s].file,
         label \in {"open", "send", "delete", "remove"} =>
           pc[s] \in {"open", "send", "delete", "remove"} /\ j.index = job[s].index
  PROVE  LoneInvariant'
<1>1. pc[s] # "away" /\ label \notin {"rows", "menu", "select", "find"}
  BY DEF Unchosen, Idle
<1>2. job[s].file # NoFile => \A t \in Session \ {s} : job[t].file # job[s].file
  BY DEF LoneInvariant
<1>3. label \in {"open", "send", "delete", "remove"} => j.file = seen[s].files[j.index]
  BY DEF LoneInvariant, ActsOnWhatWasShown
<1>4. SeenAfter(s, label, j)
  BY <1>1, <1>2, <1>3 DEF SeenAfter
<1> QED
  BY <1>1, <1>4, LoneMove

(* It chooses the file at the place it was shown: no other session works on  *)
(* it, as the row is of its own user, who has no other session.              *)
LEMMA LoneChooses ==
  ASSUME TypeOK, JobsInvariant, LoneInvariant, "shared" \notin mishap, "shared" \notin mishap',
         NEW s \in Session, NEW label \in {"open", "delete"},
         pc[s] \in {"select", "find"}, ~ (job[s].index > Len(FilesOf(Owner[s]))),
         pc' = [pc EXCEPT ![s] = label],
         job' = [job EXCEPT ![s].file = FilesOf(Owner[s])[job[s].index]],
         rows' = rows, seen' = seen
  PROVE  LoneInvariant'
<1> DEFINE file == FilesOf(Owner[s])[job[s].index]
           j == [job[s] EXCEPT !.file = file]
<1>1. job' = [job EXCEPT ![s] = j] /\ j.file = file /\ j.index = job[s].index
  BY DEF TypeOK
<1>2. job[s].index \in 1 .. Len(FilesOf(Owner[s])) /\ Owner[s] \in User
  <2>1. job[s].index \in 1 .. seen[s].count /\ seen[s].count \in Nat
    BY UploadsAssumption DEF JobsInvariant, JobIsSound, TypeOK
  <2>2. Owner[s] \in User
    BY OwnerAssumption
  <2>3. Len(FilesOf(Owner[s])) \in 0 .. MaxUploads
    BY <2>2, FilesAreRows
  <2> QED
    BY <2>1, <2>2, <2>3, UploadsAssumption
<1>3. PICK id \in DOMAIN rows : rows[id].owner = Owner[s] /\ rows[id].file = file
  BY <1>2, FilesAreRows
<1>4. file = seen[s].files[job[s].index]
  BY DEF LoneInvariant, SeenIsThere
<1> HIDE DEF file, j
<1>5. ASSUME NEW t \in Session \ {s}
      PROVE  job[t].file # file
  <2> SUFFICES ASSUME job[t].file = file PROVE FALSE
    OBVIOUS
  <2>1. Owner[t] = Owner[s]
    BY <1>3 DEF JobsInvariant, JobIsSound
  <2>2. pc[t] = "away"
    BY <2>1 DEF LoneInvariant, OneSession
  <2>3. job[t].file = NoFile
    BY <2>2 DEF JobsInvariant, JobIsSound, Unchosen, Idle
  <2>4. rows[id].file # NoFile
    BY DEF TypeOK, File, NoFile
  <2> QED
    BY <1>3, <2>3, <2>4
<1>6. SeenAfter(s, label, j)
  BY <1>1, <1>3, <1>4, <1>5 DEF SeenAfter
<1>7. OthersAfter(s) /\ pc[s] # "away" /\ label \in Label
  BY DEF OthersAfter, Label, Statements
<1> QED
  BY <1>1, <1>6, <1>7, LoneMove

LEMMA LoneStep == TypeOK /\ JobsInvariant /\ LoneInvariant /\ [Next]_vars => LoneInvariant'
<1> SUFFICES ASSUME TypeOK, JobsInvariant, LoneInvariant, [Next]_vars PROVE LoneInvariant'
  OBVIOUS
<1>1. CASE \E how \in {"exited", "killed"} : Stop(how)
  BY <1>1 DEF Stop, NoJob, LoneInvariant, ActsOnWhatWasShown, OneSession, SeenIsThere
<1>2. CASE UNCHANGED <<storeVars, streams, unread, sessionVars, mishap>>
  BY <1>2 DEF storeVars, tableVars, sessionVars, LoneInvariant, ActsOnWhatWasShown, OneSession,
              SeenIsThere, OwnRows, FilesOf
<1>3. CASE ~ Exit /\ \E s \in Session : SessionStep(s)
  <2>1. PICK s \in Session : SessionStep(s)
    BY <1>3
  <2> SUFFICES ASSUME "shared" \notin mishap' PROVE LoneInvariant'
    BY DEF LoneInvariant, ActsOnWhatWasShown
  <2>2. "shared" \notin mishap
    BY <1>3, <2>1, SessionMoves
  <2>3. /\ job = [job EXCEPT ![s] = job[s]] /\ job \in [Session -> Job] /\ job[s] \in Job
        /\ pc \in [Session -> Label] /\ JobIsSound(s)
        /\ NoJob.file = NoFile /\ Owner[s] \in User
    BY OwnerAssumption DEF TypeOK, Job, Label, JobsInvariant, NoJob
  <2>4. pc[s] \in Unchosen <=> job[s].file = NoFile
    BY <2>3 DEF JobIsSound
  <2>5. SeenIsThere(s)
    BY <2>2 DEF LoneInvariant
  <2>6. rows' = rows /\ (\A t \in Session \ {s} : seen'[t] = seen[t]) => OthersAfter(s)
    BY DEF OthersAfter
  <2> USE DEF storeVars, processVars, tableVars
  <2>7. CASE Arrive(s)
    <3>1. \A t \in Session \ {s} : Owner[t] = Owner[s] => pc[t] = "away"
      BY <2>7 DEF Arrive, Note
    <3>2. pc' = [pc EXCEPT ![s] = "list"] /\ job[s].file = NoFile /\ UNCHANGED <<rows, job, seen>>
      BY <2>4, <2>7 DEF Arrive, Goto, Unchosen, Idle
    <3> QED
      BY <2>2, <2>3, <3>1, <3>2, LoneRests DEF Label, Idle
  <2>8. CASE Leave(s) \/ ReceiveBreaks(s) \/ InfoBreaks(s) \/ AnswerBreaks(s) \/ SendBreaks(s)
    <3>1. /\ pc[s] # "away" /\ pc' = [pc EXCEPT ![s] = "away"] /\ job' = [job EXCEPT ![s] = NoJob]
          /\ rows' = rows /\ \A t \in Session \ {s} : seen'[t] = seen[t]
      BY <2>8 DEF Leave, ReceiveBreaks, InfoBreaks, AnswerBreaks, SendBreaks, HangUp, Goto, TypeOK
    <3> QED
      BY <2>2, <2>3, <3>1, LoneRests DEF Label, Idle
  <2>9. CASE RequestList(s)
    <3>1. /\ pc[s] # "away" /\ pc' = [pc EXCEPT ![s] = "count"] /\ job[s].file = NoFile
          /\ UNCHANGED <<rows, job, seen>>
      BY <2>4, <2>9 DEF RequestList, Request, Goto, Unchosen, Idle
    <3> QED
      BY <2>2, <2>3, <3>1, LoneRests DEF Label, Statements
  <2>10. CASE RequestUpload(s)
    <3> DEFINE f == uploads + 1
               j == [[NoJob EXCEPT !.file = f] EXCEPT !.stream = LowestFree]
    <3>1. FreeStreams # {}
      BY <1>3, <2>10 DEF RequestUpload
    <3>2. /\ pc[s] # "away" /\ pc' = [pc EXCEPT ![s] = "receive"] /\ rows' = rows
          /\ job' = [job EXCEPT ![s] = j] /\ seen' = seen
      BY <2>10, <3>1 DEF RequestUpload, Request, Goto
    <3>3. j.file = f
      BY DEF NoJob
    <3>4. \A t \in Session \ {s} : job[t].file # f
      BY UploadsAssumption DEF TypeOK, JobsInvariant, JobIsSound, File, NoFile
    <3> HIDE DEF j, f
    <3>5. SeenAfter(s, "receive", j)
      BY <3>3, <3>4 DEF SeenAfter
    <3>6. "receive" \in Label
      BY DEF Label
    <3> QED
      BY <2>2, <2>6, <3>2, <3>5, <3>6, LoneMove
  <2>11. CASE \E i \in 1 .. MaxUploads : RequestDownload(s, i) \/ RequestDelete(s, i)
    <3>1. pc[s] = "menu" /\ seen' = seen /\ rows' = rows
      BY <2>11 DEF RequestDownload, RequestDelete, Choose
    <3>2. PICK label \in {"select", "find"} : pc' = [pc EXCEPT ![s] = label]
      BY <2>11 DEF RequestDownload, RequestDelete, Choose, Request, Goto
    <3>3. PICK i \in 1 .. MaxUploads : job' = [job EXCEPT ![s] = [NoJob EXCEPT !.index = i]]
      BY <2>11 DEF RequestDownload, RequestDelete, Choose
    <3> DEFINE j == [NoJob EXCEPT !.index = i]
    <3>4. j.file = NoFile
      BY DEF NoJob
    <3> HIDE DEF j
    <3>5. OwnRows(Owner[s])' = OwnRows(Owner[s]) /\ FilesOf(Owner[s])' = FilesOf(Owner[s])
      BY <3>1 DEF OwnRows, FilesOf
    <3>6. SeenAfter(s, label, j)
      BY <2>5, <3>1, <3>4, <3>5 DEF SeenAfter, SeenIsThere
    <3>7. label \in Label /\ pc[s] # "away"
      BY <3>1 DEF Label, Statements
    <3> QED
      BY <2>2, <2>6, <3>1, <3>2, <3>3, <3>6, <3>7, LoneMove DEF j
  <2>12. /\ FilesOf(Owner[s]) \in Seq(File) /\ Len(FilesOf(Owner[s])) = Cardinality(OwnRows(Owner[s]))
         /\ Len(FilesOf(Owner[s])) = 0 => FilesOf(Owner[s]) = <<>>
    <3>1. FilesOf(Owner[s]) \in Seq(File) /\ Len(FilesOf(Owner[s])) = Cardinality(OwnRows(Owner[s]))
      BY <2>3, FilesAreRows
    <3> QED
      BY <3>1
  <2>13. CASE ListCount(s)
    <3> DEFINE n == Len(FilesOf(Owner[s]))
    <3>1. /\ pc[s] = "count" /\ rows' = rows /\ job' = job
          /\ seen' = [seen EXCEPT ![s] = [count |-> n, files |-> <<>>]]
          /\ pc' = [pc EXCEPT ![s] = IF n = 0 THEN "menu" ELSE "rows"]
      BY <2>13 DEF ListCount, Goto
    <3>2. /\ seen'[s].count = n /\ seen'[s].files = <<>> /\ \A t \in Session \ {s} : seen'[t] = seen[t]
      BY <3>1 DEF TypeOK
    <3>3. OwnRows(Owner[s])' = OwnRows(Owner[s]) /\ FilesOf(Owner[s])' = FilesOf(Owner[s])
      BY <3>1 DEF OwnRows, FilesOf
    <3>4. job[s].file = NoFile /\ pc[s] # "away"
      BY <2>4, <3>1 DEF Unchosen
    <3>5. PICK label \in {"menu", "rows"} : pc' = [pc EXCEPT ![s] = label] /\ (label = "menu" => n = 0)
      BY <3>1
    <3>6. SeenAfter(s, label, job[s])
      BY <2>12, <3>2, <3>3, <3>4, <3>5 DEF SeenAfter
    <3>7. label \in Label
      BY DEF Label, Idle, Statements
    <3> QED
      BY <2>2, <2>3, <2>6, <3>1, <3>2, <3>4, <3>5, <3>6, <3>7, LoneMove
  <2>14. CASE ListRows(s)
    <3>1. /\ pc[s] = "rows" /\ rows' = rows /\ job' = job
          /\ seen' = [seen EXCEPT ![s].files = FilesOf(Owner[s])]
          /\ pc' = [pc EXCEPT ![s] = "menu"]
      BY <2>14 DEF ListRows, Goto
    <3>2. /\ seen'[s].count = seen[s].count /\ seen'[s].files = FilesOf(Owner[s])
          /\ \A t \in Session \ {s} : seen'[t] = seen[t]
      BY <3>1 DEF TypeOK
    <3>3. OwnRows(Owner[s])' = OwnRows(Owner[s]) /\ FilesOf(Owner[s])' = FilesOf(Owner[s])
      BY <3>1 DEF OwnRows, FilesOf
    <3>4. job[s].file = NoFile /\ pc[s] # "away"
      BY <2>4, <3>1 DEF Unchosen
    <3>5. SeenAfter(s, "menu", job[s])
      BY <2>5, <3>1, <3>2, <3>3, <3>4 DEF SeenAfter, SeenIsThere
    <3>6. "menu" \in Label
      BY DEF Label, Idle
    <3> QED
      BY <2>2, <2>3, <2>6, <3>1, <3>2, <3>4, <3>5, <3>6, LoneMove
  <2>15. CASE ReceiveFile(s)
    <3>1. pc[s] = "receive" /\ rows' = rows /\ job' = job /\ seen' = seen
      BY <2>15 DEF ReceiveFile
    <3>2. PICK label \in {"matched", "mismatched"} : pc' = [pc EXCEPT ![s] = label]
      BY <2>15 DEF ReceiveFile, Goto
    <3>3. pc[s] \notin Unchosen /\ label \notin Unchosen /\ label \in Label
      BY <3>1 DEF Unchosen, Idle, Label
    <3> QED
      BY <2>2, <2>3, <2>6, <3>1, <3>2, <3>3, LoneGoesOn
  <2>16. CASE CompareHash(s) /\ pc[s] = "matched"
    <3>1. pc' = [pc EXCEPT ![s] = "insert"] /\ rows' = rows /\ job' = job /\ seen' = seen
      BY <2>16 DEF CompareHash, Goto
    <3>2. pc[s] \notin Unchosen /\ "insert" \notin Unchosen /\ "insert" \in Label
      BY <2>16 DEF Unchosen, Idle, Label, Statements
    <3> QED
      BY <2>2, <2>3, <2>6, <3>1, <3>2, LoneGoesOn
  <2>17. CASE (CompareHash(s) /\ pc[s] # "matched") \/ RemoveFile(s) \/ AnswerUpload(s) \/ SendFile(s)
    <3>1. /\ pc[s] # "away" /\ pc' = [pc EXCEPT ![s] = "list"] /\ job' = [job EXCEPT ![s] = NoJob]
          /\ rows' = rows /\ \A t \in Session \ {s} : seen'[t] = seen[t]
      BY <2>17 DEF CompareHash, RemoveFile, AnswerUpload, SendFile, Done, Goto
    <3> QED
      BY <2>2, <2>3, <3>1, LoneRests DEF Label, Idle
  <2>18. CASE InsertRow(s)
    <3>1. /\ pc[s] = "insert" /\ pc' = [pc EXCEPT ![s] = "answer"] /\ job' = job /\ seen' = seen
          /\ lastId' = lastId + 1
          /\ rows' = [id \in DOMAIN rows \cup {lastId'} |->
                       IF id = lastId' THEN [owner |-> Owner[s], file |-> job[s].file] ELSE rows[id]]
      BY <2>18 DEF InsertRow, Insert, Goto
    <3>2. lastId' \notin DOMAIN rows
      BY <3>1 DEF TypeOK
    <3>3. /\ lastId' \in DOMAIN rows'
          /\ rows'[lastId'].owner = Owner[s] /\ rows'[lastId'].file = job[s].file
      BY <3>1
    <3>4. \A id \in DOMAIN rows : id \in DOMAIN rows' /\ rows'[id] = rows[id]
      BY <3>1, <3>2
    <3>5. \A id \in DOMAIN rows' : id = lastId' \/ (id \in DOMAIN rows /\ rows'[id] = rows[id])
      <4>1. DOMAIN rows' = DOMAIN rows \cup {lastId'}
        BY <3>1
      <4> QED
        BY <3>4, <4>1
    <3>6. \A u \in User \ {Owner[s]} : OwnRows(u)' = OwnRows(u) /\ FilesOf(u)' = FilesOf(u)
      <4> SUFFICES ASSUME NEW u \in User \ {Owner[s]}
                   PROVE  OwnRows(u)' = OwnRows(u) /\ FilesOf(u)' = FilesOf(u)
        OBVIOUS
      <4>1. \A id \in DOMAIN rows' : rows'[id].owner = u => id \in DOMAIN rows /\ rows'[id] = rows[id]
        BY <3>3, <3>5
      <4>2. \A id \in DOMAIN rows : rows[id].owner = u => id \in DOMAIN rows' /\ rows'[id] = rows[id]
        BY <3>4
      <4> QED
        BY <4>1, <4>2, FilesOfOthersStay
    <3>7. OthersAfter(s)
      BY <3>1, <3>4, <3>6 DEF OthersAfter
    <3>8. pc[s] \notin Unchosen /\ "answer" \notin Unchosen /\ "answer" \in Label
      BY <3>1 DEF Unchosen, Idle, Label
    <3>9. \E id \in DOMAIN rows' : rows'[id].file = job[s].file
      BY <3>3
    <3> QED
      BY <2>2, <2>3, <3>1, <3>7, <3>8, <3>9, LoneGoesOn
  <2>19. CASE SelectFile(s)
    BY <1>3, <2>2, <2>19, LoneChooses DEF SelectFile, Goto
  <2>20. CASE FindRow(s)
    BY <1>3, <2>2, <2>20, LoneChooses DEF FindRow, Goto
  <2>21. CASE OpenFile(s)
    <3> DEFINE j == [job[s] EXCEPT !.stream = LowestFree]
    <3>1. /\ pc[s] = "open" /\ pc' = [pc EXCEPT ![s] = "send"] /\ rows' = rows /\ seen' = seen
          /\ job' = [job EXCEPT ![s].stream = LowestFree]
      BY <1>3, <2>21 DEF OpenFile, Goto
    <3>2. job' = [job EXCEPT ![s] = j] /\ j.file = job[s].file /\ j.index = job[s].index
      BY <2>3, <3>1 DEF Job
    <3> HIDE DEF j
    <3>3. pc[s] \notin Unchosen /\ "send" \notin Unchosen /\ "send" \in Label
      BY <3>1 DEF Unchosen, Idle, Label
    <3>4. \E id \in DOMAIN rows' : rows'[id].file = job[s].file
      BY <2>5, <3>1 DEF SeenIsThere
    <3> QED
      BY <2>2, <2>3, <2>6, <3>1, <3>2, <3>3, <3>4, LoneGoesOn
  <2>22. CASE DeleteRow(s)
    <3>1. /\ pc[s] = "delete" /\ pc' = [pc EXCEPT ![s] = "remove"] /\ job' = job /\ seen' = seen
          /\ rows' = [id \in {i \in DOMAIN rows : rows[i].file # job[s].file} |-> rows[id]]
      BY <2>22 DEF DeleteRow, Goto
    <3>2. \A id \in DOMAIN rows : rows[id].file # job[s].file => id \in DOMAIN rows' /\ rows'[id] = rows[id]
      BY <3>1
    <3>3. \A id \in DOMAIN rows' : id \in DOMAIN rows /\ rows'[id] = rows[id]
      BY <3>1
    <3>4. \A id \in DOMAIN rows : rows[id].owner # Owner[s] => id \in DOMAIN rows' /\ rows'[id] = rows[id]
      BY <2>3, <3>2 DEF JobIsSound
    <3>5. \A u \in User \ {Owner[s]} : OwnRows(u)' = OwnRows(u) /\ FilesOf(u)' = FilesOf(u)
      BY <3>3, <3>4, FilesOfOthersStay
    <3>6. OthersAfter(s)
      BY <3>1, <3>2, <3>5 DEF OthersAfter
    <3>7. pc[s] \notin Unchosen /\ "remove" \notin Unchosen /\ "remove" \in Label
      BY <3>1 DEF Unchosen, Idle, Label
    <3> QED
      BY <2>2, <2>3, <3>1, <3>6, <3>7, LoneGoesOn
  <2> QED
    BY <2>1, <2>7, <2>8, <2>9, <2>10, <2>11, <2>13, <2>14, <2>15, <2>16, <2>17, <2>18, <2>19, <2>20,
       <2>21, <2>22 DEF SessionStep, UploadStep, DownloadStep, DeleteStep
<1> QED
  BY <1>1, <1>2, <1>3, StepKinds

LEMMA LoneInit == Init => LoneInvariant
BY DEF Init, LoneInvariant, ActsOnWhatWasShown, OneSession, SeenIsThere, NoJob

(* A session works on rows of its own user, and a user with one session on   *)
(* the file it was shown, whatever any number of other sessions do between   *)
(* the list and the request.                                                 *)
THEOREM ActsOnWhatWasSeenAlways == Spec => []ActsOnWhatWasSeen
<1>1. Init => TypeOK /\ JobsInvariant /\ LoneInvariant
  BY CoreInit, LoneInit
<1>2. TypeOK /\ JobsInvariant /\ LoneInvariant /\ [Next]_vars
        => (TypeOK /\ JobsInvariant /\ LoneInvariant)'
  BY TypeStep, JobsStep, LoneStep
<1>3. JobsInvariant => ActsOnOwnRows
  BY DEF JobsInvariant, JobIsSound, ActsOnOwnRows
<1>4. LoneInvariant => ActsOnWhatWasShown
  BY DEF LoneInvariant
<1>5. TypeOK /\ JobsInvariant /\ LoneInvariant => ActsOnWhatWasSeen
  BY <1>3, <1>4 DEF ActsOnWhatWasSeen
<1> QED
  BY <1>1, <1>2, <1>5, PTL DEF Spec

-----------------------------------------------------------------------------
(* NoOrphans *)

(* A file that stays in the storage, or comes to it, stays worked on or has  *)
(* a row.                                                                    *)
KeepsFiles(j) ==
  /\ \A id \in DOMAIN rows :
       rows[id].file = j.file \/ \E i \in DOMAIN rows' : rows'[i].file = rows[id].file
  /\ \A f \in File : content'[f] # NoFile => content[f] # NoFile \/ f = j.file

LEMMA NoOrphansMove ==
  ASSUME TypeOK, \A f \in File : content[f] # NoFile =>
                   \/ \E i \in DOMAIN rows : rows[i].file = f
                   \/ \E t \in Session : job[t].file = f,
         NEW s \in Session, NEW j, job' = [job EXCEPT ![s] = j],
         KeepsFiles(j),
         \/ job[s].file = NoFile \/ job[s].file = j.file
         \/ \E i \in DOMAIN rows' : rows'[i].file = job[s].file
         \/ content'[job[s].file] = NoFile
  PROVE  NoOrphans'
<1>1. job'[s] = j /\ \A t \in Session \ {s} : job'[t] = job[t]
  BY DEF TypeOK
<1> SUFFICES ASSUME NEW f \in File, content'[f] # NoFile
             PROVE  \/ \E i \in DOMAIN rows' : rows'[i].file = f
                    \/ \E t \in Session : job'[t].file = f
  BY DEF NoOrphans
<1>2. CASE j.file = f
  BY <1>1, <1>2
<1>3. CASE j.file # f
  <2>1. content[f] # NoFile /\ f # NoFile
    BY <1>3 DEF File, NoFile, KeepsFiles
  <2>2. CASE \E i \in DOMAIN rows : rows[i].file = f
    BY <1>3, <2>2 DEF KeepsFiles
  <2>3. CASE \E t \in Session : job[t].file = f
    <3>1. PICK t \in Session : job[t].file = f
      BY <2>3
    <3>2. CASE t # s
      BY <1>1, <3>1, <3>2
    <3>3. CASE t = s
      BY <1>3, <2>1, <3>1, <3>3
    <3> QED
      BY <3>2, <3>3
  <2> QED
    BY <2>1, <2>2, <2>3
<1> QED
  BY <1>2, <1>3

(* remove succeeds: who has a file open works on it, and nobody but the      *)
(* remover does.                                                             *)
LEMMA RemoveSucceeds ==
  ASSUME TypeOK, JobsInvariant, NothingLeft, LoneInvariant, "shared" \notin mishap,
         NEW s \in Session, pc[s] \in {"mismatched", "remove"}, RemoveStored(job[s].file)
  PROVE  content' = [content EXCEPT ![job[s].file] = NoFile] /\ job[s].file \in File
<1>1. job[s].file \in File /\ job[s].file # NoFile
  BY DEF TypeOK, JobsInvariant, JobIsSound, Unchosen, Idle
<1>2. ~ IsOpen(job[s].file)
  <2> SUFFICES ASSUME NEW i \in Stream, streams[i].file = job[s].file PROVE FALSE
    BY DEF IsOpen
  <2>1. streams[i] # Closed
    BY <1>1 DEF Closed
  <2>2. PICK t \in Session : pc[t] \in {"receive", "send"} /\ job[t].file = streams[i].file
    BY <2>1 DEF NothingLeft
  <2>3. t = s
    BY <1>1, <2>2 DEF LoneInvariant
  <2> QED
    BY <2>2, <2>3
<1> QED
  BY <1>1, <1>2 DEF RemoveStored

LEMMA NoOrphansStep ==
  TypeOK /\ JobsInvariant /\ WorkInvariant /\ StoredInvariant /\ LoneInvariant /\ NoOrphans
    /\ [Next]_vars => NoOrphans'
<1> SUFFICES ASSUME TypeOK, JobsInvariant, WorkInvariant, StoredInvariant, LoneInvariant, NoOrphans,
                    [Next]_vars, mishap' \subseteq {"overlap"}
             PROVE  NoOrphans'
  BY DEF NoOrphans
<1>1. CASE \E how \in {"exited", "killed"} : Stop(how)
  BY <1>1 DEF Stop
<1>2. CASE UNCHANGED <<storeVars, streams, unread, sessionVars, mishap>>
  BY <1>2 DEF storeVars, tableVars, sessionVars, NoOrphans
<1>3. CASE ~ Exit /\ \E s \in Session : SessionStep(s)
  <2>1. PICK s \in Session : SessionStep(s)
    BY <1>3
  <2>2. mishap \subseteq {"overlap"}
    BY <1>3, <2>1, SessionMoves
  <2>3. /\ NothingLeft /\ UploadsAreWhole /\ SeenIsThere(s) /\ "shared" \notin mishap
        /\ \A f \in File : content[f] # NoFile =>
             \/ \E i \in DOMAIN rows : rows[i].file = f
             \/ \E t \in Session : job[t].file = f
    <3>1. "broken" \notin mishap /\ "crossed" \notin mishap /\ "shared" \notin mishap
      BY <2>2
    <3> QED
      BY <2>2, <3>1 DEF WorkInvariant, StoredInvariant, LoneInvariant, NoOrphans
  <2>4. /\ job = [job EXCEPT ![s] = job[s]] /\ job \in [Session -> Job] /\ job[s] \in Job
        /\ JobIsSound(s)
    BY DEF TypeOK, Job, JobsInvariant
  <2>5. pc[s] \in Unchosen => job[s].file = NoFile
    BY <2>4 DEF JobIsSound
  <2>6. UNCHANGED <<rows, content>> => \A j : KeepsFiles(j)
    BY DEF KeepsFiles
  <2> USE DEF storeVars, processVars, tableVars
  <2>7. CASE Arrive(s) \/ RequestList(s) \/ ListCount(s) \/ ListRows(s)
    BY <2>3, <2>7 DEF Arrive, RequestList, ListCount, ListRows, NoOrphans
  <2>8. CASE Leave(s) \/ FindRow(s) \/ SelectFile(s)
    <3>1. UNCHANGED <<rows, content>> /\ job[s].file = NoFile
      BY <1>3, <2>5, <2>8 DEF Leave, FindRow, SelectFile, Unchosen, Idle
    <3>2. \E j \in {NoJob, [job[s] EXCEPT !.file = FilesOf(Owner[s])[job[s].index]]} :
            job' = [job EXCEPT ![s] = j]
      BY <1>3, <2>4, <2>8 DEF Leave, FindRow, SelectFile, HangUp
    <3> QED
      BY <2>3, <2>6, <3>1, <3>2, NoOrphansMove
  <2>9. CASE \E i \in 1 .. MaxUploads : RequestDownload(s, i) \/ RequestDelete(s, i)
    <3>1. UNCHANGED <<rows, content>> /\ job[s].file = NoFile
      BY <2>5, <2>9 DEF RequestDownload, RequestDelete, Choose, Unchosen, Idle
    <3>2. PICK i \in 1 .. MaxUploads : job' = [job EXCEPT ![s] = [NoJob EXCEPT !.index = i]]
      BY <2>9 DEF RequestDownload, RequestDelete, Choose
    <3> QED
      BY <2>3, <2>6, <3>1, <3>2, NoOrphansMove
  <2>10. CASE RequestUpload(s)
    <3> DEFINE f == uploads + 1
               j == [[NoJob EXCEPT !.file = f] EXCEPT !.stream = LowestFree]
    <3>1. FreeStreams # {}
      BY <1>3, <2>10 DEF RequestUpload
    <3>2. /\ pc[s] = "menu" /\ rows' = rows
          /\ job' = [job EXCEPT ![s] = j] /\ content' = [content EXCEPT ![f] = Damaged]
      BY <2>10, <3>1 DEF RequestUpload
    <3>3. j.file = f
      BY DEF NoJob
    <3>4. job[s].file = NoFile
      BY <2>5, <3>2 DEF Unchosen, Idle
    <3> HIDE DEF j, f
    <3>5. KeepsFiles(j)
      BY <3>2, <3>3 DEF TypeOK, KeepsFiles
    <3> QED
      BY <2>3, <2>6, <3>2, <3>4, <3>5, NoOrphansMove
  <2>11. CASE ReceiveFile(s)
    <3>1. /\ pc[s] = "receive" /\ job' = job /\ rows' = rows
          /\ streams[job[s].stream] = [file |-> job[s].file, writable |-> TRUE]
      BY <2>3, <2>11 DEF ReceiveFile, UploadsAreWhole
    <3>2. PICK arrived \in {job[s].file, Damaged} :
            content' = [content EXCEPT ![job[s].file] = arrived]
      BY <2>11, <3>1 DEF ReceiveFile
    <3>3. KeepsFiles(job[s])
      BY <3>1, <3>2 DEF TypeOK, KeepsFiles
    <3> QED
      BY <2>3, <2>4, <2>6, <3>1, <3>3, NoOrphansMove
  <2>12. CASE ReceiveBreaks(s) \/ InfoBreaks(s) \/ AnswerBreaks(s) \/ SendBreaks(s)
    BY <2>12 DEF ReceiveBreaks, InfoBreaks, AnswerBreaks, SendBreaks, Note
  <2>13. CASE (CompareHash(s) /\ pc[s] = "matched") \/ OpenFile(s)
    <3>1. UNCHANGED <<rows, content>>
      BY <1>3, <2>13 DEF CompareHash, OpenFile
    <3>2. PICK j \in {job[s], [job[s] EXCEPT !.stream = LowestFree]} : job' = [job EXCEPT ![s] = j]
      BY <1>3, <2>4, <2>13 DEF CompareHash, OpenFile
    <3>3. j.file = job[s].file
      BY <2>4 DEF Job
    <3> QED
      BY <2>3, <2>6, <3>1, <3>2, <3>3, NoOrphansMove
  <2>14. CASE (CompareHash(s) /\ pc[s] # "matched") \/ RemoveFile(s)
    <3>1. /\ pc[s] \in {"mismatched", "remove"} /\ rows' = rows
          /\ job' = [job EXCEPT ![s] = NoJob] /\ RemoveStored(job[s].file)
      BY <2>14 DEF CompareHash, RemoveFile, Done
    <3>2. content' = [content EXCEPT ![job[s].file] = NoFile] /\ job[s].file \in File
      BY <2>3, <3>1, RemoveSucceeds
    <3>3. /\ content'[job[s].file] = NoFile
          /\ KeepsFiles(NoJob)
      BY <3>1, <3>2 DEF TypeOK, KeepsFiles
    <3> QED
      BY <2>3, <3>1, <3>3, NoOrphansMove
  <2>15. CASE AnswerUpload(s) \/ SendFile(s)
    <3>1. /\ pc[s] \in {"answer", "send"} /\ UNCHANGED <<rows, content>>
          /\ job' = [job EXCEPT ![s] = NoJob]
      BY <2>15 DEF AnswerUpload, SendFile, Done
    <3>2. \E i \in DOMAIN rows : rows[i].file = job[s].file
      BY <2>3, <3>1 DEF SeenIsThere
    <3> QED
      BY <2>3, <2>6, <3>1, <3>2, NoOrphansMove
  <2>16. CASE InsertRow(s)
    <3>1. /\ UNCHANGED <<content, job>> /\ lastId' = lastId + 1
          /\ rows' = [id \in DOMAIN rows \cup {lastId'} |->
                       IF id = lastId' THEN [owner |-> Owner[s], file |-> job[s].file] ELSE rows[id]]
      BY <2>16 DEF InsertRow, Insert
    <3>2. \A id \in DOMAIN rows : id \in DOMAIN rows' /\ rows'[id] = rows[id]
      BY <3>1 DEF TypeOK
    <3>3. KeepsFiles(job[s])
      BY <3>1, <3>2 DEF KeepsFiles
    <3> QED
      BY <2>3, <2>4, <3>1, <3>3, NoOrphansMove
  <2>17. CASE DeleteRow(s)
    <3>1. /\ UNCHANGED <<content, job>>
          /\ rows' = [id \in {i \in DOMAIN rows : rows[i].file # job[s].file} |-> rows[id]]
      BY <2>17 DEF DeleteRow
    <3>2. \A id \in DOMAIN rows :
            rows[id].file = job[s].file \/ \E i \in DOMAIN rows' : rows'[i].file = rows[id].file
      BY <3>1
    <3>3. KeepsFiles(job[s])
      BY <3>1, <3>2 DEF KeepsFiles
    <3> QED
      BY <2>3, <2>4, <3>1, <3>3, NoOrphansMove
  <2> QED
    BY <2>1, <2>7, <2>8, <2>9, <2>10, <2>11, <2>12, <2>13, <2>14, <2>15, <2>16, <2>17
       DEF SessionStep, UploadStep, DownloadStep, DeleteStep
<1> QED
  BY <1>1, <1>2, <1>3, StepKinds

LEMMA NoOrphansInit == Init => NoOrphans
BY DEF Init, NoOrphans

(* Without a second session of a user, a broken transfer or a stop, the      *)
(* storage keeps no file that has no row and that nobody works on.           *)
THEOREM NoOrphansAlways == Spec => []NoOrphans
<1> DEFINE All == TypeOK /\ JobsInvariant /\ WorkInvariant /\ StoredInvariant /\ LoneInvariant /\ NoOrphans
<1>1. Init => All
  BY CoreInit, WorkInit, StoredInit, LoneInit, NoOrphansInit
<1>2. All /\ [Next]_vars => All'
  BY TypeStep, JobsStep, WorkStep, StoredStep, LoneStep, NoOrphansStep
<1>3. All => NoOrphans
  OBVIOUS
<1> QED
  BY <1>1, <1>2, <1>3, PTL DEF Spec

-----------------------------------------------------------------------------
(* ServerStaysUp *)

(* With one request at a time there is a FILE object left for it: what is    *)
(* open is the request's own.                                                *)
LEMMA StreamIsFree ==
  ASSUME TypeOK, OneRequest, NothingLeft, NEW s \in Session, pc[s] \in {"menu", "open"}
  PROVE  FreeStreams # {}
<1> SUFFICES ASSUME \A i \in Stream : streams[i] # Closed PROVE FALSE
  BY DEF FreeStreams
<1>1. MaxStreams \in Nat /\ MaxStreams >= Cardinality(Session) /\ IsFiniteSet(Session)
  BY StreamsAssumption, SessionAssumption
<1>2. Cardinality({s}) <= Cardinality(Session) /\ Cardinality({s}) = 1 /\ Cardinality(Session) \in Nat
  <2>1. {s} \subseteq Session
    OBVIOUS
  <2> QED
    BY <1>1, <2>1, FS_Subset, FS_Singleton, FS_CardinalityType
<1>3. 1 \in Stream
  BY <1>1, <1>2 DEF Stream
<1>4. PICK t \in Session : pc[t] \in {"receive", "send"} /\ job[t].stream = 1
  BY <1>3 DEF NothingLeft
<1>5. t # s
  BY <1>4
<1>6. Cardinality({s, t}) <= Cardinality(Session) /\ Cardinality({s, t}) = 2
  <2>1. {s, t} \subseteq Session
    OBVIOUS
  <2>2. Cardinality({s, t}) <= Cardinality(Session)
    BY <1>1, <2>1, FS_Subset
  <2>3. IsFiniteSet({s}) /\ t \notin {s} /\ {s, t} = {s} \cup {t}
    BY <1>5, FS_Singleton
  <2>4. Cardinality({s, t}) = Cardinality({s}) + 1
    BY <2>3, FS_AddElement
  <2> QED
    BY <1>2, <2>2, <2>4
<1>7. 2 \in Stream
  BY <1>1, <1>2, <1>6 DEF Stream
<1>8. PICK r \in Session : pc[r] \in {"receive", "send"} /\ job[r].stream = 2
  BY <1>7 DEF NothingLeft
<1>9. r = t
  BY <1>4, <1>8 DEF OneRequest, Idle
<1> QED
  BY <1>4, <1>8, <1>9

(* None of the steps that may end the program does.                          *)
LEMMA NoExit ==
  ASSUME TypeOK, JobsInvariant, WorkInvariant, StoredInvariant, LoneInvariant,
         mishap \cap {"shared", "overlap", "broken"} = {}, NEW s \in Session
  PROVE  /\ pc[s] \in Statements => ~ unread /\ \A t \in Session \ {s} : pc[t] \notin Statements
         /\ pc[s] \in {"menu", "open"} => FreeStreams # {}
         /\ pc[s] \in {"select", "find"} => ~ (job[s].index > Len(FilesOf(Owner[s])))
         /\ pc[s] = "open" => content[job[s].file] # NoFile
<1>1. /\ OneRequest /\ NothingLeft /\ "crossed" \notin mishap /\ SeenIsThere(s)
      /\ "shared" \notin mishap
  <2>1. "shared" \notin mishap /\ "overlap" \notin mishap /\ "broken" \notin mishap
    OBVIOUS
  <2> QED
    BY <2>1 DEF WorkInvariant, LoneInvariant
<1>2. ASSUME pc[s] \in Statements
      PROVE  ~ unread /\ \A t \in Session \ {s} : pc[t] \notin Statements
  <2>1. \A t \in Session : pc[t] \in Statements \cup {"open", "send"} => pc[t] \notin Idle
    BY DEF Statements, Idle
  <2>2. \A t \in Session : pc[t] \in Statements \cup {"open", "send"} => t = s
    BY <1>1, <1>2, <2>1 DEF OneRequest
  <2>3. ~ unread
    <3> SUFFICES ASSUME unread PROVE FALSE
      OBVIOUS
    <3>1. PICK t \in Session : pc[t] \in {"open", "send"}
      BY <1>1 DEF NothingLeft
    <3>2. t = s
      BY <2>2, <3>1
    <3> QED
      BY <1>2, <3>1, <3>2 DEF Statements
  <2> QED
    BY <2>2, <2>3
<1>3. pc[s] \in {"menu", "open"} => FreeStreams # {}
  BY <1>1, StreamIsFree
<1>4. ASSUME pc[s] \in {"select", "find"}
      PROVE  ~ (job[s].index > Len(FilesOf(Owner[s])))
  <2>1. Owner[s] \in User
    BY OwnerAssumption
  <2>2. Len(FilesOf(Owner[s])) = seen[s].count
    BY <1>1, <1>4, <2>1, FilesAreRows DEF SeenIsThere
  <2>3. job[s].index \in 1 .. seen[s].count /\ seen[s].count \in Nat
    BY <1>4, UploadsAssumption DEF JobsInvariant, JobIsSound, TypeOK
  <2> QED
    BY <2>2, <2>3
<1>5. ASSUME pc[s] = "open"
      PROVE  content[job[s].file] # NoFile
  <2>1. PICK id \in DOMAIN rows : rows[id].file = job[s].file
    BY <1>1, <1>5 DEF SeenIsThere
  <2>2. content[rows[id].file] = rows[id].file
    BY <1>1 DEF StoredInvariant, RowsHaveFiles
  <2>3. rows[id].file # NoFile
    BY DEF TypeOK, File, NoFile
  <2> QED
    BY <2>1, <2>2, <2>3
<1> QED
  BY <1>2, <1>3, <1>4, <1>5

LEMMA StaysUpStep ==
  TypeOK /\ JobsInvariant /\ WorkInvariant /\ StoredInvariant /\ LoneInvariant /\ ServerStaysUp
    /\ [Next]_vars => ServerStaysUp'
<1> SUFFICES ASSUME TypeOK, JobsInvariant, WorkInvariant, StoredInvariant, LoneInvariant,
                    ServerStaysUp, [Next]_vars, mishap' \cap {"shared", "overlap", "broken"} = {}
             PROVE  server' # "exited"
  BY DEF ServerStaysUp
<1>1. mishap \cap {"shared", "overlap", "broken"} = {} /\ server # "exited"
  <2>1. mishap \subseteq mishap'
    <3>1. CASE \E how \in {"exited", "killed"} : Stop(how)
      BY <3>1 DEF Stop
    <3>2. CASE UNCHANGED <<storeVars, streams, unread, sessionVars, mishap>>
      BY <3>2
    <3>3. CASE ~ Exit /\ \E s \in Session : SessionStep(s)
      BY <3>3, SessionMoves
    <3> QED
      BY <3>1, <3>2, <3>3, StepKinds
  <2> QED
    BY <2>1 DEF ServerStaysUp
<1>2. CASE Kill \/ Restart \/ UNCHANGED vars
  BY <1>1, <1>2 DEF Kill, Stop, Restart, vars, processVars
<1>3. ASSUME NEW s \in Session, SessionStep(s) \/ StatementFails(s)
      PROVE  server' # "exited"
  <2> USE DEF processVars
  <2>1. CASE StatementFails(s)
    BY <1>1, <2>1, NoExit DEF StatementFails
  <2>2. CASE RequestUpload(s)
    <3>1. FreeStreams # {}
      BY <1>1, <2>2, NoExit DEF RequestUpload
    <3> QED
      BY <1>1, <2>2, <3>1 DEF RequestUpload
  <2>3. CASE SelectFile(s)
    <3>1. ~ (job[s].index > Len(FilesOf(Owner[s])))
      BY <1>1, <2>3, NoExit DEF SelectFile
    <3> QED
      BY <1>1, <2>3, <3>1 DEF SelectFile
  <2>4. CASE FindRow(s)
    <3>1. ~ (job[s].index > Len(FilesOf(Owner[s])))
      BY <1>1, <2>4, NoExit DEF FindRow
    <3> QED
      BY <1>1, <2>4, <3>1 DEF FindRow
  <2>5. CASE OpenFile(s)
    <3>1. ~ (content[job[s].file] = NoFile \/ FreeStreams = {})
      BY <1>1, <2>5, NoExit DEF OpenFile
    <3> QED
      BY <1>1, <2>5, <3>1 DEF OpenFile
  <2>6. CASE Arrive(s) \/ Leave(s) \/ RequestList(s) \/ ListCount(s) \/ ListRows(s)
    BY <1>1, <2>6 DEF Arrive, Leave, RequestList, ListCount, ListRows
  <2>7. CASE \E i \in 1 .. MaxUploads : RequestDownload(s, i) \/ RequestDelete(s, i)
    BY <1>1, <2>7 DEF RequestDownload, RequestDelete, Choose
  <2>8. CASE UploadStep(s)
    BY <1>1, <2>8 DEF UploadStep, ReceiveFile, ReceiveBreaks, InfoBreaks, CompareHash, InsertRow,
                      AnswerUpload, AnswerBreaks
  <2>9. CASE SendFile(s) \/ SendBreaks(s) \/ DeleteRow(s) \/ RemoveFile(s)
    BY <1>1, <2>9 DEF SendFile, SendBreaks, DeleteRow, RemoveFile
  <2> QED
    BY <1>3, <2>1, <2>2, <2>3, <2>4, <2>5, <2>6, <2>7, <2>8, <2>9
       DEF SessionStep, DownloadStep, DeleteStep
<1> QED
  BY <1>2, <1>3 DEF Next, SessionStep

LEMMA StaysUpInit == Init => ServerStaysUp
BY DEF Init, ServerStaysUp

(* The file server exits of itself only after a user had two sessions,       *)
(* requests overlapped or a transfer broke off, with any number of sessions  *)
(* and as many FILE objects.                                                 *)
THEOREM ServerStaysUpAlways == Spec => []ServerStaysUp
<1> DEFINE All == TypeOK /\ JobsInvariant /\ WorkInvariant /\ StoredInvariant /\ LoneInvariant
                    /\ ServerStaysUp
<1>1. Init => All
  BY CoreInit, WorkInit, StoredInit, LoneInit, StaysUpInit
<1>2. All /\ [Next]_vars => All'
  BY TypeStep, JobsStep, WorkStep, StoredStep, LoneStep, StaysUpStep
<1>3. All => ServerStaysUp
  OBVIOUS
<1> QED
  BY <1>1, <1>2, <1>3, PTL DEF Spec

==============================================================================
