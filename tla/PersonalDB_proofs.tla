-------------------------- MODULE PersonalDB_proofs --------------------------
(***************************************************************************)
(* Whatever the clients of one user do at once, and wherever transfers     *)
(* break off or the relay server exits: infodb holds a whole version, and  *)
(* nobody downloads a mixture of two.  For any number of clients and edits.*)
(***************************************************************************)
EXTENDS PersonalDB, TLAPS

Whole == {Fresh} \cup 1 .. edits

(* A thread that has the file open keeps it as it is; a temporary file that  *)
(* passed the comparison is what its client had.                             *)
ClientInvariant ==
  \A t \in Thread :
    /\ have[t] \in Whole \cup {NoFile}
    /\ pc[t] \in {"receive", "compare", "remove", "rename"} => have[t] \in Whole
    /\ pc[t] \in {"remove", "rename"} => tmp[t] = have[t]

OpenInvariant == \A t \in Thread : pc[t] \in {"send", "hash"} => t \in handles

DbInvariant ==
  /\ TypeOK
  /\ StoredIsWhole
  /\ ClientInvariant
  /\ OpenInvariant
  /\ DownloadIsOneVersion

LEMMA InitInvariant == Init => DbInvariant
<1> SUFFICES ASSUME Init
             PROVE  DbInvariant
  OBVIOUS
<1> USE EditsAssumption DEF NoFile, Fresh, Damaged, Edit, Stored, Whole
<1>1. overlapped \in BOOLEAN /\ leaked \in BOOLEAN
  BY DEF Init
<1>2. TypeOK
  BY <1>1 DEF Init, TypeOK
<1> QED
  BY <1>2 DEF Init, DbInvariant, StoredIsWhole, ClientInvariant, OpenInvariant,
     DownloadIsOneVersion

(* Requests: the number of edits grows, and a client has what it edited. *)
LEMMA RequestPreserves ==
  ASSUME DbInvariant, NEW t \in Thread, RequestDownload(t) \/ RequestUpload(t)
  PROVE  DbInvariant'
<1> USE EditsAssumption
    DEF NoFile, Fresh, Damaged, Edit, Stored, fileVars, handleVars, clientVars, history,
        MayRequest, Goto
<1>1. overlapped' \in BOOLEAN
  BY DEF RequestDownload, RequestUpload, NoteOverlap
<1>2. CASE RequestDownload(t)
  <2>1. TypeOK'
    BY <1>1, <1>2 DEF DbInvariant, TypeOK, RequestDownload
  <2>2. StoredIsWhole' /\ DownloadIsOneVersion'
    BY <1>2 DEF DbInvariant, TypeOK, RequestDownload, StoredIsWhole, DownloadIsOneVersion
  <2>3. ClientInvariant' /\ OpenInvariant'
    BY <1>2 DEF DbInvariant, TypeOK, RequestDownload, ClientInvariant, OpenInvariant, Whole
  <2> QED
    BY <2>1, <2>2, <2>3 DEF DbInvariant
<1>3. CASE RequestUpload(t)
  <2>1. edits' = edits + 1 /\ edits' \in 0 .. MaxEdits
    BY <1>3 DEF DbInvariant, TypeOK, RequestUpload
  <2>2. TypeOK'
    BY <1>1, <1>3, <2>1 DEF DbInvariant, TypeOK, RequestUpload
  <2>3. StoredIsWhole' /\ DownloadIsOneVersion'
    BY <1>3, <2>1 DEF DbInvariant, TypeOK, RequestUpload, StoredIsWhole, DownloadIsOneVersion
  <2>4. ClientInvariant' /\ OpenInvariant'
    BY <1>3, <2>1 DEF DbInvariant, TypeOK, RequestUpload, ClientInvariant, OpenInvariant, Whole
  <2> QED
    BY <2>2, <2>3, <2>4 DEF DbInvariant
<1> QED
  BY <1>2, <1>3

(* Downloads: the file is made only when there is none, which is not the     *)
(* case while anyone has it open.                                            *)
LEMMA DownloadPreserves ==
  ASSUME DbInvariant, NEW t \in Thread,
         \/ OpenDb(t) \/ CloseDb(t) \/ OpenForRead(t)
         \/ SendFile(t) \/ SendBreaks(t) \/ SendHash(t)
  PROVE  DbInvariant'
<1> USE EditsAssumption
    DEF NoFile, Fresh, Damaged, Edit, Stored, fileVars, handleVars, clientVars, history,
        Goto, Answer, ClientGone
<1>1. UNCHANGED <<edits, history>>
  BY DEF OpenDb, CloseDb, OpenForRead, SendFile, SendBreaks, SendHash
<1>2. leaked' \in BOOLEAN /\ overlapped' \in BOOLEAN
  BY <1>1 DEF DbInvariant, TypeOK, OpenDb, CloseDb, OpenForRead, SendFile, SendBreaks, SendHash
<1>3. CASE OpenDb(t)
  BY <1>1, <1>2, <1>3 DEF OpenDb, DbInvariant, TypeOK, StoredIsWhole, ClientInvariant,
     OpenInvariant, DownloadIsOneVersion, Whole
<1>4. CASE CloseDb(t)
  BY <1>1, <1>2, <1>4 DEF CloseDb, DbInvariant, TypeOK, StoredIsWhole, ClientInvariant,
     OpenInvariant, DownloadIsOneVersion, Whole
<1>5. CASE OpenForRead(t)
  BY <1>1, <1>2, <1>5 DEF OpenForRead, DbInvariant, TypeOK, StoredIsWhole, ClientInvariant,
     OpenInvariant, DownloadIsOneVersion, Whole
<1>6. CASE SendFile(t)
  BY <1>1, <1>2, <1>6 DEF SendFile, DbInvariant, TypeOK, StoredIsWhole, ClientInvariant,
     OpenInvariant, DownloadIsOneVersion, Whole
<1>7. CASE SendBreaks(t)
  BY <1>1, <1>2, <1>7 DEF SendBreaks, DbInvariant, TypeOK, StoredIsWhole, ClientInvariant,
     OpenInvariant, DownloadIsOneVersion, Whole
<1>8. CASE SendHash(t)
  BY <1>1, <1>2, <1>8 DEF SendHash, DbInvariant, TypeOK, StoredIsWhole, ClientInvariant,
     OpenInvariant, DownloadIsOneVersion, Whole
<1> QED
  BY <1>3, <1>4, <1>5, <1>6, <1>7, <1>8

(* Uploads: only a temporary file with the client's hash is renamed, and     *)
(* only when nobody had the old file open could it be removed.               *)
LEMMA UploadPreserves ==
  ASSUME DbInvariant, NEW t \in Thread,
         \/ ReceiveFile(t) \/ ReceiveBreaks(t) \/ CompareHash(t)
         \/ RemoveOld(t) \/ RenameTmp(t)
  PROVE  DbInvariant'
<1> USE EditsAssumption
    DEF NoFile, Fresh, Damaged, Edit, Stored, fileVars, handleVars, clientVars, history,
        Goto, Answer, ClientGone
<1>1. UNCHANGED <<edits, overlapped, handleVars>>
  BY DEF ReceiveFile, ReceiveBreaks, CompareHash, RemoveOld, RenameTmp
<1>2. leaked' \in BOOLEAN /\ overlapped' \in BOOLEAN
  BY <1>1 DEF DbInvariant, TypeOK
<1>3. CASE ReceiveFile(t)
  BY <1>1, <1>2, <1>3 DEF ReceiveFile, DbInvariant, TypeOK, StoredIsWhole, ClientInvariant,
     OpenInvariant, DownloadIsOneVersion, Whole
<1>4. CASE ReceiveBreaks(t)
  BY <1>1, <1>2, <1>4 DEF ReceiveBreaks, DbInvariant, TypeOK, StoredIsWhole, ClientInvariant,
     OpenInvariant, DownloadIsOneVersion, Whole
<1>5. CASE CompareHash(t)
  BY <1>1, <1>2, <1>5 DEF CompareHash, DbInvariant, TypeOK, StoredIsWhole, ClientInvariant,
     OpenInvariant, DownloadIsOneVersion, Whole
<1>6. CASE RemoveOld(t)
  BY <1>1, <1>2, <1>6 DEF RemoveOld, DbInvariant, TypeOK, StoredIsWhole, ClientInvariant,
     OpenInvariant, DownloadIsOneVersion, Whole
<1>7. CASE RenameTmp(t)
  <2>1. tmp[t] = have[t] /\ have[t] \in Whole
    BY <1>7 DEF RenameTmp, DbInvariant, ClientInvariant
  <2>2. Whole \subseteq Stored /\ NoFile \notin Whole
    BY DEF Whole, DbInvariant, TypeOK
  <2>3. /\ db' \in Stored \cup {NoFile} /\ acked' \in Stored
        /\ leftOver' \subseteq Stored \cup {Damaged}
    <3>1. tmp[t] \in Stored
      BY <2>1, <2>2
    <3>2. db \in Stored \cup {NoFile} /\ leftOver \subseteq Stored \cup {Damaged}
      BY DEF DbInvariant, TypeOK
    <3>3. /\ db' \in {db, tmp[t]} /\ acked' = tmp[t]
          /\ leftOver' \subseteq leftOver \cup {tmp[t]}
      BY <1>7, <2>1 DEF RenameTmp
    <3> QED
      BY <3>1, <3>2, <3>3
  <2>4. TypeOK'
    BY <1>1, <1>2, <1>7, <2>3 DEF RenameTmp, DbInvariant, TypeOK
  <2>5. ClientInvariant' /\ OpenInvariant'
    BY <1>1, <1>7 DEF RenameTmp, DbInvariant, TypeOK, ClientInvariant, OpenInvariant, Whole
  <2>6. StoredIsWhole' /\ DownloadIsOneVersion'
    BY <1>1, <1>7, <2>1 DEF RenameTmp, DbInvariant, TypeOK, StoredIsWhole,
       DownloadIsOneVersion, Whole
  <2> QED
    BY <2>4, <2>5, <2>6 DEF DbInvariant
<1> QED
  BY <1>3, <1>4, <1>5, <1>6, <1>7

(* A restart leaves the files and ends every request. *)
LEMMA CrashPreserves == DbInvariant /\ Crash => DbInvariant'
<1> SUFFICES ASSUME DbInvariant, Crash
             PROVE  DbInvariant'
  OBVIOUS
<1> USE DEF NoFile, Fresh, Damaged, Edit, Stored, Whole, history
<1>1. leaked' \in BOOLEAN /\ overlapped' \in BOOLEAN
  BY DEF DbInvariant, TypeOK, Crash
<1>2. leftOver' \subseteq Stored \cup {Damaged}
  <2> SUFFICES ASSUME NEW c \in leftOver'
               PROVE  c \in Stored \cup {Damaged}
    OBVIOUS
  <2>1. \/ c \in leftOver
        \/ \E t \in Thread : tmp[t] # NoFile /\ c = tmp[t]
        \/ c = Damaged
    BY DEF Crash
  <2>2. leftOver \subseteq Stored \cup {Damaged} /\ tmp \in [Thread -> Stored \cup {NoFile, Damaged}]
    BY DEF DbInvariant, TypeOK
  <2> QED
    BY <2>1, <2>2
<1>3. TypeOK'
  BY <1>1, <1>2 DEF DbInvariant, TypeOK, Crash
<1> QED
  BY <1>3 DEF Crash, DbInvariant, StoredIsWhole, ClientInvariant, OpenInvariant,
     DownloadIsOneVersion

LEMMA InvariantHolds == Spec => []DbInvariant
<1>1. DbInvariant /\ [Next]_vars => DbInvariant'
  <2> SUFFICES ASSUME DbInvariant, [Next]_vars
               PROVE  DbInvariant'
    OBVIOUS
  <2>1. CASE UNCHANGED vars
    BY <2>1 DEF vars, fileVars, handleVars, clientVars, history, DbInvariant, TypeOK,
       StoredIsWhole, ClientInvariant, OpenInvariant, DownloadIsOneVersion, Whole
  <2>2. CASE Next
    BY <2>2, RequestPreserves, DownloadPreserves, UploadPreserves, CrashPreserves
    DEF Next, Step
  <2> QED
    BY <2>1, <2>2
<1> QED
  BY InitInvariant, <1>1, PTL DEF Spec

(* Every variable keeps its type. *)
THEOREM TypeCorrect == Spec => []TypeOK
<1>1. DbInvariant => TypeOK
  BY DEF DbInvariant
<1> QED
  BY <1>1, InvariantHolds, PTL

(* infodb holds the empty database or an upload that arrived whole.          *)
THEOREM StoredIsWholeAlways == Spec => []StoredIsWhole
<1>1. DbInvariant => StoredIsWhole
  BY DEF DbInvariant
<1> QED
  BY <1>1, InvariantHolds, PTL

(* From its first byte to its hash a download is of one version.             *)
THEOREM DownloadIsOneVersionAlways == Spec => []DownloadIsOneVersion
<1>1. DbInvariant => DownloadIsOneVersion
  BY DEF DbInvariant
<1> QED
  BY <1>1, InvariantHolds, PTL

-----------------------------------------------------------------------------
(* The last version acknowledged stays on the disk. *)

LEMMA InitLatest == Init => LatestInvariant
<1> SUFFICES ASSUME Init
             PROVE  LatestInvariant
  OBVIOUS
<1> USE DEF NoFile, Fresh, Damaged
<1>1. AtWork
  BY DEF Init, AtWork
<1>2. LatestIsOnDisk
  BY DEF Init, LatestIsOnDisk
<1>3. OneAtWork
  BY DEF Init, OneAtWork
<1> QED
  BY <1>1, <1>2, <1>3 DEF LatestInvariant

(* A request that does not overlap another finds all threads at rest. *)
LEMMA RequestKeepsLatest ==
  ASSUME DbInvariant, LatestInvariant, NEW t \in Thread, RequestDownload(t) \/ RequestUpload(t)
  PROVE  LatestInvariant'
<1> USE DEF DbInvariant, LatestInvariant, fileVars, handleVars, MayRequest, Goto, NoteOverlap
<1>1. PICK p \in {"open", "receive"} :
        /\ pc[t] = "serving" /\ pc' = [pc EXCEPT ![t] = p]
        /\ overlapped' = (overlapped \/ \E s \in Thread : pc[s] # "serving")
        /\ UNCHANGED <<fileVars, handleVars, acked>>
        /\ \A s \in Thread \ {t} : have'[s] = have[s]
        /\ edits' \in Nat /\ edits' >= edits
        /\ p = "receive" => have'[t] = edits'
  <2>1. edits \in Nat
    BY DEF TypeOK
  <2>2. CASE RequestDownload(t)
    BY <2>1, <2>2 DEF RequestDownload
  <2>3. CASE RequestUpload(t)
    BY <2>1, <2>3 DEF RequestUpload, TypeOK
  <2> QED
    BY <2>2, <2>3
<1>2. pc'[t] = p /\ \A s \in Thread \ {t} : pc'[s] = pc[s]
  BY <1>1 DEF TypeOK
<1>3. AtWork'
  <2>1. acked \in Int /\ edits \in Int
    BY DEF TypeOK, Stored, Fresh, Edit
  <2> QED
    BY <1>1, <1>2, <2>1 DEF AtWork
<1>4. LatestIsOnDisk'
  BY <1>1 DEF LatestIsOnDisk
<1>5. ASSUME ~overlapped'
      PROVE  OneAtWork'
  <2>1. \A s \in Thread : pc[s] = "serving"
    BY <1>1, <1>5
  <2> QED
    BY <1>1, <1>2, <2>1 DEF OneAtWork
<1> QED
  BY <1>3, <1>4, <1>5

(* A download makes the file when there is none, and keeps what there is. *)
LEMMA DownloadKeepsLatest ==
  ASSUME DbInvariant, LatestInvariant, NEW t \in Thread,
         \/ OpenDb(t) \/ CloseDb(t) \/ OpenForRead(t)
         \/ SendFile(t) \/ SendBreaks(t) \/ SendHash(t)
  PROVE  LatestInvariant'
<1> USE DEF DbInvariant, LatestInvariant, fileVars, handleVars, clientVars, history,
            Goto, Answer, ClientGone
<1>1. /\ pc[t] \in {"open", "tables", "fopen", "send", "hash"}
      /\ \E p \in {"tables", "fopen", "send", "hash", "serving"} :
           /\ pc' = [pc EXCEPT ![t] = p]
           /\ p \notin {"tables", "send", "hash"} => t \notin handles'
      /\ \A s \in Thread \ {t} : (s \in handles' <=> s \in handles) /\ have'[s] = have[s]
      /\ UNCHANGED <<tmp, leftOver, edits, acked, overlapped>>
      /\ leaked' = leaked \/ leaked'
      /\ db' = db \/ (db = NoFile /\ db' = Fresh /\ pc[t] = "open")
  <2>1. CASE OpenDb(t)
    BY <2>1 DEF OpenDb
  <2>2. CASE CloseDb(t)
    BY <2>2 DEF CloseDb
  <2>3. CASE OpenForRead(t)
    BY <2>3 DEF OpenForRead, AtWork
  <2>4. CASE SendFile(t)
    BY <2>4 DEF SendFile
  <2>5. CASE SendBreaks(t)
    BY <2>5 DEF SendBreaks, TypeOK
  <2>6. CASE SendHash(t)
    BY <2>6 DEF SendHash, TypeOK
  <2> QED
    BY <2>1, <2>2, <2>3, <2>4, <2>5, <2>6
<1>2. \A s \in Thread \ {t} : pc'[s] = pc[s]
  BY <1>1 DEF TypeOK
<1>3. pc'[t] \in {"tables", "fopen", "send", "hash", "serving"}
      /\ (t \in handles' => pc'[t] \in {"tables", "send", "hash"})
  BY <1>1 DEF TypeOK
<1>4. AtWork'
  BY <1>1, <1>2, <1>3 DEF AtWork
<1>5. LatestIsOnDisk'
  <2>1. CASE db' = db
    BY <1>1, <2>1 DEF LatestIsOnDisk
  <2>2. CASE db = NoFile
    <3>1. acked \in Nat /\ ~(NoFile >= acked)
      BY DEF TypeOK, Stored, Edit, Fresh, NoFile
    <3> QED
      BY <1>1, <2>2, <3>1 DEF LatestIsOnDisk
  <2> QED
    BY <1>1, <2>1, <2>2
<1>6. ASSUME ~overlapped'
      PROVE  OneAtWork'
  <2>1. \A s \in Thread \ {t} : pc[s] = "serving"
    BY <1>1, <1>6 DEF OneAtWork
  <2> QED
    BY <1>1, <1>2, <1>3, <2>1 DEF OneAtWork
<1> QED
  BY <1>4, <1>5, <1>6

(* An upload: the old database is removed only when the new version is whole *)
(* in the temporary file; that is what db is, or what is left over, once the *)
(* client is told.                                                           *)
LEMMA ReceiveKeepsLatest ==
  ASSUME DbInvariant, LatestInvariant, NEW t \in Thread, ReceiveFile(t) \/ ReceiveBreaks(t)
  PROVE  LatestInvariant'
<1> USE DEF DbInvariant, LatestInvariant, fileVars, handleVars, clientVars, history,
            Goto, Answer, ClientGone
<1>1. /\ pc[t] = "receive" /\ tmp[t] = NoFile
      /\ \E p \in {"compare", "serving"} :
           /\ pc' = [pc EXCEPT ![t] = p]
           /\ p = "compare" => tmp'[t] \in {have'[t], Damaged} /\ have' = have
           /\ p = "serving" => tmp'[t] = NoFile
      /\ \A s \in Thread \ {t} : tmp'[s] = tmp[s] /\ have'[s] = have[s]
      /\ leftOver \subseteq leftOver'
      /\ UNCHANGED <<db, handleVars, edits, history>>
  <2>1. CASE ReceiveFile(t)
    BY <2>1 DEF ReceiveFile, AtWork, TypeOK
  <2>2. CASE ReceiveBreaks(t)
    BY <2>2 DEF ReceiveBreaks, AtWork, TypeOK
  <2> QED
    BY <2>1, <2>2
<1>2. /\ pc'[t] \in {"compare", "serving"} /\ \A s \in Thread \ {t} : pc'[s] = pc[s]
      /\ pc'[t] = "compare" => tmp'[t] \in {have'[t], Damaged} /\ have' = have
      /\ pc'[t] = "serving" => tmp'[t] = NoFile
  BY <1>1 DEF TypeOK
<1>3. AtWork'
  BY <1>1, <1>2 DEF AtWork
<1>4. LatestIsOnDisk'
  <2>1. acked \in Nat /\ ~(NoFile >= acked)
    BY DEF TypeOK, Stored, Edit, Fresh, NoFile
  <2> QED
    BY <1>1, <2>1 DEF LatestIsOnDisk
<1>5. ASSUME ~overlapped'
      PROVE  OneAtWork'
  <2>1. \A s \in Thread \ {t} : pc[s] = "serving"
    BY <1>1, <1>5 DEF OneAtWork
  <2> QED
    BY <1>1, <1>2, <1>5, <2>1 DEF OneAtWork
<1> QED
  BY <1>3, <1>4, <1>5

LEMMA CompareKeepsLatest ==
  ASSUME DbInvariant, LatestInvariant, NEW t \in Thread, CompareHash(t)
  PROVE  LatestInvariant'
<1> USE DEF DbInvariant, LatestInvariant, handleVars, clientVars, history, Goto, ClientGone
<1>1. pc[t] = "compare" /\ UNCHANGED <<db, leftOver, handleVars, edits, history>>
  BY DEF CompareHash
<1>2. acked \in Nat /\ ~(NoFile >= acked) /\ ~(Damaged >= acked)
  BY DEF TypeOK, Stored, Edit, Fresh, NoFile, Damaged
<1>3. CASE tmp[t] = have[t]
  <2>1. pc' = [pc EXCEPT ![t] = "remove"] /\ UNCHANGED <<tmp, have>>
    BY <1>3 DEF CompareHash
  <2>2. pc'[t] = "remove" /\ \A s \in Thread \ {t} : pc'[s] = pc[s]
    BY <2>1 DEF TypeOK
  <2> QED
    BY <1>1, <2>1, <2>2 DEF AtWork, LatestIsOnDisk, OneAtWork
<1>4. CASE tmp[t] # have[t]
  <2>1. /\ pc' = [pc EXCEPT ![t] = "serving"] /\ tmp' = [tmp EXCEPT ![t] = NoFile]
        /\ have' = [have EXCEPT ![t] = NoFile]
    BY <1>4 DEF CompareHash
  <2>2. /\ pc'[t] = "serving" /\ tmp'[t] = NoFile /\ tmp[t] = Damaged
        /\ \A s \in Thread \ {t} : pc'[s] = pc[s] /\ tmp'[s] = tmp[s] /\ have'[s] = have[s]
    BY <1>1, <1>4, <2>1 DEF TypeOK, AtWork
  <2>3. AtWork'
    BY <1>1, <2>2 DEF AtWork
  <2>4. LatestIsOnDisk'
    BY <1>1, <1>2, <2>2 DEF LatestIsOnDisk
  <2>5. ~overlapped' => OneAtWork'
    BY <1>1, <2>2 DEF OneAtWork
  <2> QED
    BY <2>3, <2>4, <2>5
<1> QED
  BY <1>3, <1>4

LEMMA RemoveKeepsLatest ==
  ASSUME DbInvariant, LatestInvariant, NEW t \in Thread, RemoveOld(t)
  PROVE  LatestInvariant'
<1> USE DEF DbInvariant, LatestInvariant, handleVars, clientVars, history, Goto
<1>1. /\ pc[t] = "remove" /\ pc' = [pc EXCEPT ![t] = "rename"]
      /\ db' = IF handles = {} /\ ~leaked THEN NoFile ELSE db
      /\ UNCHANGED <<tmp, leftOver, handles, leaked, have, edits, acked, overlapped>>
  BY DEF RemoveOld
<1>2. pc'[t] = "rename" /\ \A s \in Thread \ {t} : pc'[s] = pc[s]
  BY <1>1 DEF TypeOK
<1>3. AtWork'
  BY <1>1, <1>2 DEF AtWork
<1>4. LatestIsOnDisk'
  <2>1. SUFFICES ASSUME ~overlapped
                 PROVE  tmp[t] >= acked
    BY <1>1, <2>1 DEF LatestIsOnDisk
  <2>2. tmp[t] = edits
    BY <1>1, <2>1 DEF ClientInvariant, OneAtWork
  <2> QED
    BY <2>2 DEF AtWork, TypeOK, Stored, Edit, Fresh
<1>5. ASSUME ~overlapped'
      PROVE  OneAtWork'
  <2>1. \A s \in Thread \ {t} : pc[s] = "serving"
    BY <1>1, <1>5 DEF OneAtWork
  <2>2. handles = {}
    BY <1>1, <2>1 DEF AtWork, TypeOK
  <2> QED
    BY <1>1, <1>2, <1>5, <2>1, <2>2 DEF OneAtWork
<1> QED
  BY <1>3, <1>4, <1>5

LEMMA RenameKeepsLatest ==
  ASSUME DbInvariant, LatestInvariant, NEW t \in Thread, RenameTmp(t)
  PROVE  LatestInvariant'
<1> USE DEF DbInvariant, LatestInvariant, handleVars, Goto, Answer
<1>1. /\ pc[t] = "rename" /\ pc' = [pc EXCEPT ![t] = "serving"]
      /\ tmp' = [tmp EXCEPT ![t] = NoFile] /\ acked' = have[t]
      /\ db' = tmp[t] \/ tmp[t] \in leftOver'
      /\ UNCHANGED <<handles, leaked, have, edits, overlapped>>
  BY DEF RenameTmp
<1>2. /\ pc'[t] = "serving" /\ tmp'[t] = NoFile
      /\ \A s \in Thread \ {t} : pc'[s] = pc[s] /\ tmp'[s] = tmp[s]
  BY <1>1 DEF TypeOK
<1>3. tmp[t] = have[t] /\ have[t] \in Int /\ have[t] <= edits
  BY <1>1 DEF ClientInvariant, Whole, Fresh, TypeOK
<1>4. AtWork'
  BY <1>1, <1>2, <1>3 DEF AtWork
<1>5. LatestIsOnDisk'
  <2>1. tmp[t] \in {db'} \cup leftOver' /\ tmp[t] >= acked'
    BY <1>1, <1>3
  <2> QED
    BY <2>1 DEF LatestIsOnDisk
<1>6. ~overlapped' => OneAtWork'
  BY <1>1, <1>2 DEF OneAtWork
<1> QED
  BY <1>4, <1>5, <1>6

LEMMA CrashKeepsLatest == DbInvariant /\ LatestInvariant /\ Crash => LatestInvariant'
<1> SUFFICES ASSUME DbInvariant, LatestInvariant, Crash
             PROVE  LatestInvariant'
  OBVIOUS
<1> USE DEF DbInvariant, LatestInvariant, history
<1>1. AtWork' /\ OneAtWork'
  BY DEF Crash, AtWork, OneAtWork
<1>2. LatestIsOnDisk'
  <2>1. SUFFICES ASSUME ~overlapped
                 PROVE  LatestIsOnDisk'
    BY DEF Crash, LatestIsOnDisk
  <2>2. PICK c \in {db} \cup leftOver \cup {tmp[t] : t \in Thread} \cup {Fresh} : c >= acked
    BY <2>1 DEF LatestIsOnDisk
  <2>3. acked \in Nat /\ ~(NoFile >= acked)
    BY DEF TypeOK, Stored, Edit, Fresh, NoFile
  <2>4. c \in {db} \cup leftOver' \cup {Fresh}
    BY <2>2, <2>3 DEF Crash
  <2>5. db' = db /\ acked' = acked
    BY DEF Crash
  <2> QED
    BY <2>2, <2>4, <2>5 DEF LatestIsOnDisk
<1> QED
  BY <1>1, <1>2

LEMMA LatestHolds == Spec => [](DbInvariant /\ LatestInvariant)
<1>1. DbInvariant /\ LatestInvariant /\ [Next]_vars => LatestInvariant'
  <2> SUFFICES ASSUME DbInvariant, LatestInvariant, [Next]_vars
               PROVE  LatestInvariant'
    OBVIOUS
  <2>1. CASE UNCHANGED vars
    BY <2>1 DEF vars, fileVars, handleVars, clientVars, history, LatestInvariant, AtWork,
       OneAtWork, LatestIsOnDisk
  <2>2. CASE Next
    BY <2>2, RequestKeepsLatest, DownloadKeepsLatest, ReceiveKeepsLatest, CompareKeepsLatest,
       RemoveKeepsLatest, RenameKeepsLatest, CrashKeepsLatest
    DEF Next, Step
  <2> QED
    BY <2>1, <2>2
<1>2. Init => LatestInvariant
  BY InitLatest
<1> QED
  BY <1>1, <1>2, InvariantHolds, PTL DEF Spec

(* Whatever breaks off or crashes, as long as the user's requests do not     *)
(* overlap, the last version acknowledged or a later one is on the disk and  *)
(* whole: RemoveOld and RenameTmp never leave a moment without one           *)
(* (personalDBHandler.c:166-176).                                            *)
THEOREM LatestIsOnDiskAlways == Spec => []LatestIsOnDisk
<1>1. LatestInvariant => LatestIsOnDisk
  BY DEF LatestInvariant
<1> QED
  BY <1>1, LatestHolds, PTL

(* Whatever a client is told is stored is on the disk at that step, in       *)
(* infodb or in a temporary file; in infodb, as long as no requests of the   *)
(* user overlapped and no download broke off since the server was started    *)
(* (personalDBHandler.c:166-180).                                            *)
THEOREM AcknowledgedIsSavedAlways == Spec => AcknowledgedIsSaved
<1>1. DbInvariant /\ LatestInvariant /\ [Next]_vars
        => [acked' # acked =>
              /\ acked' \in {db'} \cup leftOver'
              /\ ~overlapped /\ ~leaked => db' = acked']_vars
  <2> SUFFICES ASSUME DbInvariant, LatestInvariant, Next, acked' # acked
               PROVE  /\ acked' \in {db'} \cup leftOver'
                      /\ ~overlapped /\ ~leaked => db' = acked'
    BY DEF vars, history
  <2>1. PICK t \in Thread : RenameTmp(t)
    BY DEF Next, Step, RequestDownload, RequestUpload, OpenDb, CloseDb, OpenForRead, SendFile,
       SendHash, SendBreaks, ReceiveFile, ReceiveBreaks, CompareHash, RemoveOld, Crash, history
  <2>2. tmp[t] = have[t] /\ acked' = have[t]
    BY <2>1 DEF RenameTmp, DbInvariant, ClientInvariant
  <2>3. acked' \in {db'} \cup leftOver'
    BY <2>1, <2>2 DEF RenameTmp
  <2>4. ASSUME ~overlapped, ~leaked PROVE db' = acked'
    <3>1. db = NoFile
      BY <2>1, <2>4 DEF RenameTmp, LatestInvariant, OneAtWork
    <3> QED
      BY <2>1, <2>2, <3>1 DEF RenameTmp
  <2> QED
    BY <2>3, <2>4
<1> QED
  BY <1>1, LatestHolds, PTL DEF Spec, AcknowledgedIsSaved

==============================================================================
