------------------------------ MODULE PersonalDB ------------------------------
(***************************************************************************)
(* The personal database file of one user (personalDBHandler.c, and the    *)
(* client's personalDBHelper.c).                                           *)
(*                                                                         *)
(* A client downloads infodb/<uid>.db, edits its copy and uploads it.  The *)
(* relay server receives an upload in a temporary file, compares its hash, *)
(* removes the database and renames the temporary file to it.  Each client *)
(* of the user has its own thread; none of this is under the mutex, which  *)
(* is held only to look up the user.                                       *)
(*                                                                         *)
(* Windows does not remove a file that someone has open, nor rename a file *)
(* to the name of another; the code ignores both results.                  *)
(*                                                                         *)
(* The content of a file is the number of the edit that produced it; every *)
(* edit has a number of its own.                                           *)
(***************************************************************************)
EXTENDS Integers, FiniteSets

CONSTANTS
  Thread,     \* threads of the relay server whose clients are this user
  MaxEdits    \* bound on the edits of one run

ASSUME EditsAssumption == MaxEdits \in Nat

NoFile == -1      \* there is no such file
Fresh == 0        \* the two tables, empty
Damaged == -2     \* cut short, or with bytes in the wrong place
Edit == 1 .. MaxEdits
Stored == {Fresh} \cup Edit

VARIABLES
  db,        \* content of infodb/<uid>.db
  tmp,       \* content of each thread's temporary file
  leftOver,  \* contents of temporary files no thread works on any more
  handles,   \* threads that have the database open
  leaked,    \* a handle on the database was never closed
  overlapped,  \* two requests of the user have been served at the same time
  pc,        \* where each thread is
  sent,      \* content the thread read from the database and sent
  have,      \* content of the client's copy, myinfoClient.db
  waiting,   \* clients waiting for an answer to their request
  edits,     \* number of edits made
  acked      \* the edit a client was last told is stored, or Fresh

fileVars == <<db, tmp, leftOver>>
handleVars == <<handles, leaked>>
history == <<overlapped, acked>>
clientVars == <<have, waiting, edits>>
vars == <<fileVars, handleVars, pc, sent, clientVars, history>>

TypeOK ==
  /\ db \in Stored \cup {NoFile}
  /\ tmp \in [Thread -> Stored \cup {NoFile, Damaged}]
  /\ leftOver \subseteq Stored \cup {Damaged}
  /\ handles \subseteq Thread
  /\ leaked \in BOOLEAN
  /\ overlapped \in BOOLEAN
  /\ pc \in [Thread -> {"serving", "open", "tables", "fopen", "send", "hash",
                        "receive", "compare", "remove", "rename"}]
  /\ sent \in [Thread -> Stored \cup {NoFile}]
  /\ have \in [Thread -> Stored \cup {NoFile}]
  /\ waiting \subseteq Thread
  /\ edits \in 0 .. MaxEdits
  /\ acked \in Stored

Init ==
  /\ db = NoFile
  /\ tmp = [t \in Thread |-> NoFile]
  /\ leftOver = {}
  /\ handles = {} /\ leaked = FALSE /\ overlapped = FALSE
  /\ pc = [t \in Thread |-> "serving"]
  /\ sent = [t \in Thread |-> NoFile]
  /\ have = [t \in Thread |-> NoFile]
  /\ waiting = {}
  /\ edits = 0
  /\ acked = Fresh

Goto(t, label) == pc' = [pc EXCEPT ![t] = label]

(* The client gets an answer. *)
Answer(t) == waiting' = waiting \ {t}

(* The client exits, or its connection is gone; it comes back later. *)
ClientGone(t) ==
  /\ have' = [have EXCEPT ![t] = NoFile]
  /\ waiting' = waiting \ {t}

MayRequest(t) == pc[t] = "serving" /\ t \notin waiting

(* History: does the request of t come while another one is served? *)
NoteOverlap == overlapped' = (overlapped \/ \E s \in Thread : pc[s] # "serving")

-----------------------------------------------------------------------------
(* procDownloadPersonalDBFile *)

RequestDownload(t) ==
  /\ MayRequest(t)
  /\ waiting' = waiting \cup {t}
  /\ NoteOverlap
  /\ Goto(t, "open")
  /\ UNCHANGED <<fileVars, handleVars, sent, have, edits, acked>>

(* sqlite3_open, and the tables if they do not exist. *)
OpenDb(t) ==
  /\ pc[t] = "open"
  /\ db' = IF db = NoFile THEN Fresh ELSE db
  /\ handles' = handles \cup {t}
  /\ Goto(t, "tables")
  /\ UNCHANGED <<tmp, leftOver, leaked, sent, clientVars, history>>

CloseDb(t) ==
  /\ pc[t] = "tables"
  /\ handles' = handles \ {t}
  /\ Goto(t, "fopen")
  /\ UNCHANGED <<fileVars, leaked, sent, clientVars, history>>

(* When the file cannot be opened the handler returns, and says nothing to   *)
(* the client.  fopen_s shares a file for reading only: it may fail while    *)
(* another thread has it open with sqlite3_open.                             *)
OpenForRead(t) ==
  /\ pc[t] = "fopen"
  /\ \E shared \in {TRUE, \A s \in Thread : pc[s] # "tables"} :
     IF db = NoFile \/ ~shared
     THEN /\ Goto(t, "serving")
          /\ UNCHANGED handles
     ELSE /\ Goto(t, "send")
          /\ handles' = handles \cup {t}
  /\ sent' = [sent EXCEPT ![t] = db]
  /\ UNCHANGED <<fileVars, leaked, clientVars, history>>

(* Mutant of SendFile: the file is closed before its hash is computed. *)
SendFileAndClose(t) ==
  /\ pc[t] = "send"
  /\ handles' = handles \ {t}
  /\ Goto(t, "hash")
  /\ UNCHANGED <<fileVars, leaked, sent, clientVars, history>>

SendFile(t) ==
  /\ pc[t] = "send"
  /\ Goto(t, "hash")
  /\ UNCHANGED <<fileVars, handleVars, sent, clientVars, history>>

(* uploadFile or sendData fails: the handler returns with the file open. *)
SendBreaks(t) ==
  /\ pc[t] \in {"send", "hash"}
  /\ handles' = handles \ {t}
  /\ leaked' = TRUE
  /\ ClientGone(t)
  /\ Goto(t, "serving")
  /\ UNCHANGED <<fileVars, sent, edits, history>>

(* The hash of the file, read again, is sent; the client exits unless it is  *)
(* that of what it received, which may be what was sent or damaged.          *)
SendHash(t) ==
  /\ pc[t] = "hash"
  /\ handles' = handles \ {t}
  /\ \E received \in {sent[t], Damaged} :
       have' = [have EXCEPT ![t] = IF received = db THEN db ELSE NoFile]
  /\ Answer(t)
  /\ Goto(t, "serving")
  /\ UNCHANGED <<fileVars, leaked, sent, edits, history>>

-----------------------------------------------------------------------------
(* procUploadPersonalDBFile *)

(* The client has edited its copy. *)
RequestUpload(t) ==
  /\ MayRequest(t)
  /\ have[t] # NoFile
  /\ edits < MaxEdits
  /\ edits' = edits + 1
  /\ have' = [have EXCEPT ![t] = edits + 1]
  /\ waiting' = waiting \cup {t}
  /\ NoteOverlap
  /\ Goto(t, "receive")
  /\ UNCHANGED <<fileVars, handleVars, sent, acked>>

(* The upload arrives in the temporary file, as it was sent or damaged (see  *)
(* FileTransfer).                                                            *)
ReceiveFile(t) ==
  /\ pc[t] = "receive"
  /\ \E content \in {have[t], Damaged} : tmp' = [tmp EXCEPT ![t] = content]
  /\ Goto(t, "compare")
  /\ UNCHANGED <<db, leftOver, handleVars, sent, clientVars, history>>

(* downloadFile fails: the temporary file stays, and stays open. *)
ReceiveBreaks(t) ==
  /\ pc[t] = "receive"
  /\ leftOver' = leftOver \cup {Damaged}
  /\ ClientGone(t)
  /\ Goto(t, "serving")
  /\ UNCHANGED <<db, tmp, handleVars, sent, edits, history>>

(* Mutant of CompareHash: the hash is not compared. *)
CompareNothing(t) ==
  /\ pc[t] = "compare"
  /\ Goto(t, "remove")
  /\ UNCHANGED <<fileVars, handleVars, sent, clientVars, history>>

(* With another hash the temporary file is removed, and the client, told so, *)
(* exits.                                                                    *)
CompareHash(t) ==
  /\ pc[t] = "compare"
  /\ IF tmp[t] = have[t]
     THEN /\ Goto(t, "remove")
          /\ UNCHANGED <<tmp, have, waiting>>
     ELSE /\ tmp' = [tmp EXCEPT ![t] = NoFile]
          /\ Goto(t, "serving")
          /\ ClientGone(t)
  /\ UNCHANGED <<db, leftOver, handleVars, sent, edits, history>>

(* Mutant of RemoveOld: the old file is not removed. *)
KeepOld(t) ==
  /\ pc[t] = "remove"
  /\ Goto(t, "rename")
  /\ UNCHANGED <<fileVars, handleVars, sent, clientVars, history>>

(* remove(fileName), which fails while someone has the file open. *)
RemoveOld(t) ==
  /\ pc[t] = "remove"
  /\ db' = IF handles = {} /\ ~leaked THEN NoFile ELSE db
  /\ Goto(t, "rename")
  /\ UNCHANGED <<tmp, leftOver, handleVars, sent, clientVars, history>>

(* Mutant of RenameTmp: a temporary file that cannot be renamed is removed.  *)
RenameOrDiscard(t) ==
  /\ pc[t] = "rename"
  /\ db' = IF db = NoFile THEN tmp[t] ELSE db
  /\ tmp' = [tmp EXCEPT ![t] = NoFile]
  /\ acked' = have[t]
  /\ Answer(t)
  /\ Goto(t, "serving")
  /\ UNCHANGED <<leftOver, handleVars, sent, have, edits, overlapped>>

(* rename(tmpFileName, fileName), which fails when the file exists; either   *)
(* way the client is told that its file is stored.                           *)
RenameTmp(t) ==
  /\ pc[t] = "rename"
  /\ IF db = NoFile
     THEN /\ db' = tmp[t]
          /\ UNCHANGED leftOver
     ELSE /\ leftOver' = leftOver \cup {tmp[t]}
          /\ UNCHANGED db
  /\ tmp' = [tmp EXCEPT ![t] = NoFile]
  /\ acked' = have[t]
  /\ Answer(t)
  /\ Goto(t, "serving")
  /\ UNCHANGED <<handleVars, sent, have, edits, overlapped>>

-----------------------------------------------------------------------------

(* The relay server exits, as it does on any error of the database, and is   *)
(* started again.  Files stay; handles do not.                               *)
Crash ==
  /\ leftOver' = leftOver \cup {tmp[t] : t \in {s \in Thread : tmp[s] # NoFile}}
                          \cup {Damaged : t \in {s \in Thread : pc[s] = "receive"}}
  /\ tmp' = [t \in Thread |-> NoFile]
  /\ handles' = {} /\ leaked' = FALSE
  /\ pc' = [t \in Thread |-> "serving"]
  /\ have' = [t \in Thread |-> NoFile]
  /\ waiting' = {}
  /\ UNCHANGED <<db, sent, edits, history>>

Step(t) ==
  \/ OpenDb(t) \/ CloseDb(t) \/ OpenForRead(t) \/ SendFile(t) \/ SendHash(t)
  \/ ReceiveFile(t) \/ CompareHash(t) \/ RemoveOld(t) \/ RenameTmp(t)

Next ==
  \/ \E t \in Thread :
       \/ RequestDownload(t) \/ RequestUpload(t)
       \/ Step(t)
       \/ SendBreaks(t) \/ ReceiveBreaks(t)
  \/ Crash

Spec == Init /\ [][Next]_vars

-----------------------------------------------------------------------------
(* Properties *)

(* What is in infodb is the empty database or an upload that arrived whole,  *)
(* whoever else uploads, breaks off or crashes: the temporary file and its   *)
(* hash (personalDBHandler.c:140-176) keep damaged uploads out.              *)
StoredIsWhole == db \in {NoFile, Fresh} \cup 1 .. edits

(* A download is of one version: from its first byte to its hash the file    *)
(* does not change, because nobody can replace it while it is open.          *)
DownloadIsOneVersion ==
  \A t \in Thread : pc[t] \in {"send", "hash"} => db = sent[t] /\ db # NoFile

(* When a client is told that its database is stored, that very version is   *)
(* on the disk, whoever else uploads and whatever has broken off: in infodb, *)
(* or, where remove or rename failed (personalDBHandler.c:171-172), in the   *)
(* temporary file.  It is in infodb as long as no two requests of the user   *)
(* overlapped and no download broke off since the relay server was started.  *)
AcknowledgedIsSaved ==
  [][acked' # acked =>
       /\ acked' \in {db'} \cup leftOver'
       /\ ~overlapped /\ ~leaked => db' = acked']_vars

(* Whatever breaks off or crashes, the last version that was acknowledged,   *)
(* or a later one, is still on the disk and whole: in infodb or in a         *)
(* temporary file it can be recovered from.                                  *)
LatestIsOnDisk ==
  ~overlapped =>
    \E content \in {db} \cup leftOver \cup {tmp[t] : t \in Thread} \cup {Fresh} :
      content >= acked

(* The inductive invariant behind the last two.  Only a thread at work has   *)
(* the database open or a temporary file, and what was acknowledged had been *)
(* edited.                                                                   *)
AtWork ==
  /\ \A t \in Thread :
       /\ t \in handles => pc[t] \in {"tables", "send", "hash"}
       /\ tmp[t] # NoFile => pc[t] \in {"compare", "remove", "rename"}
       /\ pc[t] = "compare" => tmp[t] \in {have[t], Damaged}
  /\ acked <= edits

(* Without overlap one thread is at work.  What it uploads is the last edit, *)
(* and nothing but a leaked handle keeps it from removing the old database.  *)
OneAtWork ==
  /\ \A s, t \in Thread : pc[s] # "serving" /\ pc[t] # "serving" => s = t
  /\ \A t \in Thread :
       /\ pc[t] \in {"receive", "compare", "remove", "rename"} => have[t] = edits
       /\ pc[t] = "rename" /\ ~leaked => db = NoFile

LatestInvariant == AtWork /\ LatestIsOnDisk /\ (~overlapped => OneAtWork)

==============================================================================
