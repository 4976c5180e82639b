----------------------------- MODULE FileStorage -----------------------------
(***************************************************************************)
(* The stored files of the file server (userFileManager.c) and the menu of *)
(* the client that uses them (fileServerConnector.c).                      *)
(*                                                                         *)
(* A file is a row of the table filelist and a file in ./storage, under a  *)
(* name made for the upload.  Clients name a file by its place in the list *)
(* they were last shown.  Every handler looks up its user under the mutex  *)
(* and does the rest without; all use one SQL handle, which takes no       *)
(* statement while a result is unread, and any error of it, a row that is  *)
(* not there and a file that cannot be opened end the program (Accounts    *)
(* has the same of the relay server).                                      *)
(*                                                                         *)
(* fopen_s gives the lowest FILE object that is free.  An upload closes    *)
(* its FILE twice, and the second fclose closes the file that has got the  *)
(* same object in the meantime.  Windows does not remove an open file; the *)
(* result of remove is ignored.                                            *)
(***************************************************************************)
EXTENDS Search, Sequences

CONSTANTS
  Session,     \* connections of clients to the file server
  User,
  Owner,       \* the user of each session
  MaxUploads,  \* bound on the uploads of one run
  MaxStreams   \* FILE objects of the program

ASSUME OwnerAssumption == Owner \in [Session -> User]
ASSUME SessionAssumption == IsFiniteSet(Session)
ASSUME UploadsAssumption == MaxUploads \in Nat
ASSUME StreamsAssumption == MaxStreams \in Nat /\ MaxStreams >= Cardinality(Session)

(* Uploads are numbered, and their number is the name of the stored file as  *)
(* well as its content.                                                      *)
File == 1 .. MaxUploads
NoFile == 0
Damaged == MaxUploads + 1   \* empty, cut short, or with wrong bytes
Stream == 1 .. MaxStreams

VARIABLES
  rows,      \* the table filelist, by id
  lastId,    \* the last id given out: AUTO_INCREMENT
  content,   \* of each file in ./storage
  streams,   \* the file each FILE object has open, and whether to write
  server,    \* is the file server up, exited or killed?
  unread,    \* the SQL handle has a result that was not read or freed
  pc,        \* where the thread of each session is
  job,       \* what it works on: stored file, FILE object, place in the list
  seen,      \* what its client was last shown: number of files, and the files
  uploads,   \* number of uploads so far
  mishap     \* what has happened so far

processVars == <<streams, server, unread>>
tableVars == <<rows, lastId>>
storeVars == <<tableVars, content, uploads>>
sessionVars == <<pc, job, seen>>
vars == <<storeVars, processVars, sessionVars, mishap>>

Statements == {"count", "rows", "insert", "select", "find", "delete"}
Idle == {"away", "list", "menu"}
NoJob == [file |-> NoFile, stream |-> 0, index |-> 0]
Closed == [file |-> NoFile, writable |-> FALSE]
Nothing == [count |-> 0, files |-> <<>>]

TypeOK ==
  /\ lastId \in Nat
  /\ DOMAIN rows \subseteq 1 .. lastId
  /\ rows \in [DOMAIN rows -> [owner : User, file : File]]
  /\ \A i, j \in DOMAIN rows : rows[i].file = rows[j].file => i = j
  /\ content \in [File -> {NoFile, Damaged} \cup File]
  /\ streams \in [Stream -> [file : {NoFile} \cup File, writable : BOOLEAN]]
  /\ server \in {"up", "exited", "killed"}
  /\ unread \in BOOLEAN
  /\ pc \in [Session -> Idle \cup Statements \cup
             {"receive", "matched", "mismatched", "answer", "open", "send", "remove"}]
  /\ job \in [Session -> [file : {NoFile} \cup File, stream : {0} \cup Stream,
                          index : 0 .. MaxUploads]]
  /\ seen \in [Session -> [count : 0 .. MaxUploads, files : Seq(File)]]
  /\ uploads \in 0 .. MaxUploads
  /\ mishap \subseteq {"shared", "overlap", "broken", "crossed", "crash"}

Init ==
  /\ rows = <<>> /\ lastId = 0
  /\ content = [f \in File |-> NoFile]
  /\ streams = [i \in Stream |-> Closed]
  /\ server = "up" /\ unread = FALSE
  /\ pc = [s \in Session |-> "away"]
  /\ job = [s \in Session |-> NoJob]
  /\ seen = [s \in Session |-> Nothing]
  /\ uploads = 0
  /\ mishap = {}

Goto(s, label) == pc' = [pc EXCEPT ![s] = label]
Note(what, condition) == mishap' = IF condition THEN mishap \cup {what} ELSE mishap

(* SELECT ... WHERE owner = ? *)
OwnRows(u) == {id \in DOMAIN rows : rows[id].owner = u}
FilesOf(u) == [k \in 1 .. Cardinality(OwnRows(u)) |-> rows[NthId(OwnRows(u), k)].file]

IsOpen(f) == \E i \in Stream : streams[i].file = f
FreeStreams == {i \in Stream : streams[i] = Closed}
LowestFree == First(FreeStreams)
Open(f, forWriting) ==
  streams' = [streams EXCEPT ![LowestFree] = [file |-> f, writable |-> forWriting]]

(* fclose closes what the FILE object has open now, whoever opened it. *)
Close(s) ==
  /\ streams' = [streams EXCEPT ![job[s].stream] = Closed]
  /\ Note("crossed", streams[job[s].stream].file \notin {NoFile, job[s].file})

-----------------------------------------------------------------------------
(* The program ends; the table and the stored files remain. *)

Stop(how) ==
  /\ server' = how
  /\ unread' = FALSE
  /\ streams' = [i \in Stream |-> Closed]
  /\ pc' = [s \in Session |-> "away"]
  /\ job' = [s \in Session |-> NoJob]
  /\ seen' = [s \in Session |-> Nothing]
  /\ mishap' = mishap \cup {"crash"}
  /\ UNCHANGED storeVars

Exit == Stop("exited")
Kill == server = "up" /\ Stop("killed")

Restart ==
  /\ server # "up"
  /\ server' = "up"
  /\ UNCHANGED <<storeVars, streams, unread, sessionVars, mishap>>

(* A statement fails for certain while a result is unread, and may fail      *)
(* while another thread is at a statement of its own.                        *)
StatementFails(s) ==
  /\ pc[s] \in Statements
  /\ unread \/ \E t \in Session \ {s} : pc[t] \in Statements
  /\ Exit

-----------------------------------------------------------------------------
(* The client's menu *)

Arrive(s) ==
  /\ server = "up" /\ pc[s] = "away"
  /\ Goto(s, "list")
  /\ Note("shared", \E t \in Session \ {s} : Owner[t] = Owner[s] /\ pc[t] # "away")
  /\ UNCHANGED <<storeVars, processVars, job, seen>>

HangUp(s) ==
  /\ Goto(s, "away")
  /\ job' = [job EXCEPT ![s] = NoJob]
  /\ seen' = [seen EXCEPT ![s] = Nothing]

Leave(s) ==
  /\ pc[s] \in {"list", "menu"}
  /\ HangUp(s)
  /\ UNCHANGED <<storeVars, processVars, mishap>>

Request(s, label) ==
  /\ Goto(s, label)
  /\ Note("overlap", \E t \in Session : pc[t] \notin Idle)

(* The list is shown before each choice, and again for another page. *)
RequestList(s) ==
  /\ pc[s] \in {"list", "menu"}
  /\ Request(s, "count")
  /\ UNCHANGED <<storeVars, processVars, job, seen>>

(* The place of a file is checked against the number of files last shown.    *)
Choose(s, i, label) ==
  /\ pc[s] = "menu"
  /\ i <= seen[s].count
  /\ job' = [job EXCEPT ![s] = [NoJob EXCEPT !.index = i]]
  /\ Request(s, label)
  /\ UNCHANGED <<storeVars, processVars, seen>>

RequestDownload(s, i) == Choose(s, i, "select")
RequestDelete(s, i) == Choose(s, i, "find")

Done(s) ==
  /\ Goto(s, "list")
  /\ job' = [job EXCEPT ![s] = NoJob]

-----------------------------------------------------------------------------
(* procListFile: the files are counted, and then read, in two statements     *)

ListCount(s) ==
  /\ pc[s] = "count" /\ ~unread
  /\ LET n == Len(FilesOf(Owner[s]))
     IN  /\ seen' = [seen EXCEPT ![s] = [count |-> n, files |-> <<>>]]
         /\ Goto(s, IF n = 0 THEN "menu" ELSE "rows")
  /\ UNCHANGED <<storeVars, processVars, job, mishap>>

ListRows(s) ==
  /\ pc[s] = "rows" /\ ~unread
  /\ seen' = [seen EXCEPT ![s].files = FilesOf(Owner[s])]
  /\ Goto(s, "menu")
  /\ UNCHANGED <<storeVars, processVars, job, mishap>>

-----------------------------------------------------------------------------
(* procFileJob, upload *)

RequestUpload(s) ==
  /\ pc[s] = "menu" /\ uploads < MaxUploads
  /\ IF FreeStreams = {}
     THEN Exit
     ELSE LET f == uploads + 1
          IN  /\ uploads' = f
              /\ content' = [content EXCEPT ![f] = Damaged]
              /\ Open(f, TRUE)
              /\ job' = [job EXCEPT ![s] = [NoJob EXCEPT !.file = f, !.stream = LowestFree]]
              /\ Request(s, "receive")
              /\ UNCHANGED <<tableVars, server, unread, seen>>

(* The upload is written to whatever file the FILE object has open for       *)
(* writing, and what was written is compared with the client's hash.         *)
ReceiveFile(s) ==
  /\ pc[s] = "receive"
  /\ LET stream == streams[job[s].stream]
     IN  \E arrived \in {job[s].file, Damaged} :
           IF stream.writable
           THEN /\ content' = [content EXCEPT ![stream.file] = arrived]
                /\ Goto(s, IF arrived = job[s].file THEN "matched" ELSE "mismatched")
           ELSE /\ Goto(s, "mismatched")
                /\ UNCHANGED content
  /\ Close(s)
  /\ UNCHANGED <<tableVars, uploads, server, unread, job, seen>>

(* downloadFile fails: the handler returns with the file open. *)
ReceiveBreaks(s) ==
  /\ pc[s] = "receive"
  /\ HangUp(s)
  /\ Note("broken", TRUE)
  /\ UNCHANGED <<storeVars, processVars>>

(* The client is gone before it sent the hash: the file stays, closed.       *)
InfoBreaks(s) ==
  /\ pc[s] \in {"matched", "mismatched"}
  /\ HangUp(s)
  /\ Note("broken", TRUE)
  /\ UNCHANGED <<storeVars, processVars>>

(* Mutants of CompareHash: the hash is not compared; a refused upload stays  *)
(* in the storage.                                                           *)
CompareNothing(s) ==
  /\ pc[s] \in {"matched", "mismatched"}
  /\ Goto(s, "insert")
  /\ UNCHANGED <<storeVars, processVars, job, seen, mishap>>

KeepRefused(s) ==
  \/ /\ pc[s] = "matched"
     /\ Goto(s, "insert")
     /\ UNCHANGED <<storeVars, processVars, job, seen, mishap>>
  \/ /\ pc[s] = "mismatched"
     /\ Done(s)
     /\ UNCHANGED <<storeVars, processVars, seen, mishap>>

(* remove, which fails while someone has the file open. *)
RemoveStored(f) == content' = [content EXCEPT ![f] = IF IsOpen(f) THEN @ ELSE NoFile]

(* An upload with another hash is removed, and the client told so. *)
CompareHash(s) ==
  \/ /\ pc[s] = "matched"
     /\ Goto(s, "insert")
     /\ UNCHANGED <<storeVars, processVars, job, seen, mishap>>
  \/ /\ pc[s] = "mismatched"
     /\ RemoveStored(job[s].file)
     /\ Done(s)
     /\ UNCHANGED <<tableVars, uploads, processVars, seen, mishap>>

(* INSERT, which has no result to read. *)
Insert(owner, file) ==
  /\ lastId' = lastId + 1
  /\ rows' = [id \in DOMAIN rows \cup {lastId'} |->
                IF id = lastId' THEN [owner |-> owner, file |-> file] ELSE rows[id]]

InsertRow(s) ==
  /\ pc[s] = "insert" /\ ~unread
  /\ Insert(Owner[s], job[s].file)
  /\ Goto(s, "answer")
  /\ UNCHANGED <<content, uploads, processVars, job, seen, mishap>>

(* Mutant of AnswerUpload: the row is inserted once more. *)
InsertAgain(s) ==
  /\ pc[s] = "answer"
  /\ Insert(Owner[s], job[s].file)
  /\ Done(s)
  /\ UNCHANGED <<content, uploads, processVars, seen, mishap>>

(* The client is told, and the FILE object, closed already, is closed again. *)
AnswerUpload(s) ==
  /\ pc[s] = "answer"
  /\ Close(s)
  /\ Done(s)
  /\ UNCHANGED <<storeVars, server, unread, seen>>

AnswerBreaks(s) ==
  /\ pc[s] = "answer"
  /\ HangUp(s)
  /\ Note("broken", TRUE)
  /\ UNCHANGED <<storeVars, processVars>>

-----------------------------------------------------------------------------
(* procFileJob, download *)

(* One row of the result is fetched, and the rest left unread until the file *)
(* has been sent.                                                            *)
SelectFile(s) ==
  /\ pc[s] = "select" /\ ~unread
  /\ LET files == FilesOf(Owner[s])
     IN  IF job[s].index > Len(files)
         THEN Exit
         ELSE /\ job' = [job EXCEPT ![s].file = files[job[s].index]]
              /\ unread' = TRUE
              /\ Goto(s, "open")
              /\ UNCHANGED <<storeVars, streams, server, seen, mishap>>

OpenFile(s) ==
  /\ pc[s] = "open"
  /\ IF content[job[s].file] = NoFile \/ FreeStreams = {}
     THEN Exit
     ELSE /\ Open(job[s].file, FALSE)
          /\ job' = [job EXCEPT ![s].stream = LowestFree]
          /\ Goto(s, "send")
          /\ UNCHANGED <<storeVars, server, unread, seen, mishap>>

(* Mutant of SendFile: the result is not freed. *)
SendWithoutFree(s) ==
  /\ pc[s] = "send"
  /\ Close(s)
  /\ Done(s)
  /\ UNCHANGED <<storeVars, server, unread, seen>>

SendFile(s) ==
  /\ pc[s] = "send"
  /\ Close(s)
  /\ unread' = FALSE
  /\ Done(s)
  /\ UNCHANGED <<storeVars, server, seen>>

(* uploadFile or sendData fails: the handler returns with the file open and  *)
(* the result unread.                                                        *)
SendBreaks(s) ==
  /\ pc[s] = "send"
  /\ HangUp(s)
  /\ Note("broken", TRUE)
  /\ UNCHANGED <<storeVars, processVars>>

-----------------------------------------------------------------------------
(* procDeleteFile *)

(* Mutant of FindRow: the place is counted from 0. *)
FindRowAfter(s) ==
  /\ pc[s] = "find" /\ ~unread
  /\ LET files == FilesOf(Owner[s])
     IN  IF job[s].index + 1 > Len(files)
         THEN Exit
         ELSE /\ job' = [job EXCEPT ![s].file = files[job[s].index + 1]]
              /\ Goto(s, "delete")
              /\ UNCHANGED <<storeVars, processVars, seen, mishap>>

FindRow(s) ==
  /\ pc[s] = "find" /\ ~unread
  /\ LET files == FilesOf(Owner[s])
     IN  IF job[s].index > Len(files)
         THEN Exit
         ELSE /\ job' = [job EXCEPT ![s].file = files[job[s].index]]
              /\ Goto(s, "delete")
              /\ UNCHANGED <<storeVars, processVars, seen, mishap>>

(* By its id: nothing is deleted when the row has gone. *)
DeleteRow(s) ==
  /\ pc[s] = "delete" /\ ~unread
  /\ rows' = [id \in {i \in DOMAIN rows : rows[i].file # job[s].file} |-> rows[id]]
  /\ Goto(s, "remove")
  /\ UNCHANGED <<lastId, content, uploads, processVars, job, seen, mishap>>

(* The client is told that its file is deleted. *)
RemoveFile(s) ==
  /\ pc[s] = "remove"
  /\ RemoveStored(job[s].file)
  /\ Done(s)
  /\ UNCHANGED <<tableVars, uploads, processVars, seen, mishap>>

-----------------------------------------------------------------------------

UploadStep(s) ==
  \/ ReceiveFile(s) \/ ReceiveBreaks(s) \/ InfoBreaks(s)
  \/ CompareHash(s) \/ InsertRow(s) \/ AnswerUpload(s) \/ AnswerBreaks(s)
DownloadStep(s) == SelectFile(s) \/ OpenFile(s) \/ SendFile(s) \/ SendBreaks(s)
DeleteStep(s) == FindRow(s) \/ DeleteRow(s) \/ RemoveFile(s)

Next ==
  \/ \E s \in Session :
       \/ Arrive(s) \/ Leave(s)
       \/ RequestList(s) \/ RequestUpload(s)
       \/ \E i \in 1 .. MaxUploads : RequestDownload(s, i) \/ RequestDelete(s, i)
       \/ ListCount(s) \/ ListRows(s)
       \/ UploadStep(s) \/ DownloadStep(s) \/ DeleteStep(s)
       \/ StatementFails(s)
  \/ Kill \/ Restart

Spec == Init /\ [][Next]_vars

-----------------------------------------------------------------------------
(* Properties *)

(* Every file that is listed is in the storage, whole and its own, wherever  *)
(* the server stops, transfers break off or users interleave: the row comes  *)
(* after the file and goes before it (userFileManager.c:238-317, 543-550).   *)
(* It is so as long as the second fclose of an upload (line 321) has not hit *)
(* the file of another.                                                      *)
RowsHaveFiles ==
  "crossed" \notin mishap => \A i \in DOMAIN rows : content[rows[i].file] = rows[i].file

(* Whatever other sessions do between the list and the request, of this user *)
(* or of others, a session downloads and deletes only rows of its own user;  *)
(* a user with one session, the file that was at this place of the list it   *)
(* was shown.                                                                *)
ActsOnOwnRows ==
  \A s \in Session : \A id \in DOMAIN rows :
    pc[s] \in {"open", "send", "delete"} /\ rows[id].file = job[s].file
      => rows[id].owner = Owner[s]

ActsOnWhatWasShown ==
  "shared" \notin mishap =>
    \A s \in Session :
      pc[s] \in {"open", "send", "delete", "remove"}
        => job[s].file = seen[s].files[job[s].index]

ActsOnWhatWasSeen == ActsOnOwnRows /\ ActsOnWhatWasShown

(* As long as each user has one session, nothing breaks off and the server   *)
(* does not stop, the storage holds no file without a row but those being    *)
(* worked on: a deleted file and a refused upload are gone.                  *)
NoOrphans ==
  mishap \subseteq {"overlap"} =>
    \A f \in File : content[f] # NoFile =>
      \/ \E i \in DOMAIN rows : rows[i].file = f
      \/ \E s \in Session : job[s].file = f

(* The file server does not exit of itself as long as each user has one      *)
(* session, no requests overlap and nothing breaks off: the place in the     *)
(* list is a row, the row has a file, and the handle is ready.               *)
ServerStaysUp == server = "exited" => mishap \cap {"shared", "overlap", "broken"} # {}

-----------------------------------------------------------------------------
(* The inductive invariant behind the properties.  A file is worked on from  *)
(* when it is chosen or uploaded until it is done with; an upload that is    *)
(* not in the table yet is worked on by its own session only.                *)

Unchosen == Idle \cup {"count", "rows", "select", "find"}
Arriving == {"receive", "matched", "mismatched", "insert"}

JobIsSound(s) ==
  /\ pc[s] \in Unchosen <=> job[s].file = NoFile
  /\ job[s].file <= uploads
  /\ pc[s] \in Arriving \cup {"answer", "send"} => job[s].stream \in Stream
  /\ pc[s] \in {"select", "find"} => job[s].index \in 1 .. seen[s].count
  /\ pc[s] \in Arriving \cup {"remove"} =>
       \A id \in DOMAIN rows : rows[id].file # job[s].file
  /\ pc[s] \in Arriving => \A t \in Session \ {s} : job[t].file # job[s].file
  /\ \A id \in DOMAIN rows : rows[id].file = job[s].file => rows[id].owner = Owner[s]

JobsInvariant ==
  /\ \A id \in DOMAIN rows : rows[id].file <= uploads
  /\ \A s \in Session : JobIsSound(s)

(* Without overlap one request is worked on, and as long as nothing breaks   *)
(* off, what is open or unread is a request's.                               *)
OneRequest == \A s, t \in Session : pc[s] \notin Idle /\ pc[t] \notin Idle => s = t

NothingLeft ==
  /\ unread => \E s \in Session : pc[s] \in {"open", "send"}
  /\ \A i \in Stream : streams[i] # Closed =>
       \E s \in Session : /\ pc[s] \in {"receive", "send"}
                          /\ job[s].stream = i /\ job[s].file = streams[i].file

WorkInvariant ==
  /\ "overlap" \notin mishap => OneRequest
  /\ "broken" \notin mishap => NothingLeft
  /\ mishap \cap {"overlap", "broken"} = {} => "crossed" \notin mishap

(* An upload has its FILE object, and what matched the hash is stored.       *)
UploadsAreWhole ==
  \A s \in Session :
    /\ pc[s] = "receive" => streams[job[s].stream] = [file |-> job[s].file, writable |-> TRUE]
    /\ pc[s] \in {"matched", "insert"} => content[job[s].file] = job[s].file

StoredInvariant == RowsHaveFiles /\ ("crossed" \notin mishap => UploadsAreWhole)

(* With one session for each user, what it has seen is what there is, until  *)
(* it changes it, and no two sessions work on the same file.                 *)
OneSession ==
  \A s, t \in Session :
    \/ s = t
    \/ Owner[s] = Owner[t] => pc[s] = "away" \/ pc[t] = "away"

SeenIsThere(s) ==
  /\ pc[s] \in {"rows", "menu", "select", "find"} => seen[s].count = Cardinality(OwnRows(Owner[s]))
  /\ pc[s] \in {"menu", "select", "find"} => seen[s].files = FilesOf(Owner[s])
  /\ pc[s] \in {"answer", "open", "send", "delete"} =>
       \E id \in DOMAIN rows : rows[id].file = job[s].file

LoneInvariant ==
  /\ ActsOnWhatWasShown
  /\ "shared" \notin mishap =>
       /\ OneSession
       /\ \A s \in Session : SeenIsThere(s)
       /\ \A s, t \in Session : s = t \/ job[s].file = NoFile \/ job[t].file # job[s].file

==============================================================================
