------------------------------ MODULE FilePages ------------------------------
(***************************************************************************)
(* The pages of the user's file list: procListFile of the file server      *)
(* (userFileManager.c) counts the files and reads a page of them in two    *)
(* statements; doFileManage and showFileList of the client                 *)
(* (fileServerConnector.c) show it and turn the pages.  Numbers travel in  *)
(* one byte.  Meanwhile other sessions of the user upload and delete.      *)
(***************************************************************************)
EXTENDS Naturals, FiniteSets

CONSTANTS
  FilesPerPage,  \* files on a page: 10
  ByteRange,     \* values of a byte: 256
  MaxFiles       \* bound on the files of the user

ASSUME BytesAssumption == FilesPerPage \in Nat \ {0} /\ ByteRange \in Nat \ {0, 1}
ASSUME FilesAssumption == MaxFiles \in Nat

VARIABLES
  files,    \* number of the user's files on the server
  filePc,   \* what goes on between the two
  answer,   \* fc_ListFileResp
  sent,     \* number of files in it
  start,    \* place of the first of them in the list
  shown,    \* the page the client asks for and has shown
  moved     \* the files have changed since they were counted

fileVars == <<files, filePc, answer, sent, start, shown, moved>>

Byte == 0 .. ByteRange - 1
NoAnswer == [fileCount |-> 0, currentPage |-> 0, totalPage |-> 0]

PagesTypeOK ==
  /\ files \in 0 .. MaxFiles
  /\ filePc \in {"closed", "count", "rows", "choose"}
  /\ answer \in [fileCount : Byte, currentPage : Byte, totalPage : Byte]
  /\ sent \in 0 .. FilesPerPage
  /\ start \in 0 .. MaxFiles
  /\ shown \in Byte
  /\ moved \in BOOLEAN

PagesClosed ==
  /\ filePc' = "closed"
  /\ files' = 0 /\ answer' = NoAnswer /\ sent' = 0 /\ start' = 0 /\ shown' = 1
  /\ moved' = FALSE

PagesInit ==
  /\ filePc = "closed"
  /\ files = 0 /\ answer = NoAnswer /\ sent = 0 /\ start = 0 /\ shown = 1
  /\ moved = FALSE

-----------------------------------------------------------------------------
(* The client connects and asks for the first page, of whatever files the    *)
(* user's sessions have left.                                                *)
OpenFileServer ==
  /\ filePc = "closed"
  /\ filePc' = "count"
  /\ files' \in 0 .. MaxFiles
  /\ shown' = 1 /\ moved' = FALSE
  /\ UNCHANGED <<answer, sent, start>>

(* Mutant of TotalPage: -1 / 10 is -1. *)
NoPageIfEmpty == IF files = 0 THEN 0 ELSE (files - 1) \div FilesPerPage + 1

(* (fileCount - 1) / 10 + 1, where C divides -1 to 0 *)
TotalPage == IF files = 0 THEN 1 ELSE (files - 1) \div FilesPerPage + 1

CurrentPage == IF shown > TotalPage THEN TotalPage ELSE IF shown < 1 THEN 1 ELSE shown

CountFiles ==
  /\ filePc = "count"
  /\ answer' = [fileCount |-> files % ByteRange,
                currentPage |-> CurrentPage % ByteRange,
                totalPage |-> TotalPage % ByteRange]
  /\ start' = (CurrentPage - 1) * FilesPerPage
  /\ sent' = 0 /\ moved' = FALSE
  /\ IF files = 0
     THEN filePc' = "choose" /\ shown' = CurrentPage % ByteRange
     ELSE filePc' = "rows" /\ UNCHANGED shown
  /\ UNCHANGED files

(* LIMIT start, 10; the client shows the answer. *)
ReadFiles ==
  /\ filePc = "rows"
  /\ sent' = Cardinality({k \in start + 1 .. files : k <= start + FilesPerPage})
  /\ shown' = answer.currentPage
  /\ filePc' = "choose"
  /\ UNCHANGED <<files, answer, start, moved>>

(* Mutant of Iteration: a full last page shows nothing. *)
IterationWithoutFull ==
  IF answer.fileCount = 0 THEN 0
  ELSE IF answer.totalPage # answer.currentPage THEN FilesPerPage
  ELSE answer.fileCount % FilesPerPage

(* The number of lines shown, and their numbers *)
Iteration ==
  IF answer.fileCount = 0 THEN 0
  ELSE IF answer.totalPage # answer.currentPage THEN FilesPerPage
  ELSE IF answer.fileCount % FilesPerPage = 0 THEN FilesPerPage
  ELSE answer.fileCount % FilesPerPage

NumbersShown == {(shown - 1) * FilesPerPage + i : i \in 1 .. Iteration}

AskAgain == filePc' = "count" /\ UNCHANGED <<answer, sent, start, moved>>

PreviousFiles ==
  /\ filePc = "choose" /\ shown > 1
  /\ shown' = shown - 1
  /\ AskAgain /\ UNCHANGED files

NextFiles ==
  /\ filePc = "choose" /\ shown < answer.totalPage
  /\ shown' = shown + 1
  /\ AskAgain /\ UNCHANGED files

(* doFileJob and deleteFile: the list is shown again after each, also when   *)
(* nothing was done.                                                         *)
UploadOne ==
  /\ filePc = "choose"
  /\ files' \in {files, files + 1} /\ files' <= MaxFiles
  /\ AskAgain /\ UNCHANGED shown

DownloadOne ==
  /\ filePc = "choose"
  /\ AskAgain /\ UNCHANGED <<files, shown>>

(* The file server exits when there is no such file (FileStorage). *)
DeleteOne(n) ==
  /\ filePc = "choose" /\ n <= answer.fileCount /\ n <= files
  /\ files' = files - 1
  /\ AskAgain /\ UNCHANGED shown

CloseFileServer ==
  /\ filePc = "choose"
  /\ PagesClosed

(* Another session of the user uploads or deletes. *)
Elsewhere ==
  /\ filePc # "closed"
  /\ files' \in {files + 1, files - 1} \cap 0 .. MaxFiles
  /\ moved' = TRUE
  /\ UNCHANGED <<filePc, answer, sent, start, shown>>

FileStep ==
  \/ CountFiles \/ ReadFiles
  \/ PreviousFiles \/ NextFiles
  \/ UploadOne \/ DownloadOne \/ \E n \in 1 .. MaxFiles : DeleteOne(n)
  \/ CloseFileServer \/ Elsewhere

-----------------------------------------------------------------------------
(* Properties *)

(* With fewer than 256 files, and unless another session changed them in     *)
(* between, the lines shown are the files of that page with their places in  *)
(* the list, each line has a file, the last page is not empty, and every     *)
(* file is on a page that can be turned to: the client's arithmetic with the *)
(* one-byte numbers agrees with the server's (userFileManager.c:108-116,     *)
(* fileServerConnector.c:247-257).                                           *)
PagesAreRight ==
  filePc = "choose" /\ ~moved /\ files < ByteRange =>
    /\ answer.fileCount = files
    /\ NumbersShown = {k \in 1 .. files : (shown - 1) * FilesPerPage < k /\ k <= shown * FilesPerPage}
    /\ sent = Cardinality(NumbersShown)
    /\ shown \in 1 .. answer.totalPage
    /\ files > 0 => \E k \in 1 .. files : (answer.totalPage - 1) * FilesPerPage < k
    /\ \A k \in 1 .. files : k <= answer.totalPage * FilesPerPage

==============================================================================
