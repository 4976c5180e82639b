# A TLA+ model of DogeCloud

DogeCloud is a small cloud service for Windows, written in C: a **client**
(`DogeCloud`), a **relay server** (`DC_Relay_Server`) that keeps accounts,
sessions and each user's personal database (contacts and memos), and a **file
server** (`DC_File_Server`) that keeps encrypted files. `DC_Common` is a DLL
with packets, transfer and cryptography that all three use. Both servers start
one thread per connection, share global tables under one mutex, and share one
handle to an SQL database without one.

This directory holds TLA+ modules of the servers' and the client's logic,
configurations that model-check them with TLC, and theorems about them that
TLAPS proves.

## Inventory

| part | code | state it keeps | operations | what makes it hard |
|---|---|---|---|---|
| connection and session table (both servers) | `RelayServer.c:198-224`, `FileServer.c:187-212`, `socketHandler.c` | `hClientSocks`, `sessionList`, `clientCount`, `hMutex` | accept, refuse, store, start a thread, opcode loop, log in, shift out, close | threads interleave with main; the argument of a thread is main's variable; slots move; handles are used again |
| wait list and collector (file server) | `userAuthManager.c`, `garbageCollector.c` | `authWaitList`, `authWaitCount` | add a user, log in with a key, delete what is used or over age | additions are made without the mutex; one entry is copied down; expiry against late clients |
| bridge between the servers | `userToFSBridge.c`, `fileServerRegister.c`, `fileServerRegisterManager.c` | `hFileSrvSock`, `fileServerConnectFlag` | register, ask for a place, answer | all threads use one connection without a lock; it may break |
| accounts | `sessionProcessor.c`, `AuthHelper.c`, `accounts` in `DogeCloud.sql` | the table; the result of a statement on `sqlHandle` | register, log in, log out | check and insert are apart; one SQL handle; every SQL error ends the server |
| personal database | `personalDBHandler.c`, `personalDBHelper.c` | `infodb/<uid>.db`, temporary files, open files | download, upload | remove and rename in two steps, results ignored; open files; crashes; several clients of a user |
| file storage | `userFileManager.c`, `fileServerConnector.c`, `filelist` in `DogeCloud.sql` | the table, `./storage`, `FILE` objects, `sqlHandle` | list, upload, download, delete | files are named by their place in a list shown earlier; a file is closed twice; results stay unread during transfers |
| SQL connector | `MariaDBConnector.c` (both) | `sqlHandle` | connect, prepare and execute | exits on every error |
| transfer | `NetworkReadWrite.c` | - | `recvRaw`, `sendRaw`, `uploadFile`, `downloadFile` | partial sends and receives |
| client session and menus | `DogeCloud.c`, `AuthHelper.c`, `userDataHelper.c` | `loginFlag`, `sessionKey`, `currentUsername` | log in, register, log out, menus | the server keeps a session after logout; the program may end anywhere |
| client's contacts and memos | `personalDBHelper.c`, `userDataHelper.c` | `myinfoClient.db` | add, change, delete, renumber, pages | numbering over long sequences; results of statements ignored |
| file list pages | `procListFile`, `showFileList` | the page shown | count, read a page, turn | numbers in one byte; count and rows read apart; empty lists |
| file encryption and hashes | `FileCrypto.c` | - | encrypt, decrypt, hash | - |
| start-up and configuration | `configReader.c` (three), `main` | addresses, limits | read once | - |

The parts interact by packets (client and relay server, client and file server,
relay server and file server), by the tables under `hMutex` (all threads of one
server), by the one SQL handle of each server, and by files on disk.

What makes each part correct: every thread serves its own connection and finds
its own session; counts are exact and arrays are not overrun; a granted user
can log in, as itself and nobody else; an answer is to one's own request and
everybody gets one; a name has one owner; what was acknowledged is stored and
what is stored is whole; what is listed exists; a client acts on the file or line it
was shown; the servers do not stop of themselves. `PROJECT.json` lists the
hazards line by line, with the properties that cover them, or a note where the
code does go wrong and a property only names the case as its proviso.

## Modules

Each module models whole handlers. A step is what runs between two points
where another thread can change what the handler sees: a wait for the mutex,
a send or receive, an SQL statement, a file operation, and, where data is
written without the mutex, single statements.

* **ConnectionTable** - `main`'s accept loop and `clientHandler`. `Accept` ..
  `StartHandler` are main's lines in order; `ReadArgument` is the thread
  dereferencing the pointer it was given; `ShiftTable`, `DropCount`,
  `EndHandler` are the clean-up. A socket handle is a value that the system
  hands out again once it was closed. The file server has the same code.
* **SessionDirectory** - the abstract specification of that table: who is
  connected, and as whom. ConnectionTable implements it under the mapping
  `directory` (checked as `ImplementsDirectory`).
* **AuthWaitList** - `procAddUserAuthWaitList` statement by statement
  (`authWaitCount++` is a read and a write), `waitingListGC` entry by entry,
  `procFileLogin`. Time is the age of an entry in ticks; the code's 60 seconds
  are `MaxAge`.
* **AuthBridge** - `procFileServerConnReq` and `authFSUser` in the threads of
  the relay server, two queues (the two directions of the one connection) and
  the file server's thread at the other end. Of the file server it has the two
  counts that decide an answer, `authWaitCount` and `clientCount`. A client that
  was granted a place and connects (`Connect`) is in both until the collector
  deletes its entry (`Collect`), so that the two together may exceed
  `maxConnection`, while neither does. AuthWaitList says what becomes of each
  entry.
* **Accounts** - `doLogin`, `doRegister`, `procLogout`, one step per SQL
  statement. `unread` says whether the handle has a result that was not read
  to its end or freed: any other statement then fails, and `StatementFails`
  ends the server, as `sqlPrepareAndExecute` does.
* **PersonalDB** - `procDownloadPersonalDBFile` and `procUploadPersonalDBFile`
  for the clients of one user. A version of the database is the number of the
  edit that made it. `RemoveOld` and `RenameTmp` fail as they do on Windows
  when the file is open or exists, and the code goes on.
* **FileStorage** - `procListFile`, `procFileJob`, `procDeleteFile` and the
  client's menu. `streams` are the C library's `FILE` objects, of which
  `fopen_s` gives the lowest that is free; `Close` closes what the object has
  open now, whoever opened it. The table is a function from ids to rows, which
  `AUTO_INCREMENT` numbers from `lastId` on; `FilesOf` is a user's list in the
  order of the ids.
* **FileTransfer** - `uploadFile` and `downloadFile` with the packet that
  follows the file, down to each `send` and `recv` and the number of bytes it
  takes. `sBuf` and `rBuf` are the buffers given to `sendRaw` and `recvRaw`,
  which after a partial call go on at the buffer's beginning (lines 22 and 42).
  `uploadFileProgress` and `downloadFileProgress` are the same code with a
  progress bar.
* **PersonalLists** - `manageContacts` and `manageMemo` with what they call.
  A table is a function from ids to entries; each statement is a step of the
  renumbering, and any of them may fail without notice (`spoilt`).
* **FilePages** - `procListFile` in its two statements, `doFileManage` and
  `showFileList`. Only the number of files matters here, and every number in a
  packet is taken modulo `ByteRange`.
* **Client** - the program: `main`'s menu composed with PersonalLists and
  FilePages, login and logout, the download and upload of the personal database
  and the end of the program at any point. `kept` is the relay server's copy.
  A program that ends in its login download (`EndInLogIn`) may leave the relay
  server with the file open (`leaked`, as in PersonalDB): from then on, until
  the relay server is started again, `Store` acknowledges an upload and keeps
  the old copy.
* **Search** - the linear search of all handlers as a smallest index, and the
  row of a table at a place in the order of its ids (`NthId`), which is what
  `LIMIT ?, 1` and `OFFSET` select.
* **ConnectionTable_proofs**, **AuthWaitList_proofs**, **AuthBridge_proofs**,
  **Accounts_proofs**, **PersonalDB_proofs**, **FileTransfer_proofs**,
  **FileStorage_proofs**, **Client_proofs** - the theorems.
* **MC...** - small sets and symmetries for TLC. Symmetry is used in runs that
  check no liveness property; model values are only compared for equality.

Definitions marked "Mutant of ..." next to an action are plausible mistakes in
it. They take no part in the specification; `PROJECT.json` names, for each
property, one that it catches.

### History variables

Some properties hold as long as something has not happened, and fail when it
has. Instead of forbidding the event, a variable records it: `spaced`
(ConnectionTable), `overlapped` (AuthWaitList, PersonalDB), `crossed`
(AuthBridge), `mishap` (Accounts, FileStorage), `split` (FileTransfer), `moved`
(FilePages), `spoilt` (PersonalLists, as part of each copy of the database). No
guard reads them. One run then explores all behaviours, and
each property names the conditions it needs; a run marked `violation` shows
what happens without them. `leaked` (PersonalDB, Client) is state of the code: a
handle that nobody will close.

## Runs

| run | instance | states | shows |
|---|---|---|---|
| connection_table | 3 connections, 2 slots, 3 handles, 2 users | 574 039 | `CountIsExact`, `StoreInBounds` always; `SessionAsTold`, `ServedAsTold`, `TableHoldsOpenSockets` and the refinement `ImplementsDirectory` while arrivals are spaced |
| connection_live | 2 connections, 1 slot | 4 925 | `WaitingIsAnswered`, `HangUpFreesSlot` |
| connection_handover | 3 connections, 2 slots | violation | a thread serves the next client's socket |
| auth_wait | 3 requests, `maxConnection` 3 | 344 475 | `InBounds` always; `SessionOfOwnUser`, `GrantedIsListed`, `UsedIsCollected` while no addition overlaps a pass |
| auth_wait_gc | 3 requests, `maxConnection` 4 | violation | the collector cuts off the last of three entries |
| auth_bridge | 3 threads, `maxConnection` 3, 4 requests | 217 536 | `OneAnswerEach`, `EveryRequestAnswered` always; `GrantsAreTold`: the number of grants for all threads, the own answer for those that never shared the socket; `TypeOK`: a free entry in the list and no connection above the limit |
| personal_db | 3 clients, 3 edits | 3 189 598 | `StoredIsWhole`, `DownloadIsOneVersion` always; `AcknowledgedIsSaved`: on the disk always, in `infodb` while no requests overlap and no handle leaked; `LatestIsOnDisk` while requests do not overlap |
| accounts | 3 clients, 2 names | 68 353 | `SessionIsOwn`, `OneRegistrant` always; `ServerStaysUp` without overlap and broken answers |
| file_storage | 2 sessions of one user, 1 of another, 2 uploads | 441 983 | `ActsOnWhatWasSeen`: rows of the own user always, the file shown with one session for each user; `RowsHaveFiles`, `NoOrphans`, `ServerStaysUp`, each with its provisos |
| file_transfer | 5 bytes and a packet of 2, chunks of 2 | 20 817 | `OnlySplitPartsDiffer`, `BothEnd` while the size is not cut |
| file_transfer_split | the same | violation | a transfer that reports success and delivers another file |
| client | 2 lists of up to 3 rows, up to 6 files, pages of 2, bytes of 6 values | 2 010 292 | `LocalIsKept` while no handle leaked; `ListsAreNumbered`, `ChosenLineOnly` while no statement fails; `PagesAreRight` below 256 files |

**Bounds.** Three connections for two slots are the least that have one arrive
at a full table while another shifts it; three handles for three connections
let each be used again; one of the connections may get no thread
(`MaxThreadless`). Three requests let the collector work on an entry with one
before and one behind it (the last two need `maxConnection` 4, which
auth_wait_gc has). With `maxConnection` 3 there are two places beside the relay
server's connection: one of three threads is refused, two clients that have
connected and are still listed make a sum of five, and four requests let a
client arrive at a full server after its entry was collected. Three edits are one more than an overwritten
and an overwriting version. Two uploads and two sessions of a user suffice for
a list to be changed under one who looks at it. Five bytes in chunks of two
are three chunks of which the last is short, and a window of four lets one
chunk and part of the next be under way. Three rows on pages of two are two
pages, with a row before, at and behind the one deleted; six files on pages
of two with bytes of six values are the code's 256 files on pages of ten in
small, with the count that no longer fits included. The constraint `Small`
(MCClient) leaves out states with more than four rows in both lists together,
and, while a leaked handle keeps the two copies of the database apart, those
with more than two rows in a copy or with a failed statement: the other list
is not touched by a menu, and a leaked handle does not touch the rows. Without
a leak and with four rows one list still has all its three. `MaxRequests`,
`MaxEdits`, `MaxUploads`, `MaxStreams`, `MaxThreadless`, `MaxId` and `MaxFiles`
are the only counters that are cut off.

**Deadlock.** `CHECK_DEADLOCK FALSE` is set where the system really stops: in
ConnectionTable every client may have come and gone; in AuthBridge all
requests may be used up and the connection gone; in FileTransfer both sides
come to their end, or, when the size was cut, wait for each other.

**Fairness.** Liveness is checked in four modules. The threads of both servers
run (`WF` of their steps), and a thread that keeps waiting for the mutex, or
for its turn in `recv`, gets it (`SF`), because Windows serves waiting threads
in order; the collector's `Sleep` ends again and again (`SF` of `StartPass`);
time passes. In FileTransfer both programs run (`WF` of each side), so that
what was sent is received and a full window drains. Nothing is asked of
clients: they may fall silent for ever.

## What does not hold

Three runs end in a violation; each contradicts a comment of the code.

1. `connection_handover`: `RelayServer.c:217` (and `FileServer.c:205`) pass the
   address of the loop variable, so a burst of clients makes two threads serve
   one of them. `tests/run_100_wait100ms.bat` spaces clients by 100 ms,
   `run_100_client_once.bat` does not.
2. `auth_wait_gc`: `garbageCollector.c:41` copies one entry instead of all
   behind it.
3. `file_transfer_split`: `NetworkReadWrite.c:22` and `42` go on at the
   beginning of the buffer after a partial call. If the size was cut, the two
   sides no longer agree on where the packet begins.

The provisos of the properties tell of more. TLC finds a
counterexample to each when the proviso is taken out of the property, for the
second `fclose` in an instance with one session of each of two users and three
uploads, for the others in the instance of the run.

* `overlapped` (AuthWaitList): an addition overlapping a pass of the collector
  loses an entry (`userAuthManager.c:60-62`).
* `crossed` (AuthBridge): answers on the connection between the servers name
  no request (`userToFSBridge.c:120`), so two threads that use it together may
  take each other's: a listed user is refused, another is sent to the file
  server with a key that is not listed.
* `overlapped` and `leaked` (PersonalDB): `remove` and `rename` fail while the
  file is open, their results are ignored (`personalDBHandler.c:171-172`), and
  a download that broke off leaves it open for good (line 94); the client is
  told that its database was stored, and `infodb` has an older one; what it
  sent is in a temporary file (`AcknowledgedIsSaved`).
* `leaked` (Client): one client alone meets the same. It is ended in its login
  download, started again, edits, is told that the database is stored and is
  back in the main menu with a database the server does not have, which the
  next login replaces by the old one.
* `crossed` (FileStorage): the second `fclose` of an upload
  (`userFileManager.c:321`) closes the file that has got the same `FILE` object
  since, and another user's bytes go elsewhere although the hash matches.
* `overlap`, `broken`, `shared` (Accounts, FileStorage): the SQL handles are
  shared without a lock, a broken send leaves a result unread, two sessions of
  a user make each other's list stale; each ends the server.
* `spoilt` (PersonalLists): a failed statement of a renumbering leaves ids that
  are not line numbers, and later choices take other lines.
* `files < ByteRange` (FilePages): with 256 files the list is shown empty.

## What is proved

Every safety property that a run checks is also a theorem, for every number of
connections, requests, clients, names, slots, edits, uploads, rows and bytes,
from the named assumptions on the constants: sets are finite, the special
values are outside of them and of each other (`AbsentAssumption`: the value of
a client that is not in the directory is no user), the limits are natural
numbers, a byte has at least two values, and there are as many `FILE` objects
as sessions.

Each inductive invariant is a conjunction of named parts, stated at the end of
the component's module, where TLC checked it before it was proved, or at the
head of its proof; each proof has one case per action.

* **ConnectionTable_proofs**: `TypeOK`, `CountIsExact`, `StoreInBounds` and
  `MutualExclusion` from `CountInvariant`, which adds `NoThreadYet`: a
  connection in the queue or with main has no thread, so that starting one adds
  exactly one to the set that `clientCount` counts. The limit main tests
  without the mutex still holds when it writes because only main raises the
  count.
  `MutexIsReturnedAlways` is the converse of `MutualExclusion`: a mutex that is
  taken is held by main or a handler at a point inside a critical section, from
  which each step can be made at once; so a thread that waits for it waits for
  one that goes on. It is what the strong fairness of the three locking steps
  rests on.

  `SessionAsTold`, `ServedAsTold` and `TableHoldsOpenSockets` from
  `TableInvariant`, which holds while arrivals are `spaced`. Then main's
  variable is still the socket of the one connection that has no thread or a
  thread that has not read its argument (`OneArrival`, `SocketsOwned`); the
  table has each connection once, in a prefix that is one entry ahead of
  `clientCount` while main adds one and one behind while a handler removes its
  own (`TableLists`, `Filled`, `Kept`); and what a client was told stays in the
  slot it is found in (`SessionsStored`). The work is in `ShiftTable`: after
  the shift each entry behind the removed one is found one place lower with the
  session it had.

  `ImplementsDirectory`: the table is a **SessionDirectory**. Under the mapping
  `directory`, `CountConnection` is `Enter`, `SetSession` is `Login`,
  `ShiftTable` is `Leave`, and every other step stutters: the two critical
  sections of a departure, and the entry that is written before it is counted,
  cannot be seen from outside.
* **AuthWaitList_proofs**: `TypeOK` and `InBounds`. `InBounds` is not
  inductive: `BoundsInvariant` adds that during an addition the count is below
  `MaxConnection - 1` (the relay server is itself a connection, so the test
  leaves one entry free), and what the two unlocked reads of the count can be.
  Only an addition raises the count, and there is one at a time.
  `SessionOfOwnUser` and `GrantedIsListed` (an action property) follow from
  `LoginInvariant`. While nothing has overlapped, the collector sleeps or no
  addition is under way (`Apart`), so the collector only copies whole entries,
  and each entry but the one being written has the key of its own user
  (`EntriesAreWhole`, `BeingWritten`); a login searches below that one.
* **AuthBridge_proofs**: `TypeOK`, `OneAnswerEach` and `GrantsAreTold`. That
  `authWaitCount` stays below `MaxConnection` rests on `clientCount` never being
  below 1, as the relay server's own connection is counted; the sum of the two
  has no such bound. The bounds on the counters need `RequestsAreCounted`: every
  request made is about to be sent, in one of the two queues, or answered.
  `GrantsInvariant` adds `Alone` to the count of grants: a thread that never
  shared the socket is the only one in `recv`, so the first request or answer
  on the way is its own, and once answered its name is nowhere on the way.
* **Accounts_proofs**: `TypeOK`, `SessionIsOwn`, `OneRegistrant` and
  `ServerStaysUp`, all from `AccountsInvariant`. What a handler has read stays
  true because accounts are only appended (`HandlersAreSound`). Of the threads
  past the insertion of a name there is one, and nobody was told of it yet
  (`NamesAreClaimedOnce`). Without a mishap at most one thread is in a handler
  and a result is unread only between its last statement and its answer
  (`HandleIsReady`); so every failing statement has had a mishap before it.
* **PersonalDB_proofs**: `TypeOK`, `StoredIsWhole`, `DownloadIsOneVersion`. The
  first two rest on what a thread about to rename has in its temporary file;
  the third on threads that send having the file in `handles`, which keeps
  `RemoveOld` from removing it and, as the file exists, `RenameTmp` from
  replacing it. `LatestIsOnDisk` and the action property `AcknowledgedIsSaved`
  from `LatestInvariant`: what a thread renames is what its client sent, and
  goes to `infodb` or stays; while requests do not overlap, one thread is at work
  with the last edit, and when it renames, the old file is gone unless a handle
  has leaked (`OneAtWork`); so between `RemoveOld` and `RenameTmp` the
  temporary file is the version on the disk.
* **FileStorage_proofs**: `TypeOK`, `RowsHaveFiles`, `ActsOnWhatWasSeen`,
  `NoOrphans` and `ServerStaysUp`, in layers, each of which uses those before.
  - `JobsInvariant`, always: a session works on a file exactly from the choice
    or the upload to the end; an upload that is not in the table yet is worked
    on by its own session only, and rows of a file someone works on are its
    own user's. With it `TypeOK`.
  - `WorkInvariant`: without overlap one request is worked on (`OneRequest`);
    as long as nothing breaks off, what is open or unread is a request's
    (`NothingLeft`); so then no `fclose` hits the file of another.
  - `StoredInvariant`, as long as none did: an upload has its own `FILE` object
    open, what matched its hash is stored, and so each row's file is.
  - `ActsOnWhatWasSeen`: its first part, that only rows of the own user are
    acted on, is in `JobsInvariant` and needs no proviso; its second is in
    `LoneInvariant`.
  - `LoneInvariant`, with one session for each user: what a session has seen is
    what the table has, as only it inserts and deletes its user's rows
    (`FilesOfOthersStay`), and no two sessions work on one file.
  - `NoOrphans` adds that every `remove` succeeds, as nobody else has the file
    open, and `ServerStaysUp` that none of the steps that may end the program
    does (`NoExit`): the handle is ready, a `FILE` object is free, the place is
    a row and the row has a file.
* **FileTransfer_proofs**: `TypeOK` and `OnlySplitPartsDiffer`, for every file
  of up to 2^31 - 1 bytes, every hash, buffer size and window. `DecodeEncode`
  says that `ntohl` undoes `htonl` on four bytes. The inductive invariant
  `StreamInv` looks at what is sent as one stream, size, file and packet, in
  which each side has a place (`From`, `Size`): the sender's buffer is the
  stream from its place (`SendInv`), the wire is the stream between the two
  places (`WireInv`), and what was written is the stream up to the receiver's
  (`RecvInv`), each but for the parts that were split. Partial calls change
  which bytes these are, never how many.
  `NobodyIsStuckAlways` is the safety part of `BothEnd`: as long as the size was
  not split, one of the two sides has a step to make until both have ended, for
  every window. `SenderGoesOn` and `ReceiverGoesOn` say so by the guards of the
  steps, as `ENABLED` is out of the prover's reach; the counting is that of the
  places: a receiver that waits has not read the whole stream (`LeftToRead`),
  one that has finished has left nothing in the network.
* **Client_proofs**: `LocalIsKept` from `KeptInv`: while no handle is leaked and
  a menu is open, the database it was opened with is the server's, so that not
  sending an unchanged one is right; a handle leaks, or is closed by a restart of
  the relay server, only while no user is logged in, and the login that follows
  downloads the server's copy. `ListsAreNumbered` from `NumberedInv`: during a renumbering the
  ids are `1 .. count` without `line`, so the row on line `line` is the one
  with id `line + 1` (`NthAfterGap`, by counting), its new number is free, and
  when the gap has reached the end the ids are `1 .. count - 1` again; the
  sequence is never above the largest id then, so the next addition comes last
  (`NextIdAfter`). `PagesAreRight` from `PagesInv`, which follows a page's
  count, number and rows from the server's two statements through one byte each
  to the screen. `TypeOK` needs that a line to renumber exists (`ListsInv`).
  `ChosenLineOnly`, an action property on the sequence of lines, uses the same:
  each statement finds the row of the line it names, and renumbering a row to
  the free number before it keeps its place.

That `First` and `NthId` return a member of the set they search is proved where
they are used, from the well-foundedness of the natural numbers.

Only model-checked is what speaks of fairness: `WaitingIsAnswered`,
`HangUpFreesSlot`, `UsedIsCollected`, `EveryRequestAnswered` and `BothEnd`.
Liveness under fairness and `ENABLED` are out of the prover's reach.

## What is abstracted or left out

* Names, keys, hashes and contents are values that are only compared: equal
  hashes mean equal contents, and generated keys and file names differ.
* Outside of FileTransfer a transfer delivers the file, delivers something else
  (`Damaged`), or breaks off, and packets arrive whole. FileTransfer shows that
  this is what there is as long as the size is not cut: the right number of
  bytes, nothing left over, and damage only in what was cut, which the
  hash shows. A cut size is not passed on to the other modules.
* What the SQL library does with two threads inside it, beyond: it works, or
  the program exits. Errors of `sqlite3_open`, of memory allocation, and of the
  `SELECT` statements of the client are not modelled, and neither is what
  SQLite makes of a journal left by a program killed in the middle of one
  statement.
* The relay server is done with what an ended program had sent before its user
  logs in again, but for a handle it leaks; PersonalDB has requests of one user
  that overlap.
* Client is the only client of its user; several are in PersonalDB, and other
  sessions of the user on the file server are `Elsewhere` in FilePages. After
  the last line of the last page was deleted the menu of a list shows an empty
  page, "page 2 / 1", until the user turns back; no property speaks of it.
* `authWaitCount + clientCount` is read in one step, and AuthBridge also changes
  each of the two in one; AuthWaitList has the unlocked `authWaitCount++`.

### Not modelled

* A failing `accept` ends `main`'s loop, which frees the tables under running
  threads: what happens then is undefined, and the program is shutting down.
* The registration of the relay server at the file server
  (`fileServerRegister.c`): five attempts before any client is served, then
  exit; AuthBridge begins after it, with the relay server as the one connection. Connecting to the SQL server likewise.
* `FileCrypto.c` (block cipher, SHA-256), `configReader.c`, `DogeCommon.c`
  (logging, progress bar, random numbers): sequential computations without
  state that is shared or kept; the properties need of them that keys differ
  and that hashes tell contents apart.
* Third-party code under `src/lib` (SQLite's shell and headers, MariaDB's
  headers, LEA, crypto-algorithms, a random number generator) is not
  DogeCloud's. It is about 40 000 of the 47 000 lines of C in the repository;
  of DogeCloud's own 7 400 lines, comments and declarations included, the
  modules stand for over 40 %, which is the handlers, loops and menus.

## Plan

Done, in this order: ConnectionTable with SessionDirectory, AuthWaitList,
AuthBridge, PersonalDB, Accounts, FileStorage; then FileTransfer,
PersonalLists, FilePages and Client, threads that cannot be started and the
look-ups in ConnectionTable; the proofs of all safety properties and of the
refinement.

Next, most important first:

1. The safety part of the remaining liveness properties, as `NobodyIsStuck` is
   of `BothEnd` and `MutexIsReturned` of `HangUpFreesSlot`: for
   `UsedIsCollected`, which used entries a pass of the collector may skip and
   why the next one reaches them.
2. **FileServerAccess**: AuthBridge over AuthWaitList instead of counts, so
   that a grant told to the wrong client meets the login.
3. FileStorage over FileTransfer, with a cut size as one more way in which a
   transfer ends.
