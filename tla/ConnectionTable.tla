--------------------------- MODULE ConnectionTable ---------------------------
(***************************************************************************)
(* The connection and session table shared by all threads of a server      *)
(* (RelayServer.c and socketHandler.c; DC_File_Server has the same code).  *)
(*                                                                         *)
(* main accepts a connection, stores its socket at the end of hClientSocks *)
(* and starts a clientHandler thread.  The thread serves opcodes until     *)
(* recvRaw fails, then shifts its slot out of hClientSocks and             *)
(* sessionList, decrements clientCount and closes the socket.  A session   *)
(* is found by searching hClientSocks for the thread's own socket.         *)
(*                                                                         *)
(* The thread gets its socket through a pointer to main's own variable     *)
(* hClientSock, which the next accept overwrites.                          *)
(*                                                                         *)
(* A connection and the thread started for it have the same name, a member *)
(* of Conn; a name is used again once its connection has gone.  Socket     *)
(* handles are handed out by the operating system, which may give the      *)
(* value of a closed handle to a later connection.                         *)
(***************************************************************************)
EXTENDS Integers, FiniteSets, Search

CONSTANTS
  Conn,            \* connections, and the handler threads started for them
  Handle,          \* socket handle values of the operating system
  User,            \* values of userUID
  MaxConnection,   \* maxConnection of the server's configuration
  MaxThreadless,   \* bound on the connections that get no thread
  NoSocket,        \* a zeroed entry of hClientSocks, or no handle at all
  NoConn,          \* no connection
  NoUser           \* userUID of a zeroed session

ASSUME ConnAssumption ==
  /\ IsFiniteSet(Conn)
  /\ NoConn \notin Conn
  /\ "free" \notin Conn /\ "main" \notin Conn
ASSUME HandleAssumption == NoSocket \notin Handle
ASSUME UserAssumption == NoUser \notin User
ASSUME AbsentAssumption == "absent" \notin User \cup {NoUser}
ASSUME MaxAssumption == MaxConnection \in Nat \ {0}

VARIABLES
  backlog,       \* connections waiting in the listen queue
  alive,         \* connections whose client has not hung up
  owner,         \* the connection each socket handle is open on, or NoConn
  spaced,        \* so far, each client arrived when every thread started had
                 \* read its argument, as in tests/run_100_wait100ms.bat; it
                 \* need not, as in tests/run_100_client_once.bat
  mainPc,        \* where main is in its accept loop
  cur,           \* the connection main is working on
  hClientSock,   \* main's variable of that name
  hMutex,        \* who holds the mutex: "free", "main" or a thread
  hClientSocks,  \* the sockets of the table
  sessionList,   \* userUID of the session of each slot
  clientCount,   \* number of slots in use
  pc,            \* where each clientHandler thread is
  sock,          \* the thread's own hClientSock
  slot,          \* the index its search found
  userUID,       \* the user its handler works with
  told           \* the user each client is logged in as, if any (loginFlag)

mainVars    == <<mainPc, cur, hClientSock>>
tableVars   == <<hClientSocks, sessionList, clientCount>>
threadVars  == <<pc, sock, slot, userUID, told>>
networkVars == <<backlog, alive, owner, spaced>>
vars == <<networkVars, mainVars, hMutex, tableVars, threadVars>>

Slots == 0 .. MaxConnection - 1

(* The program points at which a thread holds the mutex. *)
HoldsMutex == {"setSession", "getSession", "shift", "count"}

(* The program points at which the thread's connection is in the table. *)
InTable == {"start", "recv", "login", "setSession", "request", "getSession",
            "serve", "closing", "shift"}

TypeOK ==
  /\ backlog \subseteq Conn
  /\ alive \subseteq Conn
  /\ owner \in [Handle -> Conn \cup {NoConn}]
  /\ spaced \in BOOLEAN
  /\ mainPc \in {"accept", "check", "lock", "inc", "spawn"}
  /\ cur \in Conn \cup {NoConn}
  /\ hClientSock \in Handle \cup {NoSocket}
  /\ hMutex \in Conn \cup {"main", "free"}
  /\ hClientSocks \in [Slots -> Handle \cup {NoSocket}]
  /\ sessionList \in [Slots -> User \cup {NoUser}]
  /\ clientCount \in 0 .. MaxConnection
  /\ pc \in [Conn -> {"unborn", "start", "recv", "login", "setSession",
                      "request", "getSession", "serve", "threadless",
                      "closing", "shift", "count", "close"}]
  /\ sock \in [Conn -> Handle \cup {NoSocket}]
  /\ slot \in [Conn -> Slots \cup {-1}]
  /\ userUID \in [Conn -> User \cup {NoUser}]
  /\ told \in [Conn -> User \cup {NoUser}]

Init ==
  /\ backlog = {}
  /\ alive = {}
  /\ owner = [h \in Handle |-> NoConn]
  /\ spaced = TRUE
  /\ mainPc = "accept"
  /\ cur = NoConn
  /\ hClientSock = NoSocket
  /\ hMutex = "free"
  /\ hClientSocks = [i \in Slots |-> NoSocket]
  /\ sessionList = [i \in Slots |-> NoUser]
  /\ clientCount = 0
  /\ pc = [t \in Conn |-> "unborn"]
  /\ sock = [t \in Conn |-> NoSocket]
  /\ slot = [t \in Conn |-> -1]
  /\ userUID = [t \in Conn |-> NoUser]
  /\ told = [t \in Conn |-> NoUser]

-----------------------------------------------------------------------------
(* Clients *)

Connect(c) ==
  /\ c \notin backlog /\ c \notin alive /\ c # cur /\ pc[c] = "unborn"
  /\ \A h \in Handle : owner[h] # c
  /\ spaced' = (/\ spaced
                /\ backlog = {} /\ mainPc = "accept"
                /\ \A t \in Conn : pc[t] # "start")
  /\ backlog' = backlog \cup {c}
  /\ alive' = alive \cup {c}
  /\ UNCHANGED <<owner, mainVars, hMutex, tableVars, threadVars>>

HangUp(c) ==
  /\ c \in alive
  /\ alive' = alive \ {c}
  /\ UNCHANGED <<backlog, owner, spaced, mainVars, hMutex, tableVars, threadVars>>

-----------------------------------------------------------------------------
(* main: the accept loop *)

Accept(c, h) ==
  /\ mainPc = "accept"
  /\ c \in backlog /\ owner[h] = NoConn
  /\ backlog' = backlog \ {c}
  /\ owner' = [owner EXCEPT ![h] = c]
  /\ hClientSock' = h
  /\ cur' = c
  /\ mainPc' = "check"
  /\ UNCHANGED <<alive, spaced, hMutex, tableVars, threadVars>>

(* closesocket(h): the peer sees the connection closed; closing a handle that *)
(* is not open has no effect.                                                 *)
CloseSocket(h) ==
  /\ owner' = [g \in Handle |-> IF g = h THEN NoConn ELSE owner[g]]
  /\ alive' = IF h \in Handle THEN alive \ {owner[h]} ELSE alive

(* Mutants of RefuseConnection: the socket is not closed; the connection is   *)
(* taken off a count it was never added to.                                   *)
RefuseWithoutClose ==
  /\ mainPc = "check"
  /\ clientCount >= MaxConnection
  /\ cur' = NoConn
  /\ mainPc' = "accept"
  /\ UNCHANGED <<networkVars, hClientSock, hMutex, tableVars, threadVars>>

RefuseAndUncount ==
  /\ mainPc = "check"
  /\ clientCount >= MaxConnection
  /\ CloseSocket(hClientSock)
  /\ clientCount' = clientCount - 1
  /\ cur' = NoConn
  /\ mainPc' = "accept"
  /\ UNCHANGED <<backlog, spaced, hClientSock, hMutex, hClientSocks, sessionList, threadVars>>

(* The limit is tested without the mutex. *)
RefuseConnection ==
  /\ mainPc = "check"
  /\ clientCount >= MaxConnection
  /\ CloseSocket(hClientSock)
  /\ cur' = NoConn
  /\ mainPc' = "accept"
  /\ UNCHANGED <<backlog, spaced, hClientSock, hMutex, tableVars, threadVars>>

(* Mutant of AdmitConnection: the limit is off by one. *)
AdmitOneTooMany ==
  /\ mainPc = "check"
  /\ clientCount <= MaxConnection
  /\ mainPc' = "lock"
  /\ UNCHANGED <<networkVars, cur, hClientSock, hMutex, tableVars, threadVars>>

AdmitConnection ==
  /\ mainPc = "check"
  /\ clientCount < MaxConnection
  /\ mainPc' = "lock"
  /\ UNCHANGED <<networkVars, cur, hClientSock, hMutex, tableVars, threadVars>>

StoreSocket ==
  /\ mainPc = "lock"
  /\ hMutex = "free"
  /\ hMutex' = "main"
  /\ hClientSocks' = [hClientSocks EXCEPT ![clientCount] = hClientSock]
  /\ mainPc' = "inc"
  /\ UNCHANGED <<networkVars, cur, hClientSock, sessionList, clientCount, threadVars>>

CountConnection ==
  /\ mainPc = "inc"
  /\ clientCount' = clientCount + 1
  /\ hMutex' = "free"
  /\ mainPc' = "spawn"
  /\ UNCHANGED <<networkVars, cur, hClientSock, hClientSocks, sessionList, threadVars>>

(* _beginthreadex, whose result is not looked at: without a thread the       *)
(* connection stays in the table for good.                                   *)
Spawn(label) ==
  /\ mainPc = "spawn"
  /\ pc' = [pc EXCEPT ![cur] = label]
  /\ cur' = NoConn
  /\ mainPc' = "accept"
  /\ UNCHANGED <<networkVars, hClientSock, hMutex, tableVars, sock, slot, userUID, told>>

StartHandler == Spawn("start")
ThreadFails ==
  /\ Cardinality({t \in Conn : pc[t] = "threadless"}) < MaxThreadless
  /\ Spawn("threadless")

-----------------------------------------------------------------------------
(* clientHandler *)

(* The thread reads its socket through the pointer: whatever main's variable *)
(* holds at this moment.                                                     *)
ReadArgument(t) ==
  /\ pc[t] = "start"
  /\ sock' = [sock EXCEPT ![t] = hClientSock]
  /\ pc' = [pc EXCEPT ![t] = "recv"]
  /\ UNCHANGED <<networkVars, mainVars, hMutex, tableVars, slot, userUID, told>>

(* The connection the thread's socket is open on. *)
Peer(t) == IF sock[t] \in Handle THEN owner[sock[t]] ELSE NoConn

(* A login or registration with good credentials arrives.  One that is       *)
(* refused leaves the table as it is.  The client's menu offers it to those  *)
(* not logged in, and all else to those who are.                             *)
RecvLogin(t, u) ==
  /\ pc[t] = "recv"
  /\ Peer(t) \in alive /\ told[Peer(t)] = NoUser
  /\ userUID' = [userUID EXCEPT ![t] = u]
  /\ pc' = [pc EXCEPT ![t] = "login"]
  /\ UNCHANGED <<networkVars, mainVars, hMutex, tableVars, sock, slot, told>>

(* A request that is served with the session: for the personal database, or  *)
(* for a place on the file server.                                           *)
RecvRequest(t) ==
  /\ pc[t] = "recv"
  /\ Peer(t) \in alive /\ told[Peer(t)] # NoUser
  /\ pc' = [pc EXCEPT ![t] = "request"]
  /\ UNCHANGED <<networkVars, mainVars, hMutex, tableVars, sock, slot, userUID, told>>

(* procLogout answers, and leaves the session as it is. *)
RecvLogout(t) ==
  /\ pc[t] = "recv"
  /\ Peer(t) \in alive /\ told[Peer(t)] # NoUser
  /\ told' = [told EXCEPT ![Peer(t)] = NoUser]
  /\ UNCHANGED <<networkVars, mainVars, hMutex, tableVars, pc, sock, slot, userUID>>

(* Mutants of RecvFails: the socket is closed before it is taken out of the  *)
(* table; the thread keeps trying to receive.                                *)
RecvFailsAndCloses(t) ==
  /\ pc[t] = "recv"
  /\ Peer(t) \notin alive
  /\ CloseSocket(sock[t])
  /\ pc' = [pc EXCEPT ![t] = "closing"]
  /\ UNCHANGED <<backlog, spaced, mainVars, hMutex, tableVars, sock, slot, userUID, told>>

RecvFailsAndRetries(t) ==
  /\ pc[t] = "recv"
  /\ Peer(t) \notin alive
  /\ UNCHANGED vars

(* recvRaw fails: the client hung up, or the socket is closed. *)
RecvFails(t) ==
  /\ pc[t] = "recv"
  /\ Peer(t) \notin alive
  /\ pc' = [pc EXCEPT ![t] = "closing"]
  /\ UNCHANGED <<networkVars, mainVars, hMutex, tableVars, sock, slot, userUID, told>>

(* The first slot in use that holds the socket h, or -1. *)
SlotOf(h) ==
  LET found == {i \in Slots : i < clientCount /\ hClientSocks[i] = h}
  IN  IF found = {} THEN -1 ELSE First(found)

TakeMutex(t, from, to) ==
  /\ pc[t] = from
  /\ hMutex = "free"
  /\ hMutex' = t
  /\ slot' = [slot EXCEPT ![t] = SlotOf(sock[t])]
  /\ pc' = [pc EXCEPT ![t] = to]
  /\ UNCHANGED <<networkVars, mainVars, tableVars, sock, userUID, told>>

LockForLogin(t) == TakeMutex(t, "login", "setSession")

Tell(c, u) == told' = IF c \in Conn THEN [told EXCEPT ![c] = u] ELSE told

(* doLogin sets the session, releases the mutex and answers with success. *)
SetSession(t) ==
  /\ pc[t] = "setSession"
  /\ sessionList' = IF slot[t] \in Slots
                    THEN [sessionList EXCEPT ![slot[t]] = userUID[t]]
                    ELSE sessionList
  /\ Tell(Peer(t), userUID[t])
  /\ userUID' = [userUID EXCEPT ![t] = NoUser]
  /\ slot' = [slot EXCEPT ![t] = -1]
  /\ hMutex' = "free"
  /\ pc' = [pc EXCEPT ![t] = "recv"]
  /\ UNCHANGED <<networkVars, mainVars, hClientSocks, clientCount, sock>>

(* Mutant of LockForRequest: the table is searched without the mutex. *)
SearchUnlocked(t) ==
  /\ pc[t] = "request"
  /\ slot' = [slot EXCEPT ![t] = SlotOf(sock[t])]
  /\ pc' = [pc EXCEPT ![t] = "getSession"]
  /\ UNCHANGED <<networkVars, mainVars, hMutex, tableVars, sock, userUID, told>>

LockForRequest(t) == TakeMutex(t, "request", "getSession")

(* The handler copies the userUID of its session.  If it did not find its    *)
(* socket, its variable is not initialised and holds any value.              *)
GetSession(t) ==
  /\ pc[t] = "getSession"
  /\ \E u \in IF slot[t] \in Slots THEN {sessionList[slot[t]]} ELSE User \cup {NoUser} :
       userUID' = [userUID EXCEPT ![t] = u]
  /\ slot' = [slot EXCEPT ![t] = -1]
  /\ hMutex' = "free"
  /\ pc' = [pc EXCEPT ![t] = "serve"]
  /\ UNCHANGED <<networkVars, mainVars, tableVars, sock, told>>

(* The handler serves the request for that user and returns. *)
Serve(t) ==
  /\ pc[t] = "serve"
  /\ userUID' = [userUID EXCEPT ![t] = NoUser]
  /\ pc' = [pc EXCEPT ![t] = "recv"]
  /\ UNCHANGED <<networkVars, mainVars, hMutex, tableVars, sock, slot, told>>

LockForClose(t) == TakeMutex(t, "closing", "shift")

(* An array with entry i of those in use removed, its last used entry zeroed. *)
ShiftOut(array, i, zero) ==
  [k \in Slots |-> IF k < i \/ k >= clientCount THEN array[k]
                   ELSE IF k < clientCount - 1 THEN array[k + 1]
                   ELSE zero]

(* Mutants of ShiftTable: the sessions are not moved with the sockets; the   *)
(* last session in use is not zeroed; a handler that does not find its       *)
(* socket leaves without decrementing clientCount.                           *)
ShiftSocketsOnly(t) ==
  /\ pc[t] = "shift"
  /\ hClientSocks' = IF slot[t] \in Slots
                     THEN ShiftOut(hClientSocks, slot[t], NoSocket) ELSE hClientSocks
  /\ slot' = [slot EXCEPT ![t] = -1]
  /\ pc' = [pc EXCEPT ![t] = "count"]
  /\ UNCHANGED <<networkVars, mainVars, hMutex, clientCount, sessionList, sock, userUID, told>>

ShiftWithoutZeroing(t) ==
  /\ pc[t] = "shift"
  /\ IF slot[t] \in Slots
     THEN /\ hClientSocks' = ShiftOut(hClientSocks, slot[t], NoSocket)
          /\ sessionList' = ShiftOut(sessionList, slot[t], sessionList[clientCount - 1])
     ELSE UNCHANGED <<hClientSocks, sessionList>>
  /\ slot' = [slot EXCEPT ![t] = -1]
  /\ pc' = [pc EXCEPT ![t] = "count"]
  /\ UNCHANGED <<networkVars, mainVars, hMutex, clientCount, sock, userUID, told>>

ShiftOnlyIfFound(t) ==
  /\ pc[t] = "shift"
  /\ IF slot[t] \in Slots
     THEN /\ hClientSocks' = ShiftOut(hClientSocks, slot[t], NoSocket)
          /\ sessionList' = ShiftOut(sessionList, slot[t], NoUser)
          /\ pc' = [pc EXCEPT ![t] = "count"]
          /\ UNCHANGED hMutex
     ELSE /\ hMutex' = "free"
          /\ pc' = [pc EXCEPT ![t] = "close"]
          /\ UNCHANGED <<hClientSocks, sessionList>>
  /\ slot' = [slot EXCEPT ![t] = -1]
  /\ UNCHANGED <<networkVars, mainVars, clientCount, sock, userUID, told>>

ShiftTable(t) ==
  /\ pc[t] = "shift"
  /\ IF slot[t] \in Slots
     THEN /\ hClientSocks' = ShiftOut(hClientSocks, slot[t], NoSocket)
          /\ sessionList' = ShiftOut(sessionList, slot[t], NoUser)
     ELSE UNCHANGED <<hClientSocks, sessionList>>
  /\ slot' = [slot EXCEPT ![t] = -1]
  /\ pc' = [pc EXCEPT ![t] = "count"]
  /\ UNCHANGED <<networkVars, mainVars, hMutex, clientCount, sock, userUID, told>>

(* clientCount is decremented whether or not the socket was found. *)
DropCount(t) ==
  /\ pc[t] = "count"
  /\ clientCount' = clientCount - 1
  /\ hMutex' = "free"
  /\ pc' = [pc EXCEPT ![t] = "close"]
  /\ UNCHANGED <<networkVars, mainVars, hClientSocks, sessionList, sock, slot, userUID, told>>

EndHandler(t) ==
  /\ pc[t] = "close"
  /\ CloseSocket(sock[t])
  /\ pc' = [pc EXCEPT ![t] = "unborn"]
  /\ sock' = [sock EXCEPT ![t] = NoSocket]
  /\ Tell(Peer(t), NoUser)
  /\ UNCHANGED <<backlog, spaced, mainVars, hMutex, tableVars, slot, userUID>>

-----------------------------------------------------------------------------

MainStep ==
  \/ \E c \in Conn, h \in Handle : Accept(c, h)
  \/ RefuseConnection \/ AdmitConnection
  \/ StoreSocket \/ CountConnection \/ StartHandler \/ ThreadFails

HandlerStep(t) ==
  \/ ReadArgument(t)
  \/ RecvFails(t)
  \/ LockForLogin(t) \/ SetSession(t)
  \/ LockForRequest(t) \/ GetSession(t) \/ Serve(t)
  \/ LockForClose(t) \/ ShiftTable(t) \/ DropCount(t)
  \/ EndHandler(t)

Next ==
  \/ \E c \in Conn : Connect(c) \/ HangUp(c)
  \/ MainStep
  \/ \E t \in Conn : \/ HandlerStep(t) \/ RecvRequest(t) \/ RecvLogout(t)
                      \/ \E u \in User : RecvLogin(t, u)

Spec == Init /\ [][Next]_vars

(* Threads run, and the kernel grants the mutex to every thread that keeps   *)
(* waiting for it.  Clients owe nothing.                                     *)
Fairness ==
  /\ WF_vars(MainStep) /\ SF_vars(StoreSocket)
  /\ \A t \in Conn : /\ WF_vars(HandlerStep(t))
                     /\ SF_vars(LockForLogin(t))
                     /\ SF_vars(LockForRequest(t))
                     /\ SF_vars(LockForClose(t))

FairSpec == Spec /\ Fairness

-----------------------------------------------------------------------------
(* Properties *)

(* The connections clientCount counts. *)
Counted == {t \in Conn : pc[t] \in InTable \cup {"threadless", "count"}}
             \cup (IF mainPc = "spawn" THEN {cur} ELSE {})

(* clientCount is the number of connections accepted whose handler has not   *)
(* finished its clean-up, even though it is tested outside the mutex and     *)
(* decremented by handlers that did not find themselves in the table.        *)
CountIsExact == clientCount = Cardinality(Counted)

(* The slot main is about to write exists: the limit it tested before taking *)
(* the mutex still holds when it writes.                                     *)
StoreInBounds == mainPc \in {"lock", "inc"} => clientCount < MaxConnection

(* Nobody is inside a critical section without the mutex. *)
MutualExclusion ==
  /\ \A t \in Conn : pc[t] \in HoldsMutex => hMutex = t
  /\ mainPc = "inc" => hMutex = "main"

(* A connection waiting to be accepted, or with main, has no thread yet. *)
NoThreadYet ==
  /\ \A c \in backlog : pc[c] = "unborn"
  /\ mainPc # "accept" => cur \in Conn \ backlog /\ pc[cur] = "unborn"

(* The inductive invariant behind the first four properties. *)
CountInvariant ==
  TypeOK /\ CountIsExact /\ StoreInBounds /\ MutualExclusion /\ NoThreadYet

(* Each thread serves the connection it was started for ("create a thread    *)
(* and hand over", RelayServer.c:221).                                       *)
HandedOver ==
  \A t \in Conn : pc[t] \in InTable \ {"start"} => Peer(t) = t

(* While arrivals are spaced, what a client was told is what every later     *)
(* look-up by its socket finds: a session survives the removal of other      *)
(* connections and is not shared, whatever its slot or handle held before.   *)
SessionAsTold ==
  spaced =>
    \A t \in Conn :
      pc[t] \in InTable \ {"start"} =>
        /\ SlotOf(sock[t]) # -1
        /\ told[t] # NoUser => sessionList[SlotOf(sock[t])] = told[t]

(* Then also, a request is served for the user its client is logged in as,   *)
(* though the table may shift between the request and the look-up, logging   *)
(* out leaves the session in place, and a handler that does not find its     *)
(* socket goes on with whatever its variable holds (userToFSBridge.c:62-80). *)
ServedAsTold ==
  spaced => \A t \in Conn : pc[t] = "serve" => userUID[t] = told[t] /\ told[t] # NoUser

(* Then also, outside critical sections the table holds the open sockets of  *)
(* the connections counted, each once, and nothing behind them: a handle     *)
(* never stays in the table once the system may give it to another           *)
(* connection.                                                               *)
TableHoldsOpenSockets ==
  spaced /\ hMutex = "free" =>
    /\ \A i \in Slots : i >= clientCount => hClientSocks[i] = NoSocket
                                            /\ sessionList[i] = NoUser
    /\ \A i \in Slots : i < clientCount =>
         /\ hClientSocks[i] \in Handle
         /\ owner[hClientSocks[i]] \in Counted
         /\ \A j \in Slots : j < i => hClientSocks[j] # hClientSocks[i]

(* The inductive invariant behind the last three, and behind the directory   *)
(* below.  The table is one entry ahead of clientCount while main adds a     *)
(* connection, and one behind while a handler removes its own.               *)
Kept == clientCount - (IF \E t \in Conn : pc[t] = "count" THEN 1 ELSE 0)
Filled == Kept + (IF mainPc = "inc" THEN 1 ELSE 0)

(* The connections with an entry. *)
Listed == {t \in Conn : pc[t] \in InTable \cup {"threadless"}}
            \cup (IF mainPc \in {"inc", "spawn"} THEN {cur} ELSE {})

(* A thread that has read its argument and not yet ended. *)
Working(t) == pc[t] \notin {"unborn", "start", "threadless"}

OneArrival ==
  /\ \A c, d \in backlog : c = d
  /\ mainPc # "accept" => backlog = {}
  /\ \A t \in Conn : pc[t] = "start" =>
       mainPc = "accept" /\ backlog = {} /\ \A s \in Conn : pc[s] = "start" => s = t

(* hClientSock is still the socket of the connection main works on or has    *)
(* started a thread for; every other thread has a socket of its own.         *)
SocketsOwned ==
  /\ mainPc # "accept" => hClientSock \in Handle /\ owner[hClientSock] = cur
  /\ \A t \in Conn : pc[t] = "start" => hClientSock \in Handle /\ owner[hClientSock] = t
  /\ \A t \in Conn : Working(t) => sock[t] \in Handle /\ owner[sock[t]] = t
  /\ \A h \in Handle : owner[h] # NoConn =>
       /\ pc[owner[h]] # "unborn" \/ (mainPc # "accept" /\ owner[h] = cur)
       /\ \A g \in Handle : owner[g] = owner[h] => g = h

TableLists ==
  /\ \A i \in Slots : i < Filled =>
       /\ hClientSocks[i] \in Handle /\ owner[hClientSocks[i]] \in Listed
       /\ \A j \in Slots : j < Filled /\ hClientSocks[j] = hClientSocks[i] => j = i
  /\ \A c \in Listed : \E i \in Slots : i < Filled /\ owner[hClientSocks[i]] = c
  /\ \A i \in Slots : /\ i >= Filled => hClientSocks[i] = NoSocket
                      /\ i >= Kept => sessionList[i] = NoUser
  /\ mainPc = "inc" => hClientSocks[clientCount] = hClientSock

(* A client that was told of a login has a thread, which found its slot.     *)
SessionsStored ==
  /\ \A i \in Slots : i < Filled /\ told[owner[hClientSocks[i]]] # NoUser =>
       sessionList[i] = told[owner[hClientSocks[i]]]
  /\ \A t \in Conn :
       /\ told[t] # NoUser => Working(t)
       /\ pc[t] \in {"setSession", "getSession", "shift"} =>
            slot[t] \in Slots /\ slot[t] < Filled /\ hClientSocks[slot[t]] = sock[t]
       /\ pc[t] \in {"login", "setSession"} => userUID[t] \in User
       /\ pc[t] \in {"request", "getSession", "serve"} => told[t] # NoUser
       /\ pc[t] = "serve" => userUID[t] = told[t]

TableParts == OneArrival /\ SocketsOwned /\ TableLists /\ SessionsStored

TableInvariant == spaced => TableParts

(* While arrivals are spaced, a connection waiting to be accepted is served  *)
(* or closed, unless no thread can be created for it.                        *)
WaitingIsAnswered ==
  \A c \in Conn : c \in backlog ~>
    (~spaced \/ pc[c] \in {"recv", "threadless"} \/ c \notin alive)

(* Then also, when a client hangs up its handler ends, its slot is free      *)
(* again and its handle closed: slots are not used up by connections long    *)
(* gone.                                                                     *)
HangUpFreesSlot ==
  \A c \in Conn :
    (pc[c] = "recv" /\ c \notin alive) ~>
      (~spaced \/ (pc[c] = "unborn" /\ \A h \in Handle : owner[h] # c))

-----------------------------------------------------------------------------
(* What the table promises its users: a directory of sessions. *)

Entry(c) == {i \in Slots : /\ i < clientCount
                           /\ hClientSocks[i] \in Handle
                           /\ owner[hClientSocks[i]] = c}

Absent == "absent"

directory == [c \in Conn |->
                IF Entry(c) = {} THEN Absent
                ELSE sessionList[First(Entry(c))]]

Directory == INSTANCE SessionDirectory WITH
               Client <- Conn, Limit <- MaxConnection,
               session <- directory, reliable <- spaced

ImplementsDirectory == Directory!Spec

==============================================================================
