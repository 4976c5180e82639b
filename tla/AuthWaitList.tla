----------------------------- MODULE AuthWaitList -----------------------------
(***************************************************************************)
(* The file server's list of users who may log in (userAuthManager.c,      *)
(* garbageCollector.c).                                                    *)
(*                                                                         *)
(* The relay server asks for a place for one user after the other; the     *)
(* thread serving its connection appends an entry [key, time, uid] to      *)
(* authWaitList without taking the mutex.  The user's client then connects *)
(* and logs in with the key.  A garbage collector wakes up every 10        *)
(* seconds and deletes the entries that are used or older than 60 seconds. *)
(*                                                                         *)
(* A request has the name of its key and of its user, a member of Req; the *)
(* name is free again when the client has left and the key is not listed.  *)
(* Time is kept as the age of each entry, up to the age at which it is     *)
(* expired; a used entry (authWaitTime = 0) is one that has expired.       *)
(***************************************************************************)
EXTENDS Integers, FiniteSets, Search

CONSTANTS
  Req,             \* requests of the relay server for its users
  NoReq,           \* key and user of an entry never written
  MaxConnection,   \* maxConnection of the file server
  MaxAge           \* the age an entry may reach: 60 seconds, in ticks

ASSUME ReqAssumption == IsFiniteSet(Req) /\ NoReq \notin Req
ASSUME MaxAssumption == MaxConnection \in Nat \ {0}
ASSUME AgeAssumption == MaxAge \in Nat

VARIABLES
  authWaitList,    \* the array
  authWaitCount,   \* number of entries in use
  addPc,           \* where procAddUserAuthWaitList is
  adding,          \* the request it is working on
  addIndex,        \* authWaitCount as read by authWaitCount++
  gcPc,            \* where waitingListGC is; it holds the mutex unless asleep
  gcIndex,         \* its loop variable i
  gcCount,         \* authWaitCount as read by authWaitCount--
  overlapped,      \* an addition and a pass of the collector, microseconds
                   \* every 10 seconds, have been under way at the same time
  client,          \* what the client of each request is doing
  session          \* the userUID the file server keeps for its connection

addVars == <<addPc, adding, addIndex>>
gcVars == <<gcPc, gcIndex, gcCount, overlapped>>
listVars == <<authWaitList, authWaitCount>>
vars == <<listVars, addVars, gcVars, client, session>>

Slots == 0 .. MaxConnection - 1
Expired == MaxAge + 1
DC_AUTHWAIT_LIST == [key : Req \cup {NoReq}, age : 0 .. Expired, uid : Req \cup {NoReq}]

(* The clients connected to the file server; the relay server is one more. *)
Seated == {r \in Req : client[r] \in {"connected", "loggedIn", "rejected"}}
clientCount == 1 + Cardinality(Seated)

InUse == {i \in Slots : i < authWaitCount}
Listed == {authWaitList[i].key : i \in InUse}

TypeOK ==
  /\ authWaitList \in [Slots -> DC_AUTHWAIT_LIST]
  /\ authWaitCount \in Int
  /\ addPc \in {"idle", "key", "time", "uid", "count"}
  /\ adding \in Req \cup {NoReq}
  /\ addIndex \in Int
  /\ gcPc \in {"asleep", "scan", "decrement"}
  /\ gcIndex \in Nat
  /\ gcCount \in Int
  /\ overlapped \in BOOLEAN
  /\ client \in [Req -> {"out", "asked", "granted", "connected", "loggedIn", "rejected"}]
  /\ session \in [Req -> Req \cup {NoReq}]

Init ==
  /\ authWaitList = [i \in Slots |-> [key |-> NoReq, age |-> Expired, uid |-> NoReq]]
  /\ authWaitCount = 0
  /\ addPc = "idle" /\ adding = NoReq /\ addIndex = 0
  /\ gcPc = "asleep" /\ gcIndex = 0 /\ gcCount = 0
  /\ overlapped = FALSE
  /\ client = [r \in Req |-> "out"]
  /\ session = [r \in Req |-> NoReq]

(* One tick of time(NULL): every entry of the array gets older. *)
Tick ==
  /\ authWaitList' = [i \in Slots |->
       [authWaitList[i] EXCEPT !.age = IF @ < Expired THEN @ + 1 ELSE @]]
  /\ UNCHANGED <<authWaitCount, addVars, gcVars, client, session>>

-----------------------------------------------------------------------------
(* procAddUserAuthWaitList, for one request of the relay server at a time *)

(* Mutant of AskForPlace: the connections are not counted. *)
AskIgnoringConnections(r) ==
  /\ addPc = "idle"
  /\ client[r] = "out" /\ r \notin Listed
  /\ IF authWaitCount >= MaxConnection
     THEN UNCHANGED <<addPc, adding, client>>
     ELSE /\ addPc' = "key"
          /\ adding' = r
          /\ client' = [client EXCEPT ![r] = "asked"]
  /\ overlapped' = (overlapped \/ gcPc # "asleep")
  /\ UNCHANGED <<listVars, addIndex, gcPc, gcIndex, gcCount, session>>

(* A place is refused when entries and connections fill the server. *)
AskForPlace(r) ==
  /\ addPc = "idle"
  /\ client[r] = "out" /\ r \notin Listed
  /\ IF authWaitCount + clientCount >= MaxConnection
     THEN UNCHANGED <<addPc, adding, client>>
     ELSE /\ addPc' = "key"
          /\ adding' = r
          /\ client' = [client EXCEPT ![r] = "asked"]
  /\ overlapped' = (overlapped \/ gcPc # "asleep")
  /\ UNCHANGED <<listVars, addIndex, gcPc, gcIndex, gcCount, session>>

WriteKey ==
  /\ addPc = "key"
  /\ authWaitList' = [authWaitList EXCEPT ![authWaitCount].key = adding]
  /\ addPc' = "time"
  /\ UNCHANGED <<authWaitCount, adding, addIndex, gcVars, client, session>>

WriteTime ==
  /\ addPc = "time"
  /\ authWaitList' = [authWaitList EXCEPT ![authWaitCount].age = 0]
  /\ addPc' = "uid"
  /\ UNCHANGED <<authWaitCount, adding, addIndex, gcVars, client, session>>

(* authWaitCount++ is read here and written in the next step. *)
WriteUid ==
  /\ addPc = "uid"
  /\ authWaitList' = [authWaitList EXCEPT ![authWaitCount].uid = adding]
  /\ addIndex' = authWaitCount
  /\ addPc' = "count"
  /\ UNCHANGED <<authWaitCount, adding, gcVars, client, session>>

(* Mutant of Grant: authWaitCount is not incremented. *)
GrantWithoutCount ==
  /\ addPc = "count"
  /\ authWaitCount' = addIndex
  /\ client' = [client EXCEPT ![adding] = "granted"]
  /\ addPc' = "idle" /\ adding' = NoReq /\ addIndex' = 0
  /\ UNCHANGED <<authWaitList, gcVars, session>>

(* The count is written and the relay server, then the client, told: granted. *)
Grant ==
  /\ addPc = "count"
  /\ authWaitCount' = addIndex + 1
  /\ client' = [client EXCEPT ![adding] = "granted"]
  /\ addPc' = "idle" /\ adding' = NoReq /\ addIndex' = 0
  /\ UNCHANGED <<authWaitList, gcVars, session>>

-----------------------------------------------------------------------------
(* Clients *)

(* The file server closes a connection at once when it is full. *)
Connect(r) ==
  /\ client[r] = "granted"
  /\ client' = [client EXCEPT ![r] =
                  IF clientCount < MaxConnection THEN "connected" ELSE "out"]
  /\ UNCHANGED <<listVars, addVars, gcVars, session>>

(* procFileLogin: the first entry with the key gives the session its user    *)
(* and is marked for the collector.                                          *)
procFileLogin(r) ==
  /\ client[r] = "connected"
  /\ gcPc = "asleep"
  /\ LET found == {i \in InUse : authWaitList[i].key = r}
         first == First(found)
     IN  IF found = {}
         THEN /\ client' = [client EXCEPT ![r] = "rejected"]
              /\ UNCHANGED <<authWaitList, session>>
         ELSE /\ client' = [client EXCEPT ![r] = "loggedIn"]
              /\ session' = [session EXCEPT ![r] = authWaitList[first].uid]
              /\ authWaitList' = [authWaitList EXCEPT ![first].age = Expired]
  /\ UNCHANGED <<authWaitCount, addVars, gcVars>>

(* A client may close its connection, or never come for its place. *)
Leave(r) ==
  /\ client[r] \in {"granted", "connected", "loggedIn", "rejected"}
  /\ client' = [client EXCEPT ![r] = "out"]
  /\ session' = [session EXCEPT ![r] = NoReq]
  /\ UNCHANGED <<listVars, addVars, gcVars>>

-----------------------------------------------------------------------------
(* waitingListGC *)

StartPass ==
  /\ gcPc = "asleep"
  /\ gcPc' = "scan"
  /\ gcIndex' = 0
  /\ overlapped' = (overlapped \/ addPc # "idle")
  /\ UNCHANGED <<listVars, addVars, gcCount, client, session>>

KeepEntry ==
  /\ gcPc = "scan"
  /\ gcIndex < authWaitCount
  /\ authWaitList[gcIndex].age < Expired
  /\ gcIndex' = gcIndex + 1
  /\ UNCHANGED <<listVars, addVars, gcPc, gcCount, overlapped, client, session>>

(* Mutant of CopyNext: only the key of the next entry is copied. *)
CopyNextKey ==
  /\ gcPc = "scan"
  /\ gcIndex < authWaitCount
  /\ authWaitList[gcIndex].age = Expired
  /\ authWaitList' = [authWaitList EXCEPT
       ![gcIndex] = [authWaitList[gcIndex + 1] EXCEPT !.uid = authWaitList[gcIndex].uid]]
  /\ gcCount' = authWaitCount
  /\ gcPc' = "decrement"
  /\ UNCHANGED <<authWaitCount, addVars, gcIndex, overlapped, client, session>>

(* One entry, the next, is copied over the expired one; what lies behind it  *)
(* stays where it is.                                                        *)
CopyNext ==
  /\ gcPc = "scan"
  /\ gcIndex < authWaitCount
  /\ authWaitList[gcIndex].age = Expired
  /\ authWaitList' = [authWaitList EXCEPT ![gcIndex] = authWaitList[gcIndex + 1]]
  /\ gcCount' = authWaitCount
  /\ gcPc' = "decrement"
  /\ UNCHANGED <<authWaitCount, addVars, gcIndex, overlapped, client, session>>

(* Mutant of Decrement: the index steps back and is not advanced again. *)
DecrementAndStepBack ==
  /\ gcPc = "decrement"
  /\ authWaitCount' = gcCount - 1
  /\ gcCount' = 0
  /\ gcIndex' = gcIndex - 1
  /\ gcPc' = "scan"
  /\ UNCHANGED <<authWaitList, addVars, overlapped, client, session>>

(* authWaitCount--, and the loop looks at the same index again. *)
Decrement ==
  /\ gcPc = "decrement"
  /\ authWaitCount' = gcCount - 1
  /\ gcCount' = 0
  /\ gcPc' = "scan"
  /\ UNCHANGED <<authWaitList, addVars, gcIndex, overlapped, client, session>>

(* Mutant of EndPass: the loop may stop before the last entry. *)
EndPassEarly ==
  /\ gcPc = "scan"
  /\ gcIndex >= authWaitCount - 1
  /\ gcPc' = "asleep"
  /\ gcIndex' = 0
  /\ UNCHANGED <<listVars, addVars, gcCount, overlapped, client, session>>

EndPass ==
  /\ gcPc = "scan"
  /\ gcIndex >= authWaitCount
  /\ gcPc' = "asleep"
  /\ gcIndex' = 0
  /\ UNCHANGED <<listVars, addVars, gcCount, overlapped, client, session>>

-----------------------------------------------------------------------------

AddStep == WriteKey \/ WriteTime \/ WriteUid \/ Grant
GcStep == StartPass \/ KeepEntry \/ CopyNext \/ Decrement \/ EndPass

Next ==
  \/ Tick
  \/ AddStep
  \/ GcStep
  \/ \E r \in Req : AskForPlace(r) \/ Connect(r) \/ procFileLogin(r) \/ Leave(r)

Spec == Init /\ [][Next]_vars

(* Time passes, the threads of the file server run and the collector wakes   *)
(* up again and again.  Nothing makes a client act.                          *)
FairSpec == Spec /\ WF_vars(Tick) /\ WF_vars(AddStep) /\ SF_vars(StartPass)
                 /\ WF_vars(KeepEntry \/ CopyNext \/ Decrement \/ EndPass)

-----------------------------------------------------------------------------
(* Properties *)

(* The array has an entry behind the last one in use: the unlocked addition  *)
(* writes inside the array (userAuthManager.c:60-62) and the collector's     *)
(* copy of entry i + 1 (garbageCollector.c:41) reads inside it, however the  *)
(* two interleave.                                                           *)
InBounds == authWaitCount \in Slots

(* The invariant behind InBounds.  The relay server's own connection is one  *)
(* of clientCount, so a place is only given while two entries are free; the  *)
(* collector can only lower the count in the meantime.                       *)
BoundsInvariant ==
  /\ TypeOK
  /\ InBounds
  /\ addPc # "idle" => authWaitCount < MaxConnection - 1
  /\ addPc = "count" => addIndex \in 0 .. MaxConnection - 2
  /\ gcPc = "decrement" => gcCount \in 1 .. MaxConnection - 1

(* As long as no addition overlapped a pass, a client that logs in gets the  *)
(* session of the user its key was made for, whatever the collector copied   *)
(* in between.                                                               *)
SessionOfOwnUser ==
  ~overlapped => \A r \in Req : client[r] = "loggedIn" => session[r] = r

(* Then also, when the relay server is told that a user was added, the       *)
(* user's key is in the list ("add to the waiting list",                     *)
(* userAuthManager.c:59).                                                    *)
GrantedIsListed ==
  [][\A r \in Req : ~overlapped /\ client[r] = "asked" /\ client'[r] = "granted"
                      => r \in Listed']_vars

(* Then also, the list loses a key only when its entry is used or over age   *)
(* ("deletes the entries whose time is exceeded", garbageCollector.c:31).    *)
OnlyExpiredAreDeleted ==
  [][~overlapped =>
       \A i \in InUse : authWaitList[i].age < Expired => authWaitList[i].key \in Listed']_vars

(* A used entry leaves the list, so that its place can be given again, and   *)
(* so does one that is over age; unless an addition overlaps a pass, when    *)
(* authWaitCount++ can undo the collector's authWaitCount--.                 *)
UsedIsCollected ==
  \A r \in Req :
    (\E i \in InUse : authWaitList[i].key = r /\ authWaitList[i].age = Expired)
      ~> (r \notin Listed \/ overlapped)

==============================================================================
