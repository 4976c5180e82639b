------------------------ MODULE ConnectionTable_proofs ------------------------
(***************************************************************************)
(* What holds of ConnectionTable for every number of connections, handles  *)
(* and slots, and however the clients arrive.                              *)
(***************************************************************************)
EXTENDS ConnectionTable, FiniteSetTheorems, WellFoundedInduction, TLAPS

(* A set of natural numbers that is not empty has a smallest element. *)
LEMMA SmallestExists ==
  ASSUME NEW T \in SUBSET Nat, T # {}
  PROVE  \E x \in T : \A y \in T : x <= y
<1> DEFINE R == {ss \in Nat \X Nat : ss[1] < ss[2]}
<1>1. IsWellFoundedOn(R, Nat)
  BY NatLessThanWellFounded, Zenon DEF OpToRel
<1>2. ASSUME NEW x \in Nat, NEW y \in Nat, <<y, x>> \notin R
      PROVE  x <= y
  <2>1. <<y, x>> \in Nat \X Nat /\ <<y, x>>[1] = y /\ <<y, x>>[2] = x
    OBVIOUS
  <2>2. ~ (y < x)
    BY <1>2, <2>1, Zenon
  <2> QED
    BY <2>2
<1> HIDE DEF R
<1>3. PICK x \in T : \A y \in T : <<y, x>> \notin R
  BY <1>1, WFMin
<1> QED
  BY <1>2, <1>3

(* The first of the indices is one of them, and none is before it. *)
LEMMA FirstProperty ==
  ASSUME NEW T \in SUBSET Nat, T # {}
  PROVE  First(T) \in T /\ \A y \in T : First(T) <= y
BY SmallestExists DEF First

(* A search of the table returns a slot or -1. *)
LEMMA SlotOfType ==
  ASSUME NEW h
  PROVE  SlotOf(h) \in Slots \cup {-1}
<1> DEFINE found == {i \in Slots : i < clientCount /\ hClientSocks[i] = h}
<1>1. CASE found = {}
  BY <1>1 DEF SlotOf
<1>2. CASE found # {}
  <2>1. found \in SUBSET Nat
    BY MaxAssumption DEF Slots
  <2>2. First(found) \in found
    BY <1>2, <2>1, FirstProperty
  <2> QED
    BY <1>2, <2>2 DEF SlotOf
<1> QED
  BY <1>1, <1>2

(* An array stays an array over the slots when an entry is shifted out. *)
LEMMA ShiftOutType ==
  ASSUME NEW S, NEW array \in [Slots -> S], NEW zero \in S, NEW i \in Slots,
         clientCount \in 0 .. MaxConnection
  PROVE  ShiftOut(array, i, zero) \in [Slots -> S]
BY MaxAssumption DEF ShiftOut, Slots

(* The counted connections form a finite set. *)
LEMMA CountedFinite ==
  ASSUME TypeOK, NoThreadYet
  PROVE  Counted \subseteq Conn /\ IsFiniteSet(Counted)
<1>1. Counted \subseteq Conn
  BY DEF Counted, TypeOK, NoThreadYet
<1> QED
  BY <1>1, ConnAssumption, FS_Subset

-----------------------------------------------------------------------------
(* The invariant is inductive. *)

LEMMA InitCountInvariant == Init => CountInvariant
<1> SUFFICES ASSUME Init PROVE CountInvariant
  OBVIOUS
<1>1. TypeOK
  BY MaxAssumption DEF Init, TypeOK, Slots
<1>2. Counted = {}
  BY DEF Init, Counted, InTable
<1>3. CountIsExact
  BY <1>2, FS_EmptySet DEF Init, CountIsExact
<1> QED
  BY <1>1, <1>3 DEF Init, CountInvariant, StoreInBounds, MutualExclusion,
     HoldsMutex, NoThreadYet

(* Steps of the clients. *)
LEMMA ClientPreserves ==
  ASSUME CountInvariant, NEW c \in Conn, Connect(c) \/ HangUp(c)
  PROVE  CountInvariant'
<1> USE DEF CountInvariant
<1>1. UNCHANGED <<owner, mainVars, hMutex, tableVars, threadVars>>
  BY DEF Connect, HangUp
<1>2. Counted' = Counted
  BY <1>1 DEF Counted, mainVars, threadVars
<1>3. TypeOK'
  BY <1>1 DEF TypeOK, Connect, HangUp, mainVars, tableVars, threadVars
<1>4. NoThreadYet'
  <2>1. backlog' = backlog \/ (backlog' = backlog \cup {c} /\ c # cur /\ pc[c] = "unborn")
    BY DEF Connect, HangUp
  <2> QED
    BY <1>1, <2>1 DEF NoThreadYet, mainVars, threadVars
<1> QED
  BY <1>1, <1>2, <1>3, <1>4 DEF CountIsExact, StoreInBounds, MutualExclusion,
     mainVars, tableVars, threadVars

(* Steps of main.  Only main increments clientCount, so the limit it tested  *)
(* without the mutex still holds when it stores the socket.                  *)
LEMMA MainPreserves ==
  ASSUME CountInvariant, MainStep
  PROVE  CountInvariant'
<1> USE DEF CountInvariant, mainVars, tableVars, threadVars, networkVars
<1>1. ASSUME NEW c \in Conn, NEW h \in Handle, Accept(c, h)
      PROVE  CountInvariant'
  <2>1. Counted' = Counted
    BY <1>1 DEF Accept, Counted
  <2>2. TypeOK'
    BY <1>1 DEF Accept, TypeOK
  <2>3. NoThreadYet'
    BY <1>1 DEF Accept, NoThreadYet
  <2> QED
    BY <1>1, <2>1, <2>2, <2>3 DEF Accept, CountIsExact, StoreInBounds, MutualExclusion
<1>2. ASSUME RefuseConnection
      PROVE  CountInvariant'
  <2>1. Counted' = Counted
    BY <1>2 DEF RefuseConnection, Counted
  <2>2. TypeOK'
    BY <1>2 DEF RefuseConnection, CloseSocket, TypeOK
  <2>3. NoThreadYet'
    BY <1>2 DEF RefuseConnection, NoThreadYet
  <2> QED
    BY <1>2, <2>1, <2>2, <2>3
    DEF RefuseConnection, CountIsExact, StoreInBounds, MutualExclusion
<1>3. ASSUME AdmitConnection
      PROVE  CountInvariant'
  <2>1. Counted' = Counted
    BY <1>3 DEF AdmitConnection, Counted
  <2>2. TypeOK'
    BY <1>3 DEF AdmitConnection, TypeOK
  <2>3. NoThreadYet'
    BY <1>3 DEF AdmitConnection, NoThreadYet
  <2> QED
    BY <1>3, <2>1, <2>2, <2>3
    DEF AdmitConnection, CountIsExact, StoreInBounds, MutualExclusion
<1>4. ASSUME StoreSocket
      PROVE  CountInvariant'
  <2>1. Counted' = Counted
    BY <1>4 DEF StoreSocket, Counted
  <2>2. TypeOK'
    BY <1>4 DEF StoreSocket, TypeOK
  <2>3. NoThreadYet'
    BY <1>4 DEF StoreSocket, NoThreadYet
  <2>4. MutualExclusion'
    BY <1>4, ConnAssumption DEF StoreSocket, MutualExclusion
  <2> QED
    BY <1>4, <2>1, <2>2, <2>3, <2>4 DEF StoreSocket, CountIsExact, StoreInBounds
<1>5. ASSUME CountConnection
      PROVE  CountInvariant'
  <2>1. cur \in Conn /\ pc[cur] = "unborn"
    BY <1>5 DEF CountConnection, NoThreadYet
  <2>2. cur \notin Counted /\ Counted' = Counted \cup {cur}
    BY <1>5, <2>1 DEF CountConnection, Counted, InTable
  <2>3. Cardinality(Counted') = Cardinality(Counted) + 1
    BY <2>2, CountedFinite, FS_AddElement
  <2>4. CountIsExact'
    BY <1>5, <2>3 DEF CountConnection, CountIsExact
  <2>5. TypeOK'
    <3>1. clientCount' \in 0 .. MaxConnection
      BY <1>5, MaxAssumption DEF CountConnection, StoreInBounds, TypeOK
    <3> QED
      BY <1>5, <3>1 DEF CountConnection, TypeOK
  <2>6. NoThreadYet'
    BY <1>5 DEF CountConnection, NoThreadYet
  <2>7. MutualExclusion'
    BY <1>5, ConnAssumption DEF CountConnection, MutualExclusion
  <2> QED
    BY <1>5, <2>4, <2>5, <2>6, <2>7 DEF CountConnection, StoreInBounds
<1>6. ASSUME NEW label \in {"start", "threadless"}, Spawn(label)
      PROVE  CountInvariant'
  <2>1. cur \in Conn \ backlog /\ pc[cur] = "unborn"
    BY <1>6 DEF Spawn, NoThreadYet
  <2>2. Counted' = Counted
    BY <1>6, <2>1 DEF Spawn, Counted, InTable, TypeOK
  <2>3. TypeOK'
    BY <1>6, <2>1 DEF Spawn, TypeOK
  <2>4. NoThreadYet'
    BY <1>6, <2>1 DEF Spawn, NoThreadYet, TypeOK
  <2>5. MutualExclusion'
    BY <1>6, <2>1 DEF Spawn, MutualExclusion, HoldsMutex, TypeOK
  <2> QED
    BY <1>6, <2>2, <2>3, <2>4, <2>5 DEF Spawn, CountIsExact, StoreInBounds
<1> QED
  BY <1>1, <1>2, <1>3, <1>4, <1>5, <1>6 DEF MainStep, StartHandler, ThreadFails

(* Steps of a handler that leave it counted and do not touch the mutex. *)
LEMMA QuietPreserves ==
  ASSUME CountInvariant, NEW t \in Conn,
         \/ ReadArgument(t) \/ RecvFails(t) \/ \E u \in User : RecvLogin(t, u)
         \/ RecvRequest(t) \/ RecvLogout(t) \/ Serve(t)
  PROVE  CountInvariant'
<1> USE DEF CountInvariant, mainVars, tableVars, networkVars
<1>1. /\ UNCHANGED <<networkVars, mainVars, hMutex, tableVars>>
      /\ pc[t] \in {"start", "recv", "serve"}
      /\ \E p \in {"recv", "login", "request", "closing"} : pc' = [pc EXCEPT ![t] = p]
  BY DEF TypeOK, ReadArgument, RecvLogin, RecvFails, RecvRequest, RecvLogout, Serve
<1>2. TypeOK'
  BY DEF TypeOK, ReadArgument, RecvLogin, RecvFails, RecvRequest, RecvLogout, Serve
<1>3. Counted' = Counted
  BY <1>1 DEF Counted, InTable, TypeOK
<1>4. MutualExclusion'
  BY <1>1 DEF MutualExclusion, HoldsMutex, TypeOK
<1>5. NoThreadYet'
  BY <1>1 DEF NoThreadYet, TypeOK
<1> QED
  BY <1>1, <1>2, <1>3, <1>4, <1>5 DEF CountIsExact, StoreInBounds

(* A handler takes the mutex. *)
LEMMA TakeMutexPreserves ==
  ASSUME CountInvariant, NEW t \in Conn, LockForLogin(t) \/ LockForRequest(t) \/ LockForClose(t)
  PROVE  CountInvariant'
<1> USE DEF CountInvariant, mainVars, tableVars, networkVars
<1>1. /\ UNCHANGED <<networkVars, mainVars, tableVars, sock, userUID, told>>
      /\ hMutex = "free" /\ hMutex' = t
      /\ slot' = [slot EXCEPT ![t] = SlotOf(sock[t])]
      /\ pc[t] \in {"login", "request", "closing"}
      /\ \E p \in {"setSession", "getSession", "shift"} : pc' = [pc EXCEPT ![t] = p]
  BY DEF LockForLogin, LockForRequest, LockForClose, TakeMutex
<1>2. TypeOK'
  <2>1. SlotOf(sock[t]) \in Slots \cup {-1}
    BY SlotOfType
  <2> QED
    BY <1>1, <2>1 DEF TypeOK
<1>3. Counted' = Counted
  BY <1>1 DEF Counted, InTable, TypeOK
<1>4. MutualExclusion'
  BY <1>1, ConnAssumption DEF MutualExclusion, HoldsMutex, TypeOK
<1>5. NoThreadYet'
  BY <1>1 DEF NoThreadYet, TypeOK
<1> QED
  BY <1>1, <1>2, <1>3, <1>4, <1>5 DEF CountIsExact, StoreInBounds

(* A handler works on the table, holding the mutex. *)
LEMMA SetSessionPreserves ==
  ASSUME CountInvariant, NEW t \in Conn, SetSession(t)
  PROVE  CountInvariant'
<1> USE DEF CountInvariant, mainVars, networkVars
<1>1. TypeOK'
  BY DEF TypeOK, SetSession, Tell
<1>2. Counted' = Counted
  BY DEF Counted, InTable, TypeOK, SetSession
<1>3. MutualExclusion'
  <2>1. hMutex = t /\ mainPc # "inc"
    BY ConnAssumption DEF MutualExclusion, HoldsMutex, SetSession
  <2> QED
    BY <2>1 DEF MutualExclusion, HoldsMutex, TypeOK, SetSession
<1>4. NoThreadYet'
  BY DEF NoThreadYet, TypeOK, SetSession
<1> QED
  BY <1>1, <1>2, <1>3, <1>4 DEF CountIsExact, StoreInBounds, SetSession

LEMMA GetSessionPreserves ==
  ASSUME CountInvariant, NEW t \in Conn, GetSession(t)
  PROVE  CountInvariant'
<1> USE DEF CountInvariant, mainVars, tableVars, networkVars
<1>1. TypeOK'
  BY DEF TypeOK, GetSession
<1>2. Counted' = Counted
  BY DEF Counted, InTable, TypeOK, GetSession
<1>3. MutualExclusion'
  <2>1. hMutex = t /\ mainPc # "inc"
    BY ConnAssumption DEF MutualExclusion, HoldsMutex, GetSession
  <2> QED
    BY <2>1 DEF MutualExclusion, HoldsMutex, TypeOK, GetSession
<1>4. NoThreadYet'
  BY DEF NoThreadYet, TypeOK, GetSession
<1> QED
  BY <1>1, <1>2, <1>3, <1>4 DEF CountIsExact, StoreInBounds, GetSession

LEMMA ShiftTablePreserves ==
  ASSUME CountInvariant, NEW t \in Conn, ShiftTable(t)
  PROVE  CountInvariant'
<1> USE DEF CountInvariant, mainVars, networkVars
<1>1. TypeOK'
  <2>1. ASSUME slot[t] \in Slots
        PROVE  /\ hClientSocks' \in [Slots -> Handle \cup {NoSocket}]
               /\ sessionList' \in [Slots -> User \cup {NoUser}]
    <3>1. ShiftOut(hClientSocks, slot[t], NoSocket) \in [Slots -> Handle \cup {NoSocket}]
      BY <2>1, ShiftOutType DEF TypeOK
    <3>2. ShiftOut(sessionList, slot[t], NoUser) \in [Slots -> User \cup {NoUser}]
      BY <2>1, ShiftOutType DEF TypeOK
    <3> QED
      BY <2>1, <3>1, <3>2 DEF ShiftTable
  <2> QED
    BY <2>1 DEF TypeOK, ShiftTable
<1>2. Counted' = Counted
  BY DEF Counted, InTable, TypeOK, ShiftTable
<1>3. MutualExclusion'
  BY DEF MutualExclusion, HoldsMutex, TypeOK, ShiftTable
<1>4. NoThreadYet'
  BY DEF NoThreadYet, TypeOK, ShiftTable
<1> QED
  BY <1>1, <1>2, <1>3, <1>4 DEF CountIsExact, StoreInBounds, ShiftTable

(* clientCount is decremented: the handler's own connection is one of those  *)
(* counted, so the count was not zero.                                       *)
LEMMA DropCountPreserves ==
  ASSUME CountInvariant, NEW t \in Conn, DropCount(t)
  PROVE  CountInvariant'
<1> USE DEF CountInvariant, mainVars, networkVars
<1>1. t \in Counted /\ Counted' = Counted \ {t}
  BY DEF Counted, InTable, TypeOK, NoThreadYet, DropCount
<1>2. Cardinality(Counted') = Cardinality(Counted) - 1 /\ Cardinality(Counted') \in Nat
  BY <1>1, CountedFinite, FS_RemoveElement, FS_CardinalityType
<1>3. CountIsExact'
  BY <1>2 DEF CountIsExact, DropCount
<1>4. TypeOK'
  <2>1. clientCount' \in 0 .. MaxConnection
    BY <1>2, <1>3, MaxAssumption DEF CountIsExact, TypeOK, DropCount
  <2> QED
    BY <2>1 DEF TypeOK, DropCount
<1>5. StoreInBounds'
  BY MaxAssumption DEF StoreInBounds, TypeOK, DropCount
<1>6. MutualExclusion'
  <2>1. hMutex = t /\ mainPc # "inc"
    BY ConnAssumption DEF MutualExclusion, HoldsMutex, DropCount
  <2> QED
    BY <2>1 DEF MutualExclusion, HoldsMutex, TypeOK, DropCount
<1>7. NoThreadYet'
  BY DEF NoThreadYet, TypeOK, DropCount
<1> QED
  BY <1>3, <1>4, <1>5, <1>6, <1>7

LEMMA EndHandlerPreserves ==
  ASSUME CountInvariant, NEW t \in Conn, EndHandler(t)
  PROVE  CountInvariant'
<1> USE DEF CountInvariant, mainVars, tableVars
<1>1. TypeOK'
  BY DEF TypeOK, EndHandler, CloseSocket, Tell
<1>2. Counted' = Counted
  BY DEF Counted, InTable, TypeOK, NoThreadYet, EndHandler
<1>3. MutualExclusion'
  BY DEF MutualExclusion, HoldsMutex, TypeOK, EndHandler
<1>4. NoThreadYet'
  BY DEF NoThreadYet, TypeOK, EndHandler
<1> QED
  BY <1>1, <1>2, <1>3, <1>4 DEF CountIsExact, StoreInBounds, EndHandler

-----------------------------------------------------------------------------

LEMMA NextPreserves == CountInvariant /\ [Next]_vars => CountInvariant'
<1> SUFFICES ASSUME CountInvariant, [Next]_vars
             PROVE  CountInvariant'
  OBVIOUS
<1>1. CASE \E c \in Conn : Connect(c) \/ HangUp(c)
  BY <1>1, ClientPreserves
<1>2. CASE MainStep
  BY <1>2, MainPreserves
<1>3. ASSUME NEW t \in Conn, HandlerStep(t)
      PROVE  CountInvariant'
  BY <1>3, QuietPreserves, TakeMutexPreserves, SetSessionPreserves, GetSessionPreserves,
     ShiftTablePreserves, DropCountPreserves, EndHandlerPreserves DEF HandlerStep
<1>4. ASSUME NEW t \in Conn,
             (\E u \in User : RecvLogin(t, u)) \/ RecvRequest(t) \/ RecvLogout(t)
      PROVE  CountInvariant'
  BY <1>4, QuietPreserves
<1>5. CASE UNCHANGED vars
  <2>1. Counted' = Counted
    BY <1>5 DEF Counted, vars, mainVars, threadVars
  <2> QED
    BY <1>5, <2>1 DEF CountInvariant, TypeOK, CountIsExact, StoreInBounds,
       MutualExclusion, NoThreadYet, vars, networkVars, mainVars, tableVars, threadVars
<1> QED
  BY <1>1, <1>2, <1>3, <1>4, <1>5 DEF Next

LEMMA CountInvariantHolds == Spec => []CountInvariant
<1>1. Init => CountInvariant
  BY InitCountInvariant
<1>2. CountInvariant /\ [Next]_vars => CountInvariant'
  BY NextPreserves
<1> QED
  BY <1>1, <1>2, PTL DEF Spec

(* Every variable keeps its type; in particular clientCount never leaves     *)
(* 0 .. maxConnection (RelayServer.c:214, socketHandler.c:65).               *)
THEOREM TypeCorrect == Spec => []TypeOK
<1>1. CountInvariant => TypeOK
  BY DEF CountInvariant
<1> QED
  BY <1>1, CountInvariantHolds, PTL

(* clientCount is the number of connections accepted and not yet cleaned up, *)
(* also when two handlers were started on one socket and one of them finds   *)
(* nothing to remove (socketHandler.c:52-65).                                *)
THEOREM CountIsExactAlways == Spec => []CountIsExact
<1>1. CountInvariant => CountIsExact
  BY DEF CountInvariant
<1> QED
  BY <1>1, CountInvariantHolds, PTL

(* The limit tested outside the mutex (RelayServer.c:207) still holds when   *)
(* the socket is stored (RelayServer.c:214): the table is never overrun.     *)
THEOREM StoreInBoundsAlways == Spec => []StoreInBounds
<1>1. CountInvariant => StoreInBounds
  BY DEF CountInvariant
<1> QED
  BY <1>1, CountInvariantHolds, PTL

(* The table is only touched by the holder of hMutex. *)
THEOREM MutualExclusionAlways == Spec => []MutualExclusion
<1>1. CountInvariant => MutualExclusion
  BY DEF CountInvariant
<1> QED
  BY <1>1, CountInvariantHolds, PTL

(* Whoever holds the mutex is inside a critical section, and every step of   *)
(* one can be made as soon as it is reached: no path of main or of a handler *)
(* leaves with the mutex taken, so nobody waits for it in vain               *)
(* (RelayServer.c:213-220, socketHandler.c:51-67, sessionProcessor.c:146-155).*)
MutexIsReturned ==
  hMutex # "free" =>
    \/ hMutex = "main" /\ mainPc = "inc"
    \/ hMutex \in Conn /\ pc[hMutex] \in HoldsMutex

LEMMA ThreadsReturnMutex ==
  ASSUME TypeOK, MutexIsReturned, NEW t \in Conn,
         \/ HandlerStep(t) \/ RecvRequest(t) \/ RecvLogout(t)
         \/ \E u \in User : RecvLogin(t, u)
  PROVE  MutexIsReturned'
<1> USE DEF mainVars
<1>1. CASE \/ ReadArgument(t) \/ RecvFails(t) \/ Serve(t) \/ EndHandler(t)
           \/ RecvRequest(t) \/ RecvLogout(t) \/ \E u \in User : RecvLogin(t, u)
  <2>1. /\ UNCHANGED <<hMutex, mainPc>> /\ pc[t] \notin HoldsMutex
        /\ \E p : pc' = [pc EXCEPT ![t] = p]
    BY <1>1 DEF ReadArgument, RecvFails, Serve, EndHandler, RecvRequest, RecvLogout,
       RecvLogin, HoldsMutex, TypeOK
  <2> QED
    BY <2>1 DEF MutexIsReturned, TypeOK
<1>2. CASE LockForLogin(t) \/ LockForRequest(t) \/ LockForClose(t)
  <2>1. hMutex' = t /\ \E p \in HoldsMutex : pc' = [pc EXCEPT ![t] = p]
    BY <1>2 DEF LockForLogin, LockForRequest, LockForClose, TakeMutex, HoldsMutex
  <2> QED
    BY <2>1 DEF MutexIsReturned, TypeOK
<1>3. CASE SetSession(t) \/ GetSession(t) \/ DropCount(t)
  BY <1>3 DEF SetSession, GetSession, DropCount, MutexIsReturned
<1>4. CASE ShiftTable(t)
  BY <1>4 DEF ShiftTable, MutexIsReturned, HoldsMutex, TypeOK
<1> QED
  BY <1>1, <1>2, <1>3, <1>4 DEF HandlerStep

LEMMA StepReturnsMutex ==
  ASSUME CountInvariant, MutexIsReturned, [Next]_vars
  PROVE  MutexIsReturned'
<1> USE DEF mainVars, threadVars
<1>0. TypeOK /\ NoThreadYet
  BY DEF CountInvariant
<1>1. ASSUME NEW c \in Conn, Connect(c) \/ HangUp(c) PROVE MutexIsReturned'
  BY <1>1 DEF Connect, HangUp, MutexIsReturned
<1>2. ASSUME NEW c \in Conn, NEW h \in Handle, Accept(c, h) PROVE MutexIsReturned'
  BY <1>2 DEF Accept, MutexIsReturned
<1>3. CASE RefuseConnection \/ AdmitConnection
  BY <1>3 DEF RefuseConnection, AdmitConnection, MutexIsReturned
<1>4. CASE StoreSocket
  BY <1>4 DEF StoreSocket, MutexIsReturned
<1>5. CASE CountConnection
  BY <1>5 DEF CountConnection, MutexIsReturned
<1>6. CASE StartHandler \/ ThreadFails
  <2>1. /\ mainPc = "spawn" /\ hMutex' = hMutex
        /\ pc[cur] = "unborn" /\ \E p : pc' = [pc EXCEPT ![cur] = p]
    BY <1>0, <1>6 DEF StartHandler, ThreadFails, Spawn, NoThreadYet
  <2> QED
    BY <1>0, <2>1 DEF MutexIsReturned, HoldsMutex, TypeOK
<1>7. ASSUME NEW t \in Conn,
             \/ HandlerStep(t) \/ RecvRequest(t) \/ RecvLogout(t)
             \/ \E u \in User : RecvLogin(t, u)
      PROVE  MutexIsReturned'
  BY <1>0, <1>7, ThreadsReturnMutex
<1>8. CASE UNCHANGED vars
  BY <1>8 DEF vars, MutexIsReturned
<1> QED
  BY <1>1, <1>2, <1>3, <1>4, <1>5, <1>6, <1>7, <1>8 DEF Next, MainStep

THEOREM MutexIsReturnedAlways == Spec => []MutexIsReturned
<1>1. Init => MutexIsReturned
  BY DEF Init, MutexIsReturned
<1>2. CountInvariant /\ MutexIsReturned /\ [Next]_vars => MutexIsReturned'
  BY StepReturnsMutex
<1> QED
  BY CountInvariantHolds, <1>1, <1>2, PTL DEF Spec

-----------------------------------------------------------------------------
(* The table while arrivals are spaced. *)

(* The number of entries is an integer, one more or less than clientCount    *)
(* only while the mutex is held.                                             *)
LEMMA FilledProperties ==
  ASSUME CountInvariant
  PROVE  /\ Kept \in Int /\ Filled \in Int
         /\ hMutex = "free" => Kept = clientCount /\ Filled = clientCount
         /\ mainPc = "inc" => Kept = clientCount /\ Filled = clientCount + 1
         /\ \A t \in Conn : pc[t] \in {"setSession", "getSession", "shift"} =>
              Kept = clientCount /\ Filled = clientCount
         /\ \A t \in Conn : pc[t] = "count" => Kept = clientCount - 1 /\ Filled = clientCount - 1
         /\ Filled <= clientCount + 1 /\ Kept <= clientCount /\ Filled >= Kept
         /\ mainPc # "inc" => Filled = Kept
<1> USE DEF CountInvariant
<1>1. clientCount \in Int
  BY MaxAssumption DEF TypeOK
<1>2. ASSUME NEW t \in Conn, pc[t] \in HoldsMutex
      PROVE  hMutex = t /\ hMutex # "free" /\ mainPc # "inc" /\ \A s \in Conn : pc[s] \in HoldsMutex => s = t
  BY <1>2, ConnAssumption DEF MutualExclusion
<1>3. mainPc = "inc" => hMutex = "main"
  BY DEF MutualExclusion
<1> QED
  BY <1>1, <1>2, <1>3, ConnAssumption DEF Kept, Filled, HoldsMutex, MutualExclusion

LEMMA ListedConn ==
  ASSUME CountInvariant
  PROVE  Listed \subseteq Conn
BY DEF CountInvariant, NoThreadYet, Listed

(* The parts of the invariant, with what a step may disturb of each. *)
LEMMA TableUndisturbed ==
  ASSUME TableLists,
         UNCHANGED <<hClientSocks, sessionList, owner>>,
         mainPc' = "inc" => mainPc = "inc" /\ UNCHANGED <<clientCount, hClientSock>>,
         Kept' = Kept, Filled' = Filled, Listed' = Listed
  PROVE  TableLists'
BY DEF TableLists

(* Steps of the clients. *)
LEMMA ClientKeepsTable ==
  ASSUME CountInvariant, TableParts, spaced', NEW c \in Conn, Connect(c) \/ HangUp(c)
  PROVE  TableParts'
<1> USE DEF TableParts, CountInvariant, mainVars, tableVars, threadVars
<1>1. UNCHANGED <<owner, mainVars, hMutex, tableVars, threadVars>>
  BY DEF Connect, HangUp
<1>2. Kept' = Kept /\ Filled' = Filled /\ Listed' = Listed
  BY <1>1 DEF Kept, Filled, Listed
<1>3. OneArrival'
  BY DEF OneArrival, Connect, HangUp
<1>4. SocketsOwned'
  BY <1>1 DEF SocketsOwned, Working
<1>5. TableLists'
  BY <1>1, <1>2, TableUndisturbed
<1>6. SessionsStored'
  BY <1>1, <1>2 DEF SessionsStored, Working
<1> QED
  BY <1>3, <1>4, <1>5, <1>6

(* main accepts: the handle it gets is not open, so it is not in the table. *)
LEMMA AcceptKeepsTable ==
  ASSUME CountInvariant, TableParts, NEW c \in Conn, NEW h \in Handle, Accept(c, h)
  PROVE  TableParts'
<1> USE DEF TableParts, CountInvariant, tableVars, threadVars
<1>1. mainPc = "accept" /\ mainPc' = "check" /\ cur' = c /\ hClientSock' = h /\ owner[h] = NoConn
      /\ c \in backlog /\ pc[c] = "unborn" /\ owner' = [owner EXCEPT ![h] = c]
      /\ backlog' = backlog \ {c}
      /\ UNCHANGED <<alive, spaced, hMutex, tableVars, threadVars>>
  BY DEF Accept, NoThreadYet
<1>2. Kept' = Kept /\ Filled' = Filled /\ Listed' = Listed
  BY <1>1 DEF Kept, Filled, Listed
<1>3. \A g \in Handle : owner[g] # c
  BY <1>1, ConnAssumption DEF SocketsOwned, TypeOK
<1>4. OneArrival'
  BY <1>1 DEF OneArrival
<1>5. SocketsOwned'
  <2>1. \A t \in Conn : pc[t] # "start"
    BY <1>1 DEF OneArrival
  <2>2. ASSUME NEW t \in Conn, Working(t)
        PROVE  sock[t] \in Handle /\ owner'[sock[t]] = t
    BY <1>1, <2>2, ConnAssumption DEF SocketsOwned, TypeOK
  <2>3. ASSUME NEW g \in Handle, owner'[g] # NoConn
        PROVE  /\ pc[owner'[g]] # "unborn" \/ owner'[g] = c
               /\ \A k \in Handle : owner'[k] = owner'[g] => k = g
    BY <1>1, <1>3, <2>3 DEF SocketsOwned, TypeOK
  <2> QED
    BY <1>1, <2>1, <2>2, <2>3 DEF SocketsOwned, Working, TypeOK
<1>6. \A i \in Slots : i < Filled => owner'[hClientSocks[i]] = owner[hClientSocks[i]]
  BY <1>1, ListedConn, ConnAssumption DEF TableLists, TypeOK
<1>7. TableLists'
  BY <1>1, <1>2, <1>6 DEF TableLists
<1>8. SessionsStored'
  BY <1>1, <1>2, <1>6 DEF SessionsStored, Working
<1> QED
  BY <1>4, <1>5, <1>7, <1>8

(* main refuses the connection, which is not in the table yet. *)
LEMMA RefuseKeepsTable ==
  ASSUME CountInvariant, TableParts, RefuseConnection
  PROVE  TableParts'
<1> USE DEF TableParts, CountInvariant, tableVars, threadVars
<1>1. /\ mainPc = "check" /\ mainPc' = "accept" /\ cur' = NoConn
      /\ owner' = [owner EXCEPT ![hClientSock] = NoConn]
      /\ UNCHANGED <<backlog, spaced, hClientSock, hMutex, tableVars, threadVars>>
  BY DEF RefuseConnection, CloseSocket, TypeOK
<1>2. cur \in Conn /\ pc[cur] = "unborn" /\ hClientSock \in Handle /\ owner[hClientSock] = cur
  BY <1>1 DEF NoThreadYet, SocketsOwned
<1>3. Kept' = Kept /\ Filled' = Filled /\ Listed' = Listed /\ cur \notin Listed
  BY <1>1, <1>2 DEF Kept, Filled, Listed, InTable
<1>4. OneArrival'
  BY <1>1 DEF OneArrival
<1>5. SocketsOwned'
  <2>1. \A t \in Conn : pc[t] # "start"
    BY <1>1 DEF OneArrival
  <2>2. ASSUME NEW t \in Conn, Working(t)
        PROVE  sock[t] \in Handle /\ owner'[sock[t]] = t
    BY <1>1, <1>2, <2>2 DEF SocketsOwned, TypeOK, Working
  <2>3. ASSUME NEW g \in Handle, owner'[g] # NoConn
        PROVE  /\ pc[owner'[g]] # "unborn"
               /\ \A k \in Handle : owner'[k] = owner'[g] => k = g
    BY <1>1, <1>2, <2>3 DEF SocketsOwned, TypeOK
  <2> QED
    BY <1>1, <2>1, <2>2, <2>3 DEF SocketsOwned, Working, TypeOK
<1>6. \A i \in Slots : i < Filled => owner'[hClientSocks[i]] = owner[hClientSocks[i]]
  BY <1>1, <1>2, <1>3 DEF TableLists, TypeOK
<1>7. TableLists'
  BY <1>1, <1>3, <1>6 DEF TableLists
<1>8. SessionsStored'
  BY <1>1, <1>3, <1>6 DEF SessionsStored, Working
<1> QED
  BY <1>4, <1>5, <1>7, <1>8

LEMMA AdmitKeepsTable ==
  ASSUME CountInvariant, TableParts, AdmitConnection
  PROVE  TableParts'
<1> USE DEF TableParts, CountInvariant, networkVars, tableVars, threadVars
<1>1. /\ mainPc = "check" /\ mainPc' = "lock"
      /\ UNCHANGED <<networkVars, cur, hClientSock, hMutex, tableVars, threadVars>>
  BY DEF AdmitConnection
<1>2. Kept' = Kept /\ Filled' = Filled /\ Listed' = Listed
  BY <1>1 DEF Kept, Filled, Listed
<1>3. TableLists'
  BY <1>1, <1>2, TableUndisturbed
<1> QED
  BY <1>1, <1>2, <1>3 DEF OneArrival, SocketsOwned, SessionsStored, Working

(* main stores the socket behind the entries in use. *)
LEMMA StoreKeepsTable ==
  ASSUME CountInvariant, TableParts, StoreSocket
  PROVE  TableParts'
<1> USE DEF TableParts, CountInvariant, networkVars, threadVars
<1>1. /\ mainPc = "lock" /\ mainPc' = "inc" /\ hMutex = "free"
      /\ hClientSocks' = [hClientSocks EXCEPT ![clientCount] = hClientSock]
      /\ UNCHANGED <<networkVars, cur, hClientSock, sessionList, clientCount, threadVars>>
  BY DEF StoreSocket
<1>2. cur \in Conn /\ pc[cur] = "unborn" /\ hClientSock \in Handle /\ owner[hClientSock] = cur
  BY <1>1 DEF NoThreadYet, SocketsOwned
<1>3. clientCount \in Slots
  BY <1>1, MaxAssumption DEF StoreInBounds, TypeOK, Slots
<1>4. /\ Kept = clientCount /\ Kept' = clientCount
      /\ Filled = clientCount /\ Filled' = clientCount + 1
  <2>1. Kept = clientCount /\ Filled = clientCount
    BY <1>1, FilledProperties
  <2> QED
    BY <1>1, <2>1 DEF Kept, Filled
<1>5. Listed' = Listed \cup {cur} /\ cur \notin Listed
  BY <1>1, <1>2 DEF Listed, InTable
<1>6. OneArrival' /\ SocketsOwned'
  BY <1>1 DEF OneArrival, SocketsOwned, Working
<1>7. \A i \in Slots : /\ i < clientCount + 1 <=> i < clientCount \/ i = clientCount
                       /\ i >= clientCount + 1 => i >= clientCount /\ i # clientCount
  BY <1>3 DEF Slots
<1>8. TableLists'
  <2>1. ASSUME NEW i \in Slots, i < Filled'
        PROVE  /\ hClientSocks'[i] \in Handle /\ owner[hClientSocks'[i]] \in Listed'
               /\ \A j \in Slots : j < Filled' /\ hClientSocks'[j] = hClientSocks'[i] => j = i
    BY <1>1, <1>2, <1>3, <1>4, <1>5, <1>7, <2>1 DEF TableLists, TypeOK
  <2>2. ASSUME NEW c \in Listed'
        PROVE  \E i \in Slots : i < Filled' /\ owner[hClientSocks'[i]] = c
    BY <1>1, <1>2, <1>3, <1>4, <1>5, <1>7, <2>2 DEF TableLists, TypeOK, Slots
  <2>3. ASSUME NEW i \in Slots
        PROVE  /\ i >= Filled' => hClientSocks'[i] = NoSocket
               /\ i >= Kept' => sessionList'[i] = NoUser
    BY <1>1, <1>3, <1>4, <1>7 DEF TableLists, TypeOK
  <2>4. hClientSocks'[clientCount'] = hClientSock'
    BY <1>1, <1>3 DEF TypeOK
  <2> QED
    BY <1>1, <2>1, <2>2, <2>3, <2>4 DEF TableLists
<1>9. SessionsStored'
  <2>1. told[cur] = NoUser
    BY <1>2 DEF SessionsStored, Working
  <2>2. ASSUME NEW i \in Slots, i < Filled', told[owner[hClientSocks'[i]]] # NoUser
        PROVE  sessionList[i] = told[owner[hClientSocks'[i]]]
    BY <1>1, <1>2, <1>3, <1>4, <1>7, <2>1, <2>2 DEF SessionsStored, TypeOK
  <2>3. \A t \in Conn : pc[t] \notin {"setSession", "getSession", "shift"}
    BY <1>1, ConnAssumption DEF MutualExclusion, HoldsMutex
  <2> QED
    BY <1>1, <2>2, <2>3 DEF SessionsStored, Working
<1> QED
  BY <1>6, <1>8, <1>9

LEMMA CountKeepsTable ==
  ASSUME CountInvariant, TableParts, CountConnection
  PROVE  TableParts'
<1> USE DEF TableParts, CountInvariant, networkVars, threadVars
<1>1. /\ mainPc = "inc" /\ mainPc' = "spawn" /\ clientCount' = clientCount + 1
      /\ UNCHANGED <<networkVars, cur, hClientSock, hClientSocks, sessionList, threadVars>>
  BY DEF CountConnection
<1>2. /\ Kept = clientCount /\ Filled = clientCount + 1
      /\ Kept' = clientCount + 1 /\ Filled' = clientCount + 1 /\ Listed' = Listed
  <2>1. Kept = clientCount /\ Filled = clientCount + 1
    BY <1>1, FilledProperties
  <2> QED
    BY <1>1, <2>1 DEF Kept, Filled, Listed, TypeOK
<1>3. \A i \in Slots : i >= clientCount + 1 => i >= clientCount
  BY DEF Slots, TypeOK
<1>4. OneArrival' /\ SocketsOwned'
  BY <1>1 DEF OneArrival, SocketsOwned, Working
<1>5. TableLists'
  BY <1>1, <1>2, <1>3 DEF TableLists
<1>6. SessionsStored'
  BY <1>1, <1>2 DEF SessionsStored, Working
<1> QED
  BY <1>4, <1>5, <1>6

(* The thread is started, or not; its connection is in the table already. *)
LEMMA SpawnKeepsTable ==
  ASSUME CountInvariant, TableParts, NEW label \in {"start", "threadless"}, Spawn(label)
  PROVE  TableParts'
<1> USE DEF TableParts, CountInvariant, networkVars, tableVars
<1>1. /\ mainPc = "spawn" /\ mainPc' = "accept" /\ pc' = [pc EXCEPT ![cur] = label]
      /\ UNCHANGED <<networkVars, hClientSock, hMutex, tableVars, sock, slot, userUID, told>>
  BY DEF Spawn
<1>2. /\ cur \in Conn /\ pc[cur] = "unborn" /\ backlog = {}
      /\ hClientSock \in Handle /\ owner[hClientSock] = cur
      /\ \A t \in Conn : pc[t] # "start"
  BY <1>1 DEF NoThreadYet, SocketsOwned, OneArrival
<1>3. Kept' = Kept /\ Filled' = Filled
  BY <1>1, <1>2 DEF Kept, Filled, TypeOK
<1>4. Listed' = Listed
  BY <1>1, <1>2 DEF Listed, InTable, TypeOK
<1>5. \A t \in Conn : Working(t)' <=> Working(t)
  BY <1>1, <1>2 DEF Working, TypeOK
<1>6. OneArrival'
  BY <1>1, <1>2 DEF OneArrival, TypeOK
<1>7. SocketsOwned'
  BY <1>1, <1>2, <1>5 DEF SocketsOwned, TypeOK
<1>8. TableLists'
  BY <1>1, <1>3, <1>4, TableUndisturbed
<1>9. SessionsStored'
  <2>1. \A t \in Conn \ {cur} : pc'[t] = pc[t]
    BY <1>1 DEF TypeOK
  <2>2. pc'[cur] = label
    BY <1>1, <1>2 DEF TypeOK
  <2> QED
    BY <1>1, <1>3, <1>5, <2>1, <2>2 DEF SessionsStored
<1> QED
  BY <1>6, <1>7, <1>8, <1>9

(* A step of a handler between two points at which it is in the table, which *)
(* leaves the table alone.                                                   *)
LEMMA HandlerKeepsEntries ==
  ASSUME CountInvariant, TableParts,
         NEW t \in Conn, NEW p \in InTable \ {"start"},
         pc[t] \in InTable, pc' = [pc EXCEPT ![t] = p],
         UNCHANGED <<backlog, owner, mainVars, tableVars>>
  PROVE  /\ Kept' = Kept /\ Filled' = Filled /\ Listed' = Listed
         /\ OneArrival' /\ TableLists'
         /\ \A s \in Conn \ {t} : pc'[s] = pc[s] /\ Working(s)' = Working(s)
         /\ pc'[t] = p /\ Working(t)'
         /\ sock' = sock /\ pc[t] # "start" => SocketsOwned'
<1> USE DEF CountInvariant, TableParts, mainVars, tableVars
<1>1. pc'[t] = p /\ \A s \in Conn \ {t} : pc'[s] = pc[s]
  BY DEF TypeOK
<1>2. Kept' = Kept /\ Filled' = Filled
  BY <1>1 DEF Kept, Filled, InTable
<1>3. Listed' = Listed
  BY <1>1 DEF Listed
<1>4. OneArrival'
  BY <1>1 DEF OneArrival
<1>5. TableLists'
  BY <1>2, <1>3, TableUndisturbed
<1>6. Working(t)' /\ \A s \in Conn \ {t} : Working(s)' = Working(s)
  BY <1>1 DEF Working, InTable
<1>7. ASSUME sock' = sock, pc[t] # "start"
      PROVE  SocketsOwned'
  <2>1. Working(t) /\ pc[t] # "unborn" /\ pc'[t] # "unborn"
    BY <1>1, <1>7 DEF Working, InTable
  <2>2. \A h \in Handle : owner[h] # NoConn => owner[h] \in Conn
    BY DEF TypeOK
  <2>3. \A s \in Conn : Working(s)' => sock[s] \in Handle /\ owner[sock[s]] = s
    BY <1>6, <2>1 DEF SocketsOwned
  <2>4. \A s \in Conn : pc'[s] = "start" => pc[s] = "start"
    BY <1>1
  <2>5. \A s \in Conn : pc[s] # "unborn" => pc'[s] # "unborn"
    BY <1>1, <2>1
  <2> QED
    BY <1>7, <2>2, <2>3, <2>4, <2>5 DEF SocketsOwned
<1> QED
  BY <1>1, <1>2, <1>3, <1>4, <1>5, <1>6, <1>7

(* The thread reads its argument before main's variable holds another        *)
(* socket.                                                                   *)
LEMMA ReadArgumentKeepsTable ==
  ASSUME CountInvariant, TableParts, NEW t \in Conn, ReadArgument(t)
  PROVE  TableParts'
<1> USE DEF TableParts, CountInvariant, networkVars
<1>1. /\ pc[t] = "start" /\ pc' = [pc EXCEPT ![t] = "recv"]
      /\ sock' = [sock EXCEPT ![t] = hClientSock]
      /\ UNCHANGED <<networkVars, mainVars, tableVars, slot, userUID, told>>
  BY DEF ReadArgument
<1>2. hClientSock \in Handle /\ owner[hClientSock] = t
  BY <1>1 DEF SocketsOwned
<1>3. /\ Kept' = Kept /\ Filled' = Filled /\ OneArrival' /\ TableLists'
      /\ \A s \in Conn \ {t} : pc'[s] = pc[s] /\ Working(s)' = Working(s)
      /\ pc'[t] = "recv" /\ Working(t)'
  <2>1. "recv" \in InTable \ {"start"} /\ pc[t] \in InTable
    BY <1>1 DEF InTable
  <2> QED
    BY <1>1, <2>1, HandlerKeepsEntries
<1>4. SocketsOwned'
  <2>1. sock'[t] = hClientSock /\ \A s \in Conn \ {t} : sock'[s] = sock[s]
    BY <1>1 DEF TypeOK
  <2>2. ASSUME NEW s \in Conn, Working(s)'
        PROVE  sock'[s] \in Handle /\ owner[sock'[s]] = s
    BY <1>2, <1>3, <2>1, <2>2 DEF SocketsOwned
  <2>3. ASSUME NEW h \in Handle, owner[h] # NoConn
        PROVE  /\ pc'[owner[h]] # "unborn" \/ (mainPc # "accept" /\ owner[h] = cur)
               /\ \A g \in Handle : owner[g] = owner[h] => g = h
    BY <1>1, <1>3, <2>3 DEF SocketsOwned, TypeOK
  <2>4. ASSUME NEW s \in Conn, pc'[s] = "start"
        PROVE  hClientSock \in Handle /\ owner[hClientSock] = s
    BY <1>1, <1>3, <2>4 DEF SocketsOwned
  <2> QED
    BY <1>1, <2>2, <2>3, <2>4 DEF SocketsOwned, mainVars
<1>5. SessionsStored'
  <2>1. told[t] = NoUser
    BY <1>1 DEF SessionsStored, Working
  <2>2. \A s \in Conn : pc'[s] # "recv" => s # t /\ sock'[s] = sock[s]
    BY <1>1, <1>3 DEF TypeOK
  <2>3. \A i \in Slots : i < Filled /\ told[owner[hClientSocks[i]]] # NoUser =>
          sessionList[i] = told[owner[hClientSocks[i]]]
    BY DEF SessionsStored
  <2>4. ASSUME NEW s \in Conn
        PROVE
          /\ told[s] # NoUser => Working(s)'
          /\ pc'[s] \in {"setSession", "getSession", "shift"} =>
               slot[s] \in Slots /\ slot[s] < Filled /\ hClientSocks[slot[s]] = sock'[s]
          /\ pc'[s] \in {"login", "setSession"} => userUID[s] \in User
          /\ pc'[s] \in {"request", "getSession", "serve"} => told[s] # NoUser
          /\ pc'[s] = "serve" => userUID[s] = told[s]
    BY <1>3, <2>2 DEF SessionsStored
  <2> QED
    BY <1>1, <1>3, <2>3, <2>4 DEF SessionsStored, tableVars
<1> QED
  BY <1>3, <1>4, <1>5

(* A thread receives, fails to receive, or has served a request.             *)
LEMMA ReceiveKeepsTable ==
  ASSUME CountInvariant, TableParts, NEW t \in Conn,
         \/ \E u \in User : RecvLogin(t, u)
         \/ RecvRequest(t) \/ RecvFails(t) \/ Serve(t)
  PROVE  TableParts'
<1> USE DEF TableParts, CountInvariant, networkVars
<1>1. PICK p \in {"recv", "login", "request", "closing"} :
        /\ pc[t] \in {"recv", "serve"} /\ pc' = [pc EXCEPT ![t] = p]
        /\ UNCHANGED <<networkVars, mainVars, tableVars, sock, slot, told>>
        /\ userUID' \in [Conn -> User \cup {NoUser}]
        /\ \A s \in Conn \ {t} : userUID'[s] = userUID[s]
        /\ p = "login" => userUID'[t] \in User
        /\ p = "request" => told[t] # NoUser
  <2>1. pc[t] = "recv" => Peer(t) = t
    BY DEF Peer, SocketsOwned, Working
  <2>2. ASSUME NEW u \in User, RecvLogin(t, u)
        PROVE  /\ pc[t] = "recv" /\ pc' = [pc EXCEPT ![t] = "login"]
               /\ UNCHANGED <<networkVars, mainVars, tableVars, sock, slot, told>>
               /\ userUID' \in [Conn -> User \cup {NoUser}]
               /\ \A s \in Conn \ {t} : userUID'[s] = userUID[s]
               /\ userUID'[t] \in User
    BY <2>2 DEF RecvLogin, TypeOK
  <2>3. ASSUME RecvRequest(t)
        PROVE  /\ pc[t] = "recv" /\ pc' = [pc EXCEPT ![t] = "request"]
               /\ UNCHANGED <<networkVars, mainVars, tableVars, sock, slot, told, userUID>>
               /\ told[t] # NoUser
    BY <2>1, <2>3 DEF RecvRequest
  <2>4. ASSUME RecvFails(t)
        PROVE  /\ pc[t] = "recv" /\ pc' = [pc EXCEPT ![t] = "closing"]
               /\ UNCHANGED <<networkVars, mainVars, tableVars, sock, slot, told, userUID>>
    BY <2>4 DEF RecvFails
  <2>5. ASSUME Serve(t)
        PROVE  /\ pc[t] = "serve" /\ pc' = [pc EXCEPT ![t] = "recv"]
               /\ UNCHANGED <<networkVars, mainVars, tableVars, sock, slot, told>>
               /\ userUID' \in [Conn -> User \cup {NoUser}]
               /\ \A s \in Conn \ {t} : userUID'[s] = userUID[s]
    BY <2>5 DEF Serve, TypeOK
  <2> QED
    BY <2>2, <2>3, <2>4, <2>5 DEF TypeOK
<1>2. /\ Kept' = Kept /\ Filled' = Filled /\ OneArrival' /\ TableLists' /\ SocketsOwned'
      /\ \A s \in Conn \ {t} : pc'[s] = pc[s] /\ Working(s)' = Working(s)
      /\ pc'[t] = p /\ Working(t)'
  <2>1. p \in InTable \ {"start"} /\ pc[t] \in InTable /\ pc[t] # "start"
    BY <1>1 DEF InTable
  <2> QED
    BY <1>1, <2>1, HandlerKeepsEntries
<1>3. SessionsStored'
  BY <1>1, <1>2 DEF SessionsStored, tableVars
<1> QED
  BY <1>2, <1>3

(* Logging out leaves the session in the table. *)
LEMMA LogoutKeepsTable ==
  ASSUME CountInvariant, TableParts, NEW t \in Conn, RecvLogout(t)
  PROVE  TableParts'
<1> USE DEF TableParts, CountInvariant, networkVars, mainVars, tableVars
<1>1. /\ pc[t] = "recv" /\ told' = [told EXCEPT ![t] = NoUser]
      /\ UNCHANGED <<networkVars, mainVars, hMutex, tableVars, pc, sock, slot, userUID>>
  BY DEF RecvLogout, Peer, SocketsOwned, Working
<1>2. Kept' = Kept /\ Filled' = Filled /\ Listed' = Listed
  BY <1>1 DEF Kept, Filled, Listed
<1>3. TableLists'
  BY <1>1, <1>2, TableUndisturbed
<1>4. OneArrival' /\ SocketsOwned'
  BY <1>1 DEF OneArrival, SocketsOwned, Working
<1>5. SessionsStored'
  <2>1. told'[t] = NoUser /\ \A s \in Conn \ {t} : told'[s] = told[s]
    BY <1>1 DEF TypeOK
  <2>2. \A i \in Slots : i < Filled => owner[hClientSocks[i]] \in Conn
    BY ListedConn DEF TableLists
  <2>3. \A s \in Conn : pc[s] # "recv" => told'[s] = told[s]
    BY <1>1, <2>1
  <2>4. \A i \in Slots : i < Filled /\ told'[owner[hClientSocks[i]]] # NoUser =>
          sessionList[i] = told'[owner[hClientSocks[i]]]
    BY <2>1, <2>2 DEF SessionsStored
  <2> QED
    BY <1>1, <1>2, <2>1, <2>3, <2>4 DEF SessionsStored, Working
<1> QED
  BY <1>3, <1>4, <1>5

(* The search under the mutex finds the thread's entry. *)
LEMMA SearchFindsEntry ==
  ASSUME CountInvariant, TableParts, NEW t \in Conn,
         pc[t] \in InTable \ {"start"}
  PROVE  /\ SlotOf(sock[t]) \in Slots /\ SlotOf(sock[t]) < clientCount
         /\ SlotOf(sock[t]) < Filled /\ hClientSocks[SlotOf(sock[t])] = sock[t]
<1> USE DEF TableParts, CountInvariant
<1> DEFINE found == {i \in Slots : i < clientCount /\ hClientSocks[i] = sock[t]}
<1>1. sock[t] \in Handle /\ owner[sock[t]] = t
  BY DEF SocketsOwned, Working, InTable
<1>2. t \in Listed
  BY DEF Listed
<1>3. PICK i \in Slots : i < Filled /\ owner[hClientSocks[i]] = t
  BY <1>2 DEF TableLists
<1>4. hClientSocks[i] = sock[t]
  BY <1>1, <1>3, ConnAssumption DEF TableLists, SocketsOwned, TypeOK
<1>5. i < clientCount
  <2>1. i # clientCount \/ mainPc # "inc"
    BY <1>1, <1>4, ConnAssumption DEF TableLists, SocketsOwned, NoThreadYet, InTable
  <2> QED
    BY <1>3, <2>1, FilledProperties, MaxAssumption DEF TypeOK, Slots
<1>6. i \in found /\ \A j \in found : hClientSocks[j] = sock[t] /\ j \in Slots /\ j < clientCount
  BY <1>4, <1>5
<1>7. SlotOf(sock[t]) \in found
  <2>1. found \in SUBSET Nat
    BY MaxAssumption DEF Slots
  <2>2. First(found) \in found
    BY <1>6, <2>1, FirstProperty
  <2> QED
    BY <1>6, <2>2 DEF SlotOf
<1>8. ASSUME NEW j \in found
      PROVE  j = i
  <2>1. j < Filled \/ hClientSocks[j] = NoSocket
    BY <1>8, FilledProperties, MaxAssumption DEF TableLists, Slots
  <2> QED
    BY <1>1, <1>3, <1>4, <1>6, <2>1, HandleAssumption DEF TableLists
<1> QED
  BY <1>3, <1>5, <1>6, <1>7, <1>8

(* A handler takes the mutex and searches the table. *)
LEMMA TakeMutexKeepsTable ==
  ASSUME CountInvariant, TableParts, NEW t \in Conn,
         LockForLogin(t) \/ LockForRequest(t) \/ LockForClose(t)
  PROVE  TableParts'
<1> USE DEF TableParts, CountInvariant, networkVars
<1>1. PICK p \in {"setSession", "getSession", "shift"} :
        /\ UNCHANGED <<networkVars, mainVars, tableVars, sock, userUID, told>>
        /\ slot' = [slot EXCEPT ![t] = SlotOf(sock[t])]
        /\ pc[t] \in {"login", "request", "closing"}
        /\ pc' = [pc EXCEPT ![t] = p]
        /\ p = "setSession" <=> pc[t] = "login"
        /\ p = "getSession" <=> pc[t] = "request"
  BY DEF LockForLogin, LockForRequest, LockForClose, TakeMutex
<1>2. pc[t] \in InTable \ {"start"} /\ p \in InTable \ {"start"}
  BY <1>1 DEF InTable
<1>3. /\ Kept' = Kept /\ Filled' = Filled /\ OneArrival' /\ TableLists' /\ SocketsOwned'
      /\ \A s \in Conn \ {t} : pc'[s] = pc[s] /\ Working(s)' = Working(s)
      /\ pc'[t] = p /\ Working(t)'
  BY <1>1, <1>2, HandlerKeepsEntries
<1>4. /\ slot'[t] \in Slots /\ slot'[t] < Filled /\ hClientSocks[slot'[t]] = sock[t]
      /\ \A s \in Conn \ {t} : slot'[s] = slot[s]
  BY <1>1, <1>2, SearchFindsEntry DEF TypeOK
<1>5. SessionsStored'
  BY <1>1, <1>3, <1>4 DEF SessionsStored, tableVars
<1> QED
  BY <1>3, <1>5

(* An entry is the only one of its connection. *)
LEMMA OneEntry ==
  ASSUME CountInvariant, TableParts,
         NEW i \in Slots, NEW j \in Slots, i < Filled, j < Filled,
         owner[hClientSocks[i]] = owner[hClientSocks[j]]
  PROVE  i = j
<1>1. hClientSocks[i] \in Handle /\ hClientSocks[j] \in Handle /\ owner[hClientSocks[i]] # NoConn
  BY ListedConn, ConnAssumption DEF TableParts, TableLists
<1>2. hClientSocks[i] = hClientSocks[j]
  BY <1>1 DEF TableParts, SocketsOwned
<1> QED
  BY <1>2 DEF TableParts, TableLists

(* What a handler found under the mutex is its own entry. *)
LEMMA FoundOwnEntry ==
  ASSUME CountInvariant, TableParts, NEW t \in Conn,
         pc[t] \in {"setSession", "getSession", "shift"}
  PROVE  /\ slot[t] \in Slots /\ slot[t] < Filled
         /\ Kept = clientCount /\ Filled = clientCount
         /\ owner[hClientSocks[slot[t]]] = t
         /\ \A i \in Slots : i < Filled /\ i # slot[t] => owner[hClientSocks[i]] # t
<1>1. slot[t] \in Slots /\ slot[t] < Filled /\ hClientSocks[slot[t]] = sock[t]
  BY DEF TableParts, SessionsStored
<1>2. owner[sock[t]] = t
  BY DEF TableParts, SocketsOwned, Working
<1> QED
  BY <1>1, <1>2, OneEntry, FilledProperties

LEMMA SetSessionKeepsTable ==
  ASSUME CountInvariant, TableParts, NEW t \in Conn, SetSession(t)
  PROVE  TableParts'
<1> USE DEF TableParts, CountInvariant, networkVars, mainVars
<1>1. /\ slot[t] \in Slots /\ slot[t] < Filled /\ Kept = Filled
      /\ owner[hClientSocks[slot[t]]] = t
      /\ \A i \in Slots : i < Filled /\ i # slot[t] => owner[hClientSocks[i]] # t
  BY FoundOwnEntry DEF SetSession
<1>2. Peer(t) = t
  BY DEF SetSession, Peer, SocketsOwned, Working
<1>3. /\ pc[t] = "setSession" /\ pc' = [pc EXCEPT ![t] = "recv"]
      /\ sessionList' = [sessionList EXCEPT ![slot[t]] = userUID[t]]
      /\ told' = [told EXCEPT ![t] = userUID[t]]
      /\ userUID' = [userUID EXCEPT ![t] = NoUser]
      /\ slot' = [slot EXCEPT ![t] = -1]
      /\ UNCHANGED <<networkVars, mainVars, hClientSocks, clientCount, sock>>
  BY <1>1, <1>2 DEF SetSession, Tell
<1>4. /\ pc'[t] = "recv" /\ sessionList'[slot[t]] = told'[t]
      /\ \A s \in Conn \ {t} : /\ pc'[s] = pc[s] /\ told'[s] = told[s]
                               /\ userUID'[s] = userUID[s] /\ slot'[s] = slot[s]
      /\ \A i \in Slots \ {slot[t]} : sessionList'[i] = sessionList[i]
  BY <1>1, <1>3 DEF TypeOK
<1>5. Kept' = Kept /\ Filled' = Filled
  BY <1>3, <1>4 DEF Kept, Filled
<1>6. Listed' = Listed
  BY <1>3, <1>4 DEF Listed, InTable
<1>7. OneArrival'
  BY <1>3, <1>4 DEF OneArrival
<1>8. SocketsOwned'
  BY <1>3, <1>4 DEF SocketsOwned, Working, TypeOK
<1>9. TableLists'
  <2>1. \A i \in Slots : i >= Kept => i # slot[t]
    BY <1>1, FilledProperties, MaxAssumption DEF Slots
  <2> QED
    BY <1>3, <1>4, <1>5, <1>6, <2>1 DEF TableLists
<1>10. SessionsStored'
  <2>1. ASSUME NEW i \in Slots, i < Filled, told'[owner[hClientSocks[i]]] # NoUser
        PROVE  sessionList'[i] = told'[owner[hClientSocks[i]]]
    <3>1. CASE i = slot[t]
      BY <1>1, <1>4, <3>1
    <3>2. CASE i # slot[t]
      <4>1. owner[hClientSocks[i]] \in Conn \ {t}
        BY <1>1, <2>1, <3>2, ListedConn DEF TableLists
      <4> QED
        BY <1>4, <2>1, <3>2, <4>1 DEF SessionsStored
    <3> QED
      BY <3>1, <3>2
  <2>2. \A s \in Conn : Working(s)' <=> Working(s)
    BY <1>3, <1>4 DEF Working
  <2>3. Working(t)
    BY <1>3 DEF Working
  <2> QED
    BY <1>3, <1>4, <1>5, <2>1, <2>2, <2>3 DEF SessionsStored
<1> QED
  BY <1>7, <1>8, <1>9, <1>10

(* The request is served for the user of the thread's own session.           *)
LEMMA GetSessionKeepsTable ==
  ASSUME CountInvariant, TableParts, NEW t \in Conn, GetSession(t)
  PROVE  TableParts'
<1> USE DEF TableParts, CountInvariant, networkVars
<1>1. /\ slot[t] \in Slots /\ slot[t] < Filled /\ owner[hClientSocks[slot[t]]] = t
      /\ told[t] # NoUser
  BY FoundOwnEntry DEF GetSession, SessionsStored
<1>2. sessionList[slot[t]] = told[t]
  BY <1>1 DEF SessionsStored
<1>3. /\ pc[t] = "getSession" /\ pc' = [pc EXCEPT ![t] = "serve"]
      /\ userUID' = [userUID EXCEPT ![t] = told[t]]
      /\ slot' = [slot EXCEPT ![t] = -1]
      /\ UNCHANGED <<networkVars, mainVars, tableVars, sock, told>>
  BY <1>1, <1>2 DEF GetSession
<1>4. /\ userUID'[t] = told[t]
      /\ \A s \in Conn \ {t} : userUID'[s] = userUID[s] /\ slot'[s] = slot[s]
  BY <1>3 DEF TypeOK
<1>5. /\ Kept' = Kept /\ Filled' = Filled /\ OneArrival' /\ TableLists' /\ SocketsOwned'
      /\ \A s \in Conn \ {t} : pc'[s] = pc[s] /\ Working(s)' = Working(s)
      /\ pc'[t] = "serve" /\ Working(t)'
  <2>1. "serve" \in InTable \ {"start"} /\ pc[t] \in InTable /\ pc[t] # "start"
    BY <1>3 DEF InTable
  <2> QED
    BY <1>3, <2>1, HandlerKeepsEntries
<1>6. SessionsStored'
  BY <1>1, <1>3, <1>4, <1>5 DEF SessionsStored, tableVars
<1> QED
  BY <1>5, <1>6

(* Entry i of an array is, after the removal of entry k, what was Source(i, k). *)
Source(i, k) == IF i < k THEN i ELSE i + 1

LEMMA ShiftOutEntries ==
  ASSUME NEW array, NEW zero, NEW k \in Slots, k < clientCount,
         clientCount \in 0 .. MaxConnection
  PROVE  /\ \A i \in Slots : i < clientCount - 1 =>
              /\ ShiftOut(array, k, zero)[i] = array[Source(i, k)]
              /\ Source(i, k) \in Slots /\ Source(i, k) < clientCount /\ Source(i, k) # k
         /\ \A i \in Slots : i >= clientCount - 1 =>
              ShiftOut(array, k, zero)[i] = IF i >= clientCount THEN array[i] ELSE zero
         /\ \A i, j \in Slots : Source(i, k) = Source(j, k) => i = j
         /\ \A j \in Slots : j < clientCount /\ j # k =>
              \E i \in Slots : i < clientCount - 1 /\ j = Source(i, k)
<1> USE MaxAssumption DEF Slots, Source
<1>1. \A i \in Slots : i < clientCount - 1 =>
        /\ ShiftOut(array, k, zero)[i] = array[Source(i, k)]
        /\ Source(i, k) \in Slots /\ Source(i, k) < clientCount /\ Source(i, k) # k
  BY DEF ShiftOut
<1>2. \A i \in Slots : i >= clientCount - 1 =>
        ShiftOut(array, k, zero)[i] = IF i >= clientCount THEN array[i] ELSE zero
  BY DEF ShiftOut
<1>3. \A i, j \in Slots : Source(i, k) = Source(j, k) => i = j
  OBVIOUS
<1>4. ASSUME NEW j \in Slots, j < clientCount, j # k
      PROVE  \E i \in Slots : i < clientCount - 1 /\ j = Source(i, k)
  <2>1. CASE j < k
    BY <1>4, <2>1
  <2>2. CASE j > k
    <3>1. j - 1 \in Slots /\ j - 1 < clientCount - 1 /\ j = Source(j - 1, k)
      BY <1>4, <2>2
    <3> QED
      BY <3>1
  <2> QED
    BY <1>4, <2>1, <2>2
<1> QED
  BY <1>1, <1>2, <1>3, <1>4

(* The handler removes its own entry; every other moves with its session.    *)
LEMMA ShiftKeepsTable ==
  ASSUME CountInvariant, TableParts, NEW t \in Conn, ShiftTable(t)
  PROVE  TableParts'
<1> USE DEF TableParts, CountInvariant, networkVars, mainVars
<1> DEFINE k == slot[t]
           From(i) == Source(i, k)
<1>1. /\ k \in Slots /\ k < Filled /\ Filled = clientCount /\ Kept = clientCount
      /\ owner[hClientSocks[k]] = t
      /\ \A i \in Slots : i < Filled /\ i # k => owner[hClientSocks[i]] # t
  BY FoundOwnEntry DEF ShiftTable
<1>2. /\ pc[t] = "shift" /\ pc' = [pc EXCEPT ![t] = "count"]
      /\ hClientSocks' = ShiftOut(hClientSocks, k, NoSocket)
      /\ sessionList' = ShiftOut(sessionList, k, NoUser)
      /\ slot' = [slot EXCEPT ![t] = -1]
      /\ UNCHANGED <<networkVars, mainVars, hMutex, clientCount, sock, userUID, told>>
  BY <1>1 DEF ShiftTable
<1>3. /\ \A i \in Slots : i < clientCount - 1 =>
           /\ hClientSocks'[i] = hClientSocks[From(i)]
           /\ sessionList'[i] = sessionList[From(i)]
           /\ From(i) \in Slots /\ From(i) < clientCount /\ From(i) # k
      /\ \A i \in Slots : i >= clientCount - 1 =>
           /\ hClientSocks'[i] = NoSocket
           /\ sessionList'[i] = NoUser
      /\ \A i, j \in Slots : From(i) = From(j) => i = j
      /\ \A j \in Slots : j < clientCount /\ j # k =>
           \E i \in Slots : i < clientCount - 1 /\ j = From(i)
  <2>1. clientCount \in 0 .. MaxConnection /\ k < clientCount
    BY <1>1 DEF TypeOK
  <2>2. \A i \in Slots : i >= clientCount => hClientSocks[i] = NoSocket /\ sessionList[i] = NoUser
    BY <1>1 DEF TableLists
  <2> HIDE DEF k, From
  <2> QED
    BY <1>1, <1>2, <2>1, <2>2, ShiftOutEntries DEF From
<1>4. /\ pc'[t] = "count"
      /\ \A s \in Conn \ {t} : pc'[s] = pc[s] /\ slot'[s] = slot[s]
      /\ \A s \in Conn : Working(s)' <=> Working(s)
  BY <1>2 DEF TypeOK, Working
<1>5. Filled' = clientCount - 1 /\ Kept' = clientCount - 1
  <2>1. mainPc # "inc"
    BY <1>2, ConnAssumption DEF MutualExclusion, HoldsMutex
  <2> QED
    BY <1>2, <1>4, <2>1 DEF Kept, Filled, TypeOK
<1>6. Listed' = Listed \ {t} /\ t \in Listed
  BY <1>2, <1>4 DEF Listed, InTable, NoThreadYet
<1>7. OneArrival'
  BY <1>2, <1>4 DEF OneArrival
<1>8. SocketsOwned'
  BY <1>2, <1>4 DEF SocketsOwned, TypeOK
<1>9. ASSUME NEW i \in Slots, i < clientCount - 1
      PROVE  /\ hClientSocks'[i] \in Handle /\ owner[hClientSocks'[i]] \in Listed \ {t}
             /\ \A j \in Slots : j < clientCount - 1 /\ hClientSocks'[j] = hClientSocks'[i] => j = i
  <2> HIDE DEF From
  <2>1. /\ From(i) \in Slots /\ From(i) < Filled /\ From(i) # k
        /\ hClientSocks'[i] = hClientSocks[From(i)]
    BY <1>1, <1>3, <1>9
  <2>2. hClientSocks'[i] \in Handle /\ owner[hClientSocks'[i]] \in Listed \ {t}
    BY <1>1, <2>1 DEF TableLists
  <2>3. ASSUME NEW j \in Slots, j < clientCount - 1, hClientSocks'[j] = hClientSocks'[i]
        PROVE  j = i
    <3>1. From(j) \in Slots /\ From(j) < Filled /\ hClientSocks[From(j)] = hClientSocks[From(i)]
      BY <1>1, <1>3, <2>1, <2>3
    <3>2. From(j) = From(i)
      BY <2>1, <3>1 DEF TableLists
    <3> QED
      BY <1>3, <3>2
  <2> QED
    BY <2>2, <2>3
<1>10. ASSUME NEW c \in Listed \ {t}
       PROVE  \E i \in Slots : i < clientCount - 1 /\ owner[hClientSocks'[i]] = c
  <2> HIDE DEF From
  <2>1. PICK j \in Slots : j < Filled /\ owner[hClientSocks[j]] = c
    BY <1>10 DEF TableLists
  <2>2. PICK i \in Slots : i < clientCount - 1 /\ j = From(i)
    BY <1>1, <1>3, <1>10, <2>1
  <2> QED
    BY <1>3, <2>1, <2>2
<1>11. TableLists'
  <2>1. mainPc # "inc"
    BY <1>2, ConnAssumption DEF MutualExclusion, HoldsMutex
  <2> HIDE DEF From
  <2> QED
    BY <1>2, <1>3, <1>5, <1>6, <1>9, <1>10, <2>1 DEF TableLists
<1>12. SessionsStored'
  <2>1. ASSUME NEW i \in Slots, i < clientCount - 1, told[owner[hClientSocks'[i]]] # NoUser
        PROVE  sessionList'[i] = told[owner[hClientSocks'[i]]]
    <3> HIDE DEF From
    <3> QED
      BY <1>1, <1>3, <2>1 DEF SessionsStored
  <2>2. \A s \in Conn \ {t} : pc[s] \notin {"setSession", "getSession", "shift"}
    BY <1>2, ConnAssumption DEF MutualExclusion, HoldsMutex
  <2> QED
    BY <1>2, <1>4, <1>5, <2>1, <2>2 DEF SessionsStored
<1> QED
  BY <1>7, <1>8, <1>11, <1>12

LEMMA DropKeepsTable ==
  ASSUME CountInvariant, TableParts, NEW t \in Conn, DropCount(t)
  PROVE  TableParts'
<1> USE DEF TableParts, CountInvariant, networkVars, mainVars
<1>1. /\ pc[t] = "count" /\ pc' = [pc EXCEPT ![t] = "close"] /\ clientCount' = clientCount - 1
      /\ UNCHANGED <<networkVars, mainVars, hClientSocks, sessionList, sock, slot, userUID, told>>
  BY DEF DropCount
<1>2. /\ \A s \in Conn \ {t} : pc[s] \notin HoldsMutex
      /\ mainPc # "inc"
  BY <1>1, ConnAssumption DEF MutualExclusion, HoldsMutex
<1>3. /\ pc'[t] = "close"
      /\ \A s \in Conn \ {t} : pc'[s] = pc[s]
      /\ \A s \in Conn : Working(s)' <=> Working(s)
  BY <1>1 DEF TypeOK, Working
<1>4. Kept' = Kept /\ Filled' = Filled
  <2>1. Kept = clientCount - 1 /\ Filled = clientCount - 1
    BY <1>1, FilledProperties
  <2>2. \A s \in Conn : pc'[s] # "count"
    BY <1>2, <1>3 DEF HoldsMutex
  <2>3. clientCount - 1 \in Int
    BY DEF TypeOK
  <2> QED
    BY <1>1, <1>2, <2>1, <2>2, <2>3 DEF Kept, Filled
<1>5. Listed' = Listed
  BY <1>1, <1>3 DEF Listed, InTable
<1>6. OneArrival'
  BY <1>1, <1>3 DEF OneArrival
<1>7. SocketsOwned'
  BY <1>1, <1>3 DEF SocketsOwned, TypeOK
<1>8. TableLists'
  BY <1>1, <1>2, <1>4, <1>5 DEF TableLists
<1>9. SessionsStored'
  BY <1>1, <1>3, <1>4 DEF SessionsStored
<1> QED
  BY <1>6, <1>7, <1>8, <1>9

(* The socket is closed once it is out of the table. *)
LEMMA EndKeepsTable ==
  ASSUME CountInvariant, TableParts, NEW t \in Conn, EndHandler(t)
  PROVE  TableParts'
<1> USE DEF TableParts, CountInvariant, mainVars, tableVars
<1>1. sock[t] \in Handle /\ owner[sock[t]] = t /\ pc[t] = "close"
  BY DEF EndHandler, SocketsOwned, Working
<1>2. /\ owner' = [owner EXCEPT ![sock[t]] = NoConn]
      /\ pc' = [pc EXCEPT ![t] = "unborn"]
      /\ sock' = [sock EXCEPT ![t] = NoSocket]
      /\ told' = [told EXCEPT ![t] = NoUser]
      /\ UNCHANGED <<backlog, spaced, mainVars, hMutex, tableVars, slot, userUID>>
  BY <1>1 DEF EndHandler, CloseSocket, Tell, Peer, TypeOK
<1>3. /\ pc'[t] = "unborn" /\ told'[t] = NoUser /\ owner'[sock[t]] = NoConn
      /\ \A s \in Conn \ {t} : pc'[s] = pc[s] /\ sock'[s] = sock[s] /\ told'[s] = told[s]
      /\ \A h \in Handle \ {sock[t]} : owner'[h] = owner[h]
      /\ ~Working(t)'
      /\ \A s \in Conn \ {t} : Working(s)' <=> Working(s)
  BY <1>1, <1>2 DEF TypeOK, Working
<1>4. Kept' = Kept /\ Filled' = Filled
  BY <1>1, <1>2, <1>3 DEF Kept, Filled
<1>5. Listed' = Listed /\ t \notin Listed
  BY <1>1, <1>2, <1>3 DEF Listed, InTable, NoThreadYet
<1>6. OneArrival'
  BY <1>2, <1>3 DEF OneArrival
<1>7. \A i \in Slots : i < Filled =>
        /\ hClientSocks[i] \in Handle /\ hClientSocks[i] # sock[t]
        /\ owner'[hClientSocks[i]] = owner[hClientSocks[i]]
        /\ told'[owner[hClientSocks[i]]] = told[owner[hClientSocks[i]]]
  BY <1>1, <1>3, <1>5, ListedConn DEF TableLists
<1>8. SocketsOwned'
  <2>1. ASSUME NEW s \in Conn, Working(s)'
        PROVE  sock'[s] \in Handle /\ owner'[sock'[s]] = s
    BY <1>1, <1>3, <2>1 DEF SocketsOwned
  <2>2. ASSUME mainPc # "accept"
        PROVE  hClientSock \in Handle /\ owner'[hClientSock] = cur
    <3>1. cur # t
      BY <1>1, <2>2 DEF NoThreadYet
    <3> QED
      BY <1>1, <1>3, <2>2, <3>1 DEF SocketsOwned
  <2>3. ASSUME NEW s \in Conn, pc'[s] = "start"
        PROVE  hClientSock \in Handle /\ owner'[hClientSock] = s
    BY <1>1, <1>3, <2>3 DEF SocketsOwned
  <2>4. ASSUME NEW h \in Handle, owner'[h] # NoConn
        PROVE  /\ pc'[owner'[h]] # "unborn" \/ (mainPc # "accept" /\ owner'[h] = cur)
               /\ \A g \in Handle : owner'[g] = owner'[h] => g = h
    <3>1. h # sock[t] /\ owner'[h] = owner[h] /\ owner[h] \in Conn
      BY <1>3, <2>4 DEF TypeOK
    <3>2. owner[h] # t
      BY <1>1, <2>4, <3>1 DEF SocketsOwned
    <3> QED
      BY <1>3, <2>4, <3>1, <3>2 DEF SocketsOwned
  <2> QED
    BY <1>2, <2>1, <2>2, <2>3, <2>4 DEF SocketsOwned
<1>9. TableLists'
  <2>1. \A i \in Slots : i < Filled => owner'[hClientSocks[i]] = owner[hClientSocks[i]]
    BY <1>7
  <2> QED
    BY <1>2, <1>4, <1>5, <2>1 DEF TableLists
<1>10. SessionsStored'
  BY <1>2, <1>3, <1>4, <1>7 DEF SessionsStored
<1> QED
  BY <1>6, <1>8, <1>9, <1>10

(* Arrivals that have not been spaced once are never called spaced again. *)
LEMMA SpacedBefore ==
  ASSUME [Next]_vars, spaced'
  PROVE  spaced
BY DEF Next, Connect, HangUp, MainStep, HandlerStep, Accept, RefuseConnection, AdmitConnection,
     StoreSocket, CountConnection, StartHandler, ThreadFails, Spawn, ReadArgument, RecvFails,
     LockForLogin, LockForRequest, LockForClose, TakeMutex, SetSession, GetSession, Serve,
     ShiftTable, DropCount, EndHandler, RecvRequest, RecvLogout, RecvLogin, networkVars, vars

LEMMA NextKeepsTable ==
  CountInvariant /\ TableInvariant /\ [Next]_vars => TableInvariant'
<1> SUFFICES ASSUME CountInvariant, TableInvariant, [Next]_vars, spaced'
             PROVE  TableParts'
  BY DEF TableInvariant
<1>1. spaced
  BY SpacedBefore
<1>2. TableParts
  BY <1>1 DEF TableInvariant
<1>3. CASE \E c \in Conn : Connect(c) \/ HangUp(c)
  BY <1>2, <1>3, ClientKeepsTable
<1>4. CASE MainStep
  BY <1>2, <1>4, AcceptKeepsTable, RefuseKeepsTable, AdmitKeepsTable, StoreKeepsTable,
     CountKeepsTable, SpawnKeepsTable DEF MainStep, StartHandler, ThreadFails
<1>5. ASSUME NEW t \in Conn, HandlerStep(t)
      PROVE  TableParts'
  BY <1>2, <1>5, ReadArgumentKeepsTable, ReceiveKeepsTable, TakeMutexKeepsTable,
     SetSessionKeepsTable, GetSessionKeepsTable, ShiftKeepsTable, DropKeepsTable, EndKeepsTable
  DEF HandlerStep
<1>6. ASSUME NEW t \in Conn,
             (\E u \in User : RecvLogin(t, u)) \/ RecvRequest(t) \/ RecvLogout(t)
      PROVE  TableParts'
  BY <1>2, <1>6, ReceiveKeepsTable, LogoutKeepsTable
<1>7. CASE UNCHANGED vars
  <2>1. Kept' = Kept /\ Filled' = Filled /\ Listed' = Listed
    BY <1>7 DEF Kept, Filled, Listed, vars, mainVars, tableVars, threadVars
  <2> QED
    BY <1>2, <1>7, <2>1 DEF TableParts, OneArrival, SocketsOwned, TableLists, SessionsStored,
       Working, vars, networkVars, mainVars, tableVars, threadVars
<1> QED
  BY <1>3, <1>4, <1>5, <1>6, <1>7 DEF Next

LEMMA InitTable == Init => TableInvariant
<1> SUFFICES ASSUME Init PROVE TableParts
  BY DEF TableInvariant
<1>1. Kept = 0 /\ Filled = 0 /\ Listed = {}
  <2>1. \A t \in Conn : pc[t] = "unborn"
    BY DEF Init
  <2>2. clientCount = 0 /\ mainPc = "accept"
    BY DEF Init
  <2>3. Kept = 0
    <3>1. ~ \E t \in Conn : pc[t] = "count"
      BY <2>1
    <3>2. Kept = clientCount - 0
      BY <3>1, Zenon DEF Kept
    <3> QED
      BY <2>2, <3>2
  <2>4. Filled = 0
    BY <2>2, <2>3 DEF Filled
  <2>5. Listed = {}
    BY <2>1, <2>2 DEF Listed, InTable
  <2> QED
    BY <2>3, <2>4, <2>5
<1>2. \A i \in Slots : ~(i < 0)
  BY DEF Slots
<1> QED
  BY <1>1, <1>2 DEF Init, TableParts, OneArrival, SocketsOwned, TableLists, SessionsStored, Working

LEMMA TableInvariantHolds == Spec => [](CountInvariant /\ TableInvariant)
<1>1. Init => CountInvariant /\ TableInvariant
  BY InitCountInvariant, InitTable
<1>2. CountInvariant /\ TableInvariant /\ [Next]_vars => (CountInvariant /\ TableInvariant)'
  BY NextPreserves, NextKeepsTable
<1> QED
  BY <1>1, <1>2, PTL DEF Spec

(* A session survives the removal of other connections and is not shared:    *)
(* while arrivals are spaced, every look-up by socket finds what the client  *)
(* was told (socketHandler.c:48-75).                                         *)
THEOREM SessionAsToldAlways == Spec => []SessionAsTold
<1>1. CountInvariant /\ TableInvariant => SessionAsTold
  <2> SUFFICES ASSUME CountInvariant, TableParts, NEW t \in Conn, pc[t] \in InTable \ {"start"}
               PROVE  /\ SlotOf(sock[t]) # -1
                      /\ told[t] # NoUser => sessionList[SlotOf(sock[t])] = told[t]
    BY DEF TableInvariant, SessionAsTold
  <2> DEFINE i == SlotOf(sock[t])
  <2>1. i \in Slots /\ i < Filled /\ hClientSocks[i] = sock[t]
    BY SearchFindsEntry
  <2>2. owner[sock[t]] = t
    BY DEF TableParts, SocketsOwned, Working, InTable
  <2>3. told[t] # NoUser => sessionList[i] = told[t]
    <3> HIDE DEF i
    <3> QED
      BY <2>1, <2>2 DEF TableParts, SessionsStored
  <2>4. i # -1
    <3> HIDE DEF i
    <3> QED
      BY <2>1 DEF Slots
  <2> QED
    BY <2>3, <2>4
<1> QED
  BY <1>1, TableInvariantHolds, PTL

(* A request is served for the user its client is logged in as, though the   *)
(* table may shift between the request and the look-up                       *)
(* (userToFSBridge.c:62-80).                                                 *)
THEOREM ServedAsToldAlways == Spec => []ServedAsTold
<1>1. TableInvariant => ServedAsTold
  BY DEF TableInvariant, TableParts, SessionsStored, ServedAsTold
<1> QED
  BY <1>1, TableInvariantHolds, PTL

(* Outside critical sections the table holds the open sockets of the         *)
(* connections counted, each once, and nothing behind them: a handle is out  *)
(* of the table before it is closed (socketHandler.c:48-75).                 *)
THEOREM TableHoldsOpenSocketsAlways == Spec => []TableHoldsOpenSockets
<1>1. CountInvariant /\ TableInvariant => TableHoldsOpenSockets
  <2> SUFFICES ASSUME CountInvariant, TableParts, hMutex = "free"
               PROVE  TableHoldsOpenSockets
    BY DEF TableInvariant, TableHoldsOpenSockets
  <2>1. Kept = clientCount /\ Filled = clientCount
    BY FilledProperties
  <2>2. mainPc # "inc"
    BY ConnAssumption DEF CountInvariant, MutualExclusion
  <2>3. Listed \subseteq Counted
    BY <2>2 DEF Listed, Counted
  <2>4. \A i \in Slots : i >= clientCount => hClientSocks[i] = NoSocket /\ sessionList[i] = NoUser
    BY <2>1 DEF TableParts, TableLists
  <2>5. ASSUME NEW i \in Slots, i < clientCount
        PROVE  /\ hClientSocks[i] \in Handle
               /\ owner[hClientSocks[i]] \in Counted
               /\ \A j \in Slots : j < i => hClientSocks[j] # hClientSocks[i]
    <3>1. /\ hClientSocks[i] \in Handle /\ owner[hClientSocks[i]] \in Listed
          /\ \A j \in Slots : j < clientCount /\ hClientSocks[j] = hClientSocks[i] => j = i
      BY <2>1, <2>5 DEF TableParts, TableLists
    <3>2. \A j \in Slots : j < i => j < clientCount /\ j # i
      BY <2>5, MaxAssumption DEF Slots, CountInvariant, TypeOK
    <3> QED
      BY <2>3, <3>1, <3>2
  <2> QED
    BY <2>4, <2>5 DEF TableHoldsOpenSockets
<1> QED
  BY <1>1, TableInvariantHolds, PTL

-----------------------------------------------------------------------------
(* The table implements the directory of sessions. *)

(* What the directory says is in the table. *)
DirectoryListed ==
  /\ \A i \in Slots : i < Filled /\ i < clientCount =>
       /\ owner[hClientSocks[i]] \in Conn
       /\ directory[owner[hClientSocks[i]]] = sessionList[i]
       /\ sessionList[i] # Absent
  /\ \A c \in Conn : directory[c] # Absent =>
       \E i \in Slots : i < Filled /\ i < clientCount /\ owner[hClientSocks[i]] = c

LEMMA DirectoryFromTable == CountInvariant /\ TableParts => DirectoryListed
<1> SUFFICES ASSUME CountInvariant, TableParts PROVE DirectoryListed
  OBVIOUS
<1>1. ASSUME NEW c \in Conn, NEW i \in Entry(c)
      PROVE  i \in Slots /\ i < Filled /\ i < clientCount /\ owner[hClientSocks[i]] = c
  <2>1. i \in Slots /\ i < clientCount /\ hClientSocks[i] \in Handle /\ owner[hClientSocks[i]] = c
    BY DEF Entry
  <2>2. i < Filled
    BY <2>1, HandleAssumption, FilledProperties DEF TableParts, TableLists, Slots
  <2> QED
    BY <2>1, <2>2
<1>2. ASSUME NEW i \in Slots, i < Filled, i < clientCount
      PROVE  /\ owner[hClientSocks[i]] \in Conn
             /\ directory[owner[hClientSocks[i]]] = sessionList[i]
             /\ sessionList[i] # Absent
  <2> DEFINE c == owner[hClientSocks[i]]
             e == First(Entry(c))
  <2>1. c \in Conn /\ i \in Entry(c)
    BY <1>2, ListedConn DEF TableParts, TableLists, Entry
  <2>2. e \in Entry(c)
    <3>1. Entry(c) \in SUBSET Nat
      BY MaxAssumption DEF Entry, Slots
    <3> QED
      BY <2>1, <3>1, FirstProperty
  <2>3. e = i
    <3> HIDE DEF e
    <3> QED
      BY <1>1, <1>2, <2>1, <2>2, OneEntry
  <2>4. directory[c] = sessionList[e]
    BY <2>1 DEF directory
  <2>5. sessionList[i] \in User \cup {NoUser}
    BY DEF CountInvariant, TypeOK
  <2> QED
    BY <2>1, <2>3, <2>4, <2>5, AbsentAssumption DEF Absent
<1>3. ASSUME NEW c \in Conn, directory[c] # Absent
      PROVE  \E i \in Slots : i < Filled /\ i < clientCount /\ owner[hClientSocks[i]] = c
  <2>1. Entry(c) # {}
    BY <1>3 DEF directory
  <2> QED
    BY <1>1, <2>1
<1> QED
  BY <1>2, <1>3 DEF DirectoryListed

LEMMA DirectoryFromTablePrimed == (CountInvariant /\ TableParts => DirectoryListed)'
BY DirectoryFromTable, PTL

LEMMA SameEntries ==
  ASSUME \A c \in Conn : Entry(c)' = Entry(c), sessionList' = sessionList
  PROVE  directory' = directory
BY DEF directory

(* A step that leaves the entries in use alone leaves the directory alone. *)
LEMMA SameDirectory ==
  ASSUME CountInvariant, TableParts, UNCHANGED <<sessionList, clientCount>>,
         \A i \in Slots : i < clientCount =>
           /\ hClientSocks'[i] = hClientSocks[i]
           /\ i < Filled => owner'[hClientSocks[i]] = owner[hClientSocks[i]]
  PROVE  directory' = directory
<1>1. \A i \in Slots : hClientSocks[i] \in Handle => i < Filled
  BY HandleAssumption, FilledProperties DEF TableParts, TableLists, Slots
<1>2. \A c \in Conn : Entry(c)' = Entry(c)
  BY <1>1 DEF Entry
<1> QED
  BY <1>2, SameEntries

LEMMA DirectoryChange ==
  ASSUME NEW c \in Conn, NEW v, directory'[c] = v,
         \A d \in Conn \ {c} : directory'[d] = directory[d]
  PROVE  directory' = [directory EXCEPT ![c] = v]
BY DEF directory

(* A client whose entry is kept, wherever it moves, keeps its session. *)
LEMMA SameForClient ==
  ASSUME DirectoryListed, DirectoryListed', NEW d \in Conn,
         \A i \in Slots : i < Filled /\ i < clientCount /\ owner[hClientSocks[i]] = d =>
           \E j \in Slots : /\ j < Filled' /\ j < clientCount' /\ owner'[hClientSocks'[j]] = d
                            /\ sessionList'[j] = sessionList[i],
         \A j \in Slots : j < Filled' /\ j < clientCount' /\ owner'[hClientSocks'[j]] = d =>
           \E i \in Slots : i < Filled /\ i < clientCount /\ owner[hClientSocks[i]] = d
  PROVE  directory'[d] = directory[d]
<1>1. CASE directory[d] = Absent
  BY <1>1 DEF DirectoryListed
<1>2. CASE directory[d] # Absent
  <2>1. PICK i \in Slots : i < Filled /\ i < clientCount /\ owner[hClientSocks[i]] = d
    BY <1>2 DEF DirectoryListed
  <2>2. directory[d] = sessionList[i]
    BY <2>1 DEF DirectoryListed
  <2>3. PICK j \in Slots : /\ j < Filled' /\ j < clientCount' /\ owner'[hClientSocks'[j]] = d
                           /\ sessionList'[j] = sessionList[i]
    BY <2>1
  <2>4. directory'[d] = sessionList'[j]
    BY <2>3 DEF DirectoryListed
  <2> QED
    BY <2>2, <2>3, <2>4
<1> QED
  BY <1>1, <1>2

(* Only counted clients are in the directory, so it has room for one that    *)
(* main counts.                                                              *)
LEMMA CountEnters ==
  ASSUME CountInvariant, CountInvariant', TableParts, TableParts', CountConnection
  PROVE  Directory!Enter(cur)
<1> USE DEF networkVars, threadVars
<1> DEFINE n == clientCount
<1>1. DirectoryListed /\ DirectoryListed'
  BY DirectoryFromTable, DirectoryFromTablePrimed
<1>2. /\ mainPc = "inc" /\ mainPc' = "spawn" /\ clientCount' = n + 1
      /\ UNCHANGED <<owner, cur, hClientSock, hClientSocks, sessionList, pc>>
  BY DEF CountConnection
<1>3. Kept = n /\ Filled = n + 1 /\ Filled' = n + 1
  <2>1. Kept = n /\ Filled = n + 1
    BY <1>2, FilledProperties
  <2>2. ~ \E t \in Conn : pc[t] = "count"
    BY <1>2, ConnAssumption DEF CountInvariant, MutualExclusion, HoldsMutex
  <2> QED
    BY <1>2, <2>1, <2>2 DEF Kept, Filled, CountInvariant, TypeOK
<1>4. n \in Slots /\ n < MaxConnection /\ \A i \in Slots : i < n + 1 <=> i < n \/ i = n
  BY <1>2, MaxAssumption DEF CountInvariant, StoreInBounds, TypeOK, Slots
<1>5. cur \in Conn /\ hClientSocks[n] = hClientSock /\ owner[hClientSocks[n]] = cur
  BY <1>2 DEF CountInvariant, NoThreadYet, TableParts, TableLists, SocketsOwned
<1>6. ASSUME NEW i \in Slots, i < n
      PROVE  owner[hClientSocks[i]] # cur
  BY <1>3, <1>4, <1>5, <1>6, OneEntry DEF Slots
<1>7. directory[cur] = Absent
  BY <1>1, <1>5, <1>6 DEF DirectoryListed
<1>8. Cardinality(Directory!Present) < MaxConnection
  <2>1. Directory!Present \subseteq Counted
    <3> SUFFICES ASSUME NEW c \in Conn, directory[c] # Absent
                 PROVE  c \in Counted
      BY DEF Directory!Present
    <3>1. PICK i \in Slots : i < Filled /\ i < n /\ owner[hClientSocks[i]] = c
      BY <1>1 DEF DirectoryListed
    <3>2. c \in Listed /\ c # cur
      BY <1>6, <3>1 DEF TableParts, TableLists
    <3> QED
      BY <3>2 DEF Listed, Counted
  <2>2. Cardinality(Directory!Present) <= Cardinality(Counted)
        /\ Cardinality(Directory!Present) \in Nat /\ Cardinality(Counted) \in Nat
    BY <2>1, CountedFinite, FS_Subset, FS_CardinalityType DEF CountInvariant
  <2>3. Cardinality(Counted) = n
    BY DEF CountInvariant, CountIsExact
  <2> QED
    BY <1>4, <2>2, <2>3, MaxAssumption
<1>9. directory'[cur] = NoUser
  <2>1. sessionList[n] = NoUser
    BY <1>3, <1>4 DEF TableParts, TableLists, Slots
  <2> QED
    BY <1>1, <1>2, <1>3, <1>4, <1>5, <2>1 DEF DirectoryListed
<1>10. ASSUME NEW d \in Conn \ {cur}
       PROVE  directory'[d] = directory[d]
  BY <1>1, <1>2, <1>3, <1>4, <1>5, SameForClient
<1>11. directory' = [directory EXCEPT ![cur] = NoUser]
  BY <1>5, <1>9, <1>10, DirectoryChange
<1>12. Directory!Cardinality(Directory!Present) = Cardinality(Directory!Present)
  BY Zenon DEF Cardinality, Directory!Cardinality
<1> QED
  BY <1>5, <1>7, <1>8, <1>11, <1>12 DEF Directory!Enter

LEMMA SetSessionLogsIn ==
  ASSUME CountInvariant, CountInvariant', TableParts, TableParts', NEW t \in Conn, SetSession(t)
  PROVE  \E u \in User : Directory!Login(t, u)
<1> USE DEF networkVars, mainVars
<1>1. DirectoryListed /\ DirectoryListed'
  BY DirectoryFromTable, DirectoryFromTablePrimed
<1>2. /\ slot[t] \in Slots /\ slot[t] < Filled /\ Kept = clientCount /\ Filled = clientCount
      /\ owner[hClientSocks[slot[t]]] = t
      /\ \A i \in Slots : i < Filled /\ i # slot[t] => owner[hClientSocks[i]] # t
  BY FoundOwnEntry DEF SetSession
<1>3. /\ pc[t] = "setSession" /\ pc' = [pc EXCEPT ![t] = "recv"]
      /\ sessionList' = [sessionList EXCEPT ![slot[t]] = userUID[t]]
      /\ UNCHANGED <<networkVars, mainVars, hClientSocks, clientCount, sock>>
  BY <1>2 DEF SetSession
<1>4. userUID[t] \in User
  BY <1>3 DEF TableParts, SessionsStored
<1>5. Filled' = Filled
  BY <1>3 DEF Kept, Filled, CountInvariant, TypeOK
<1>6. /\ sessionList'[slot[t]] = userUID[t]
      /\ \A i \in Slots \ {slot[t]} : sessionList'[i] = sessionList[i]
  BY <1>2, <1>3 DEF CountInvariant, TypeOK
<1>7. directory[t] # Absent /\ directory'[t] = userUID[t]
  BY <1>1, <1>2, <1>3, <1>5, <1>6 DEF DirectoryListed
<1>8. ASSUME NEW d \in Conn \ {t}
      PROVE  directory'[d] = directory[d]
  BY <1>1, <1>2, <1>3, <1>5, <1>6, SameForClient
<1>9. directory' = [directory EXCEPT ![t] = userUID[t]]
  BY <1>7, <1>8, DirectoryChange
<1> QED
  BY <1>4, <1>7, <1>9 DEF Directory!Login

LEMMA ShiftLeaves ==
  ASSUME CountInvariant, CountInvariant', TableParts, TableParts', NEW t \in Conn, ShiftTable(t)
  PROVE  Directory!Leave(t)
<1> USE DEF networkVars, mainVars
<1> DEFINE k == slot[t]
           n == clientCount
           From(i) == Source(i, k)
<1>1. DirectoryListed /\ DirectoryListed'
  BY DirectoryFromTable, DirectoryFromTablePrimed
<1>2. /\ k \in Slots /\ k < n /\ Kept = n /\ Filled = n
      /\ owner[hClientSocks[k]] = t
      /\ \A i \in Slots : i < n /\ i # k => owner[hClientSocks[i]] # t
  BY FoundOwnEntry DEF ShiftTable
<1>3. /\ pc[t] = "shift" /\ pc' = [pc EXCEPT ![t] = "count"]
      /\ hClientSocks' = ShiftOut(hClientSocks, k, NoSocket)
      /\ sessionList' = ShiftOut(sessionList, k, NoUser)
      /\ UNCHANGED <<owner, mainPc, clientCount>>
  BY <1>2 DEF ShiftTable
<1>4. n \in 0 .. MaxConnection
  BY DEF CountInvariant, TypeOK
<1>5. Filled' = n - 1
  <2>1. mainPc # "inc" /\ pc'[t] = "count"
    BY <1>3, ConnAssumption DEF CountInvariant, TypeOK, MutualExclusion, HoldsMutex
  <2> QED
    BY <1>3, <1>4, <2>1 DEF Kept, Filled
<1>6. \A i \in Slots : i < n - 1 => i < n
  BY <1>4 DEF Slots
<1>7. /\ \A i \in Slots : i < n - 1 =>
           /\ hClientSocks'[i] = hClientSocks[From(i)]
           /\ sessionList'[i] = sessionList[From(i)]
           /\ From(i) \in Slots /\ From(i) < n /\ From(i) # k
      /\ \A j \in Slots : j < n /\ j # k => \E i \in Slots : i < n - 1 /\ j = From(i)
  <2> HIDE DEF k, n, From
  <2> QED
    BY <1>2, <1>3, <1>4, ShiftOutEntries DEF From, n
<1> HIDE DEF From
<1>8. directory[t] # Absent
  BY <1>1, <1>2 DEF DirectoryListed
<1>9. directory'[t] = Absent
  BY <1>1, <1>2, <1>3, <1>5, <1>6, <1>7 DEF DirectoryListed
<1>10. ASSUME NEW d \in Conn \ {t}
       PROVE  directory'[d] = directory[d]
  <2>1. ASSUME NEW i \in Slots, i < Filled, i < n, owner[hClientSocks[i]] = d
        PROVE  \E j \in Slots : /\ j < Filled' /\ j < clientCount' /\ owner'[hClientSocks'[j]] = d
                                /\ sessionList'[j] = sessionList[i]
    BY <1>2, <1>3, <1>5, <1>6, <1>7, <2>1
  <2>2. ASSUME NEW j \in Slots, j < Filled', j < clientCount', owner'[hClientSocks'[j]] = d
        PROVE  \E i \in Slots : i < Filled /\ i < n /\ owner[hClientSocks[i]] = d
    BY <1>2, <1>3, <1>5, <1>6, <1>7, <2>2
  <2> QED
    BY <1>1, <2>1, <2>2, SameForClient
<1>11. directory' = [directory EXCEPT ![t] = Absent]
  BY <1>9, <1>10, DirectoryChange
<1> QED
  BY <1>8, <1>11 DEF Directory!Leave

LEMMA DropKeepsDirectory ==
  ASSUME CountInvariant, TableParts, NEW t \in Conn, DropCount(t)
  PROVE  directory' = directory
<1>1. /\ clientCount' = clientCount - 1
      /\ UNCHANGED <<owner, hClientSocks, sessionList>>
      /\ Filled = clientCount - 1
  BY FilledProperties DEF DropCount, networkVars
<1>2. \A i \in Slots : i < clientCount /\ hClientSocks[i] \in Handle => i < clientCount - 1
  BY <1>1, HandleAssumption, MaxAssumption DEF TableParts, TableLists, Slots, CountInvariant, TypeOK
<1>3. \A i \in Slots : i < clientCount - 1 => i < clientCount
  BY DEF Slots, CountInvariant, TypeOK
<1>4. \A c \in Conn : Entry(c)' = Entry(c)
  BY <1>1, <1>2, <1>3 DEF Entry
<1> QED
  BY <1>1, <1>4, SameEntries

(* Opening and closing handles leaves the owners of the entries alone. *)
LEMMA HandlesKeepDirectory ==
  ASSUME CountInvariant, TableParts,
         \/ \E c \in Conn, h \in Handle : Accept(c, h)
         \/ RefuseConnection
         \/ \E t \in Conn : EndHandler(t)
  PROVE  directory' = directory
<1>1. UNCHANGED <<hClientSocks, sessionList, clientCount>>
  BY DEF Accept, RefuseConnection, EndHandler, tableVars
<1>2. ASSUME NEW i \in Slots, i < Filled
      PROVE  owner'[hClientSocks[i]] = owner[hClientSocks[i]]
  <2> DEFINE h == hClientSocks[i]
  <2>1. h \in Handle /\ owner[h] \in Listed /\ owner[h] # NoConn
    BY <1>2, ListedConn, ConnAssumption DEF TableParts, TableLists
  <2>2. CASE \E c \in Conn, g \in Handle : Accept(c, g)
    BY <2>1, <2>2 DEF Accept, CountInvariant, TypeOK
  <2>3. CASE RefuseConnection
    <3>1. owner[hClientSock] \notin Listed
      BY <2>3 DEF RefuseConnection, CountInvariant, NoThreadYet, TableParts, SocketsOwned,
         Listed, InTable
    <3> QED
      BY <2>1, <2>3, <3>1 DEF RefuseConnection, CloseSocket
  <2>4. ASSUME NEW t \in Conn, EndHandler(t)
        PROVE  owner'[h] = owner[h]
    <3>1. owner[sock[t]] \notin Listed
      BY <2>4 DEF EndHandler, CountInvariant, NoThreadYet, TableParts, SocketsOwned, Working,
         Listed, InTable
    <3> QED
      BY <2>1, <2>4, <3>1 DEF EndHandler, CloseSocket
  <2> QED
    BY <2>2, <2>3, <2>4
<1> QED
  BY <1>1, <1>2, SameDirectory

LEMMA StoreKeepsDirectory ==
  ASSUME CountInvariant, TableParts, StoreSocket
  PROVE  directory' = directory
<1>1. \A i \in Slots : i < clientCount => hClientSocks'[i] = hClientSocks[i]
  BY DEF StoreSocket, Slots, CountInvariant, TypeOK
<1>2. UNCHANGED <<owner, sessionList, clientCount>>
  BY DEF StoreSocket, networkVars
<1> QED
  BY <1>1, <1>2, SameDirectory

(* The refinement, step by step: main's count is the entry of a client, a    *)
(* handler's setting of the session its login, the shift its departure, and  *)
(* all else goes unseen.                                                     *)
LEMMA StepImplementsDirectory ==
  CountInvariant /\ CountInvariant' /\ TableInvariant /\ TableInvariant' /\ [Next]_vars
    => [Directory!Next]_<<directory, spaced>>
<1> SUFFICES ASSUME CountInvariant, CountInvariant', TableInvariant, TableInvariant',
                    [Next]_vars
             PROVE  [Directory!Next]_<<directory, spaced>>
  OBVIOUS
<1>1. CASE ~spaced'
  BY <1>1 DEF Directory!Next
<1>2. CASE spaced'
  <2>1. spaced
    BY <1>2, SpacedBefore
  <2>2. TableParts /\ TableParts'
    BY <1>2, <2>1 DEF TableInvariant
  <2>3. SUFFICES Directory!Change \/ directory' = directory
    BY <1>2, <2>1, <2>3 DEF Directory!Next
  <2>4. ASSUME UNCHANGED <<owner, tableVars>>
        PROVE  directory' = directory
    BY <2>2, <2>4, SameDirectory DEF tableVars
  <2>5. ASSUME NEW c \in Conn, Connect(c) \/ HangUp(c)
        PROVE  directory' = directory
    BY <2>4, <2>5 DEF Connect, HangUp
  <2>6. CASE MainStep
    <3>1. cur \in Conn \/ mainPc = "accept"
      BY DEF CountInvariant, NoThreadYet
    <3>2. CASE CountConnection
      BY <2>2, <3>1, <3>2, CountEnters DEF Directory!Change, CountConnection
    <3>3. CASE AdmitConnection \/ StartHandler \/ ThreadFails
      BY <2>4, <3>3 DEF AdmitConnection, StartHandler, ThreadFails, Spawn, networkVars
    <3> QED
      BY <2>2, <2>6, <3>2, <3>3, HandlesKeepDirectory, StoreKeepsDirectory DEF MainStep
  <2>7. ASSUME NEW t \in Conn, HandlerStep(t)
        PROVE  Directory!Change \/ directory' = directory
    <3>1. CASE ReadArgument(t) \/ RecvFails(t) \/ LockForLogin(t) \/ LockForRequest(t)
               \/ GetSession(t) \/ Serve(t) \/ LockForClose(t)
      BY <2>4, <3>1 DEF ReadArgument, RecvFails, LockForLogin, LockForRequest, TakeMutex,
         GetSession, Serve, LockForClose, networkVars
    <3>2. CASE SetSession(t)
      BY <2>2, <3>2, SetSessionLogsIn DEF Directory!Change
    <3>3. CASE ShiftTable(t)
      BY <2>2, <3>3, ShiftLeaves DEF Directory!Change
    <3>4. CASE DropCount(t) \/ EndHandler(t)
      BY <2>2, <3>4, DropKeepsDirectory, HandlesKeepDirectory
    <3> QED
      BY <2>7, <3>1, <3>2, <3>3, <3>4 DEF HandlerStep
  <2>8. ASSUME NEW t \in Conn,
               (\E u \in User : RecvLogin(t, u)) \/ RecvRequest(t) \/ RecvLogout(t)
        PROVE  directory' = directory
    BY <2>4, <2>8 DEF RecvLogin, RecvRequest, RecvLogout, networkVars
  <2>9. CASE UNCHANGED vars
    BY <2>4, <2>9 DEF vars, networkVars
  <2> QED
    BY <2>5, <2>6, <2>7, <2>8, <2>9 DEF Next
<1> QED
  BY <1>1, <1>2 DEF CountInvariant, TypeOK

LEMMA InitImplementsDirectory == Init => Directory!Init
<1> SUFFICES ASSUME Init PROVE Directory!Init
  OBVIOUS
<1>1. \A c \in Conn : Entry(c) = {}
  BY DEF Init, Entry, Slots
<1> QED
  BY <1>1 DEF Init, Directory!Init, directory

(* The table of sockets and sessions, with its two critical sections per     *)
(* connection, is to its users a directory in which a client enters without  *)
(* a session and only its own login and departure change what is said of it  *)
(* (RelayServer.c:207-224, socketHandler.c:48-75), as long as each client    *)
(* arrives when the threads started have read their argument.                *)
THEOREM TableImplementsDirectory == Spec => ImplementsDirectory
<1>1. Init => Directory!Init
  BY InitImplementsDirectory
<1>2. CountInvariant /\ CountInvariant' /\ TableInvariant /\ TableInvariant' /\ [Next]_vars
        => [Directory!Next]_<<directory, spaced>>
  BY StepImplementsDirectory
<1> QED
  BY <1>1, <1>2, TableInvariantHolds, PTL DEF Spec, ImplementsDirectory, Directory!Spec

==============================================================================
