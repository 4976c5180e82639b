-------------------------- MODULE AuthWaitList_proofs --------------------------
(***************************************************************************)
(* The wait list of the file server stays inside its array for every       *)
(* number of requests and connections, although entries are added without  *)
(* the mutex while the collector runs.                                     *)
(***************************************************************************)
EXTENDS AuthWaitList, FiniteSetTheorems, WellFoundedInduction, TLAPS

(* A set of natural numbers that is not empty has a smallest element. *)
LEMMA SmallestExists ==
  ASSUME NEW T \in SUBSET Nat, T # {}
  PROVE  \E x \in T : \A y \in T : x <= y
<1> DEFINE R == {ss \in Nat \X Nat : ss[1] < ss[2]}
<1>1. IsWellFoundedOn(R, Nat)
  BY NatLessThanWellFounded, Zenon DEF OpToRel
<1>2. ASSUME NEW x \in Nat, NEW y \in Nat, <<y, x>> \notin R
      PROVE  x <= y
  <2>1. <<y, x>> \in Nat \X Nat /\ <<y, x>>[1] = y /\ <<y, x>>[2] = x
    OBVIOUS
  <2>2. ~ (y < x)
    BY <1>2, <2>1, Zenon
  <2> QED
    BY <2>2
<1> HIDE DEF R
<1>3. PICK x \in T : \A y \in T : <<y, x>> \notin R
  BY <1>1, WFMin
<1> QED
  BY <1>2, <1>3

(* The first of the indices is one of them, and none is before it. *)
LEMMA FirstProperty ==
  ASSUME NEW T \in SUBSET Nat, T # {}
  PROVE  First(T) \in T /\ \A y \in T : First(T) <= y
BY SmallestExists DEF First

(* The relay server's connection is always counted. *)
LEMMA RelayIsCounted == clientCount \in Nat /\ clientCount >= 1
<1>1. IsFiniteSet(Seated)
  BY ReqAssumption, FS_Subset DEF Seated
<1> QED
  BY <1>1, FS_CardinalityType DEF clientCount

LEMMA InitBounds == Init => BoundsInvariant
<1> SUFFICES ASSUME Init
             PROVE  BoundsInvariant
  OBVIOUS
<1>1. authWaitList \in [Slots -> DC_AUTHWAIT_LIST]
  <2>1. Expired \in 0 .. Expired
    BY AgeAssumption DEF Expired
  <2> QED
    BY <2>1 DEF Init, DC_AUTHWAIT_LIST
<1>2. /\ client \in [Req -> {"out", "asked", "granted", "connected", "loggedIn", "rejected"}]
      /\ session \in [Req -> Req \cup {NoReq}]
  BY DEF Init
<1>3. /\ authWaitCount = 0
      /\ addPc = "idle" /\ adding = NoReq /\ addIndex = 0
      /\ gcPc = "asleep" /\ gcIndex = 0 /\ gcCount = 0
      /\ overlapped \in BOOLEAN
  BY DEF Init
<1>4. TypeOK
  BY <1>1, <1>2, <1>3 DEF TypeOK
<1> QED
  BY <1>4, MaxAssumption DEF Init, BoundsInvariant, InBounds, Slots

(* Additions: the place was tested against the count, and only an addition   *)
(* raises the count.                                                         *)
LEMMA AddPreserves ==
  ASSUME BoundsInvariant, AddStep \/ \E r \in Req : AskForPlace(r)
  PROVE  BoundsInvariant'
<1> USE DEF BoundsInvariant, InBounds, listVars, addVars, gcVars
<1>1. ASSUME NEW r \in Req, AskForPlace(r)
      PROVE  BoundsInvariant'
  <2>1. TypeOK'
    <3>1. /\ addPc' \in {addPc, "key"}
          /\ adding' \in {adding, r}
          /\ client' \in {client, [client EXCEPT ![r] = "asked"]}
          /\ UNCHANGED <<listVars, addIndex, gcPc, gcIndex, gcCount, session>>
      BY <1>1 DEF AskForPlace
    <3>2. overlapped' \in BOOLEAN
      BY <1>1 DEF AskForPlace
    <3> QED
      BY <3>1, <3>2 DEF TypeOK
  <2>2. addPc' # "idle" => authWaitCount < MaxConnection - 1
    BY <1>1, RelayIsCounted, MaxAssumption DEF AskForPlace, TypeOK
  <2> QED
    BY <1>1, <2>1, <2>2 DEF AskForPlace
<1>2. CASE WriteKey
  <2>1. TypeOK'
    BY <1>2 DEF WriteKey, TypeOK, DC_AUTHWAIT_LIST
  <2> QED
    BY <1>2, <2>1 DEF WriteKey
<1>3. CASE WriteTime
  <2>1. authWaitList' \in [Slots -> DC_AUTHWAIT_LIST]
    <3>1. 0 \in 0 .. Expired
      BY AgeAssumption DEF Expired
    <3> QED
      BY <1>3, <3>1 DEF WriteTime, TypeOK, DC_AUTHWAIT_LIST
  <2>2. TypeOK'
    BY <1>3, <2>1 DEF WriteTime, TypeOK
  <2> QED
    BY <1>3, <2>2 DEF WriteTime
<1>4. CASE WriteUid
  <2>1. TypeOK'
    <3>1. authWaitList' \in [Slots -> DC_AUTHWAIT_LIST]
      BY <1>4 DEF WriteUid, TypeOK, DC_AUTHWAIT_LIST
    <3>2. /\ addIndex' = authWaitCount /\ addPc' = "count"
          /\ UNCHANGED <<authWaitCount, adding, gcVars, client, session>>
      BY <1>4 DEF WriteUid
    <3> QED
      BY <3>1, <3>2 DEF TypeOK
  <2>2. authWaitCount \in 0 .. MaxConnection - 2
    BY <1>4, MaxAssumption DEF WriteUid, TypeOK, Slots
  <2> QED
    BY <1>4, <2>1, <2>2 DEF WriteUid
<1>5. CASE Grant
  <2>1. authWaitCount' \in Slots
    BY <1>5, MaxAssumption DEF Grant, Slots
  <2>2. TypeOK'
    <3>1. /\ authWaitCount' = addIndex + 1 /\ addIndex' = 0
          /\ addPc' = "idle" /\ adding' = NoReq
          /\ client' = [client EXCEPT ![adding] = "granted"]
          /\ UNCHANGED <<authWaitList, gcVars, session>>
      BY <1>5 DEF Grant
    <3>2. client' \in [Req -> {"out", "asked", "granted", "connected",
                              "loggedIn", "rejected"}]
      <4>1. client \in [Req -> {"out", "asked", "granted", "connected",
                               "loggedIn", "rejected"}]
        BY DEF TypeOK
      <4> HIDE DEF BoundsInvariant
      <4> QED
        BY <3>1, <4>1
    <3>3. authWaitCount' \in Int /\ addIndex' \in Int
      BY <3>1 DEF TypeOK
    <3> QED
      BY <3>1, <3>2, <3>3 DEF TypeOK
  <2> QED
    BY <1>5, <2>1, <2>2 DEF Grant
<1> QED
  BY <1>1, <1>2, <1>3, <1>4, <1>5 DEF AddStep

(* The collector: the entry it copies lies at most at authWaitCount. *)
LEMMA GcPreserves ==
  ASSUME BoundsInvariant, GcStep
  PROVE  BoundsInvariant'
<1> USE DEF BoundsInvariant, InBounds, listVars, addVars, gcVars
<1>1. CASE StartPass
  BY <1>1 DEF StartPass, TypeOK
<1>2. CASE KeepEntry
  BY <1>2 DEF KeepEntry, TypeOK
<1>3. CASE CopyNext
  <2>1. /\ gcIndex \in Slots /\ gcIndex + 1 \in Slots
        /\ authWaitCount \in 1 .. MaxConnection - 1
    BY <1>3, MaxAssumption DEF CopyNext, TypeOK, Slots
  <2>2. authWaitList' \in [Slots -> DC_AUTHWAIT_LIST]
    BY <1>3, <2>1 DEF CopyNext, TypeOK
  <2>3. TypeOK'
    BY <1>3, <2>2 DEF CopyNext, TypeOK
  <2> QED
    BY <1>3, <2>1, <2>3 DEF CopyNext
<1>4. CASE Decrement
  <2>1. gcCount - 1 \in 0 .. MaxConnection - 2
    BY <1>4, MaxAssumption DEF Decrement
  <2>2. authWaitCount' \in Slots /\ authWaitCount' < MaxConnection - 1
    BY <1>4, <2>1, MaxAssumption DEF Decrement, Slots
  <2>3. TypeOK'
    BY <1>4, <2>2 DEF Decrement, TypeOK, Slots
  <2> QED
    BY <1>4, <2>2, <2>3 DEF Decrement
<1>5. CASE EndPass
  BY <1>5 DEF EndPass, TypeOK
<1> QED
  BY <1>1, <1>2, <1>3, <1>4, <1>5 DEF GcStep

(* Clients and the clock leave the counts alone. *)
LEMMA ClientPreserves ==
  ASSUME BoundsInvariant,
         Tick \/ \E r \in Req : Connect(r) \/ procFileLogin(r) \/ Leave(r)
  PROVE  BoundsInvariant'
<1> USE DEF BoundsInvariant, InBounds, listVars, addVars, gcVars
<1>1. UNCHANGED <<authWaitCount, addVars, gcVars>>
  BY DEF Tick, Connect, procFileLogin, Leave
<1>2. ASSUME Tick PROVE TypeOK'
  <2>1. \A a \in 0 .. Expired : (IF a < Expired THEN a + 1 ELSE a) \in 0 .. Expired
    BY AgeAssumption DEF Expired
  <2>2. authWaitList' \in [Slots -> DC_AUTHWAIT_LIST]
    BY <1>2, <2>1 DEF Tick, TypeOK, DC_AUTHWAIT_LIST
  <2> QED
    BY <1>2, <2>2 DEF Tick, TypeOK
<1>3. ASSUME NEW r \in Req, Connect(r) \/ Leave(r) PROVE TypeOK'
  BY <1>3 DEF Connect, Leave, TypeOK
<1>4. ASSUME NEW r \in Req, procFileLogin(r) PROVE TypeOK'
  <2> DEFINE found == {i \in InUse : authWaitList[i].key = r}
  <2>1. CASE found = {}
    BY <1>4, <2>1 DEF procFileLogin, TypeOK
  <2>2. CASE found # {}
    <3>1. First(found) \in Slots
      <4>1. found \in SUBSET Nat /\ found \subseteq Slots
        BY MaxAssumption DEF InUse, Slots
      <4> QED
        BY <2>2, <4>1, FirstProperty
    <3>2. /\ client' = [client EXCEPT ![r] = "loggedIn"]
          /\ session' = [session EXCEPT ![r] = authWaitList[First(found)].uid]
          /\ authWaitList' = [authWaitList EXCEPT ![First(found)].age = Expired]
      BY <1>4, <2>2 DEF procFileLogin
    <3>3. Expired \in 0 .. Expired
      BY AgeAssumption DEF Expired
    <3>4. authWaitList' \in [Slots -> DC_AUTHWAIT_LIST]
      BY <3>1, <3>2, <3>3 DEF TypeOK, DC_AUTHWAIT_LIST
    <3>5. session' \in [Req -> Req \cup {NoReq}]
      BY <3>1, <3>2 DEF TypeOK, DC_AUTHWAIT_LIST
    <3> QED
      BY <1>1, <3>2, <3>4, <3>5 DEF TypeOK
  <2> QED
    BY <2>1, <2>2
<1> QED
  BY <1>1, <1>2, <1>3, <1>4

LEMMA BoundsHold == Spec => []BoundsInvariant
<1>1. Init => BoundsInvariant
  BY InitBounds
<1>2. BoundsInvariant /\ [Next]_vars => BoundsInvariant'
  <2> SUFFICES ASSUME BoundsInvariant, [Next]_vars
               PROVE  BoundsInvariant'
    OBVIOUS
  <2>1. CASE UNCHANGED vars
    BY <2>1 DEF vars, listVars, addVars, gcVars, BoundsInvariant, TypeOK, InBounds
  <2> QED
    BY <2>1, AddPreserves, GcPreserves, ClientPreserves DEF Next
<1> QED
  BY <1>1, <1>2, PTL DEF Spec

(* Every variable keeps its type: the array its length and its entries       *)
(* whole, whatever the collector copies.                                     *)
THEOREM TypeCorrect == Spec => []TypeOK
<1>1. BoundsInvariant => TypeOK
  BY DEF BoundsInvariant
<1> QED
  BY <1>1, BoundsHold, PTL

(* There is always a free entry at authWaitCount: the unlocked writes of     *)
(* userAuthManager.c:60-62 and the collector's read of entry i + 1           *)
(* (garbageCollector.c:41) stay inside the array.                            *)
THEOREM InBoundsAlways == Spec => []InBounds
<1>1. BoundsInvariant => InBounds
  BY DEF BoundsInvariant
<1> QED
  BY <1>1, BoundsHold, PTL

-----------------------------------------------------------------------------
(* What holds while no addition has overlapped a pass of the collector: one  *)
(* of the two is at rest, and each entry's key was made for its user, except *)
(* for the one that is being written.                                        *)

Apart == gcPc # "asleep" => addPc = "idle"

EntriesAreWhole ==
  \A i \in Slots : \/ authWaitList[i].key = authWaitList[i].uid
                   \/ addPc \in {"time", "uid"} /\ i = authWaitCount

BeingWritten ==
  /\ addPc \in {"time", "uid", "count"} => authWaitList[authWaitCount].key = adding
  /\ addPc = "count" => addIndex = authWaitCount

ListInvariant == ~overlapped => Apart /\ EntriesAreWhole /\ BeingWritten

LoginInvariant == BoundsInvariant /\ ListInvariant /\ SessionOfOwnUser

LEMMA InitList == Init => ListInvariant /\ SessionOfOwnUser
BY DEF Init, ListInvariant, Apart, EntriesAreWhole, BeingWritten, SessionOfOwnUser

LEMMA AddKeepsList ==
  ASSUME LoginInvariant, AddStep \/ \E r \in Req : AskForPlace(r)
  PROVE  ListInvariant' /\ SessionOfOwnUser'
<1> USE DEF LoginInvariant, ListInvariant, addVars, gcVars, listVars
<1>1. ASSUME NEW r \in Req, AskForPlace(r)
      PROVE  ListInvariant' /\ SessionOfOwnUser'
  <2>1. ListInvariant'
    BY <1>1 DEF AskForPlace, Apart, EntriesAreWhole, BeingWritten
  <2>2. SessionOfOwnUser'
    BY <1>1 DEF AskForPlace, BoundsInvariant, TypeOK, SessionOfOwnUser
  <2> QED
    BY <2>1, <2>2
<1>2. ASSUME WriteKey \/ WriteTime \/ WriteUid
      PROVE  ListInvariant' /\ SessionOfOwnUser'
  <2>1. authWaitCount \in Slots /\ authWaitList \in [Slots -> DC_AUTHWAIT_LIST]
    BY DEF BoundsInvariant, TypeOK, InBounds
  <2>2. UNCHANGED <<overlapped, gcPc, authWaitCount, adding, client, session>>
    BY <1>2 DEF WriteKey, WriteTime, WriteUid
  <2>3. SessionOfOwnUser'
    BY <2>2 DEF SessionOfOwnUser
  <2>4. Apart => Apart'
    BY <1>2, <2>2 DEF Apart, WriteKey, WriteTime, WriteUid
  <2>5. CASE WriteKey
    BY <2>1, <2>2, <2>3, <2>4, <2>5
       DEF WriteKey, EntriesAreWhole, BeingWritten, DC_AUTHWAIT_LIST
  <2>6. CASE WriteTime
    BY <2>1, <2>2, <2>3, <2>4, <2>6
       DEF WriteTime, EntriesAreWhole, BeingWritten, DC_AUTHWAIT_LIST
  <2>7. CASE WriteUid
    BY <2>1, <2>2, <2>3, <2>4, <2>7
       DEF WriteUid, EntriesAreWhole, BeingWritten, DC_AUTHWAIT_LIST
  <2> QED
    BY <1>2, <2>5, <2>6, <2>7
<1>3. CASE Grant
  <2>1. ListInvariant'
    BY <1>3 DEF Grant, Apart, EntriesAreWhole, BeingWritten
  <2>2. SessionOfOwnUser'
    BY <1>3 DEF Grant, BoundsInvariant, TypeOK, SessionOfOwnUser
  <2> QED
    BY <2>1, <2>2
<1> QED
  BY <1>1, <1>2, <1>3 DEF AddStep

(* The collector copies whole entries, and nothing is being written then.    *)
LEMMA GcKeepsList ==
  ASSUME LoginInvariant, GcStep
  PROVE  ListInvariant' /\ SessionOfOwnUser'
<1> USE DEF LoginInvariant, ListInvariant, addVars, gcVars, listVars
<1>1. /\ UNCHANGED <<addPc, adding, addIndex, client, session>>
      /\ ~overlapped' => ~overlapped
  <2>1. UNCHANGED <<addPc, adding, addIndex, client, session>>
    BY DEF GcStep, StartPass, KeepEntry, CopyNext, Decrement, EndPass
  <2>2. ~overlapped' => ~overlapped
    <3>1. \/ overlapped' = overlapped
          \/ overlapped' = (overlapped \/ addPc # "idle")
      BY DEF GcStep, StartPass, KeepEntry, CopyNext, Decrement, EndPass
    <3> QED
      BY <3>1, Zenon
  <2> QED
    BY <2>1, <2>2
<1>2. SessionOfOwnUser'
  BY <1>1 DEF SessionOfOwnUser
<1>3. CASE StartPass
  BY <1>1, <1>2, <1>3 DEF StartPass, Apart, EntriesAreWhole, BeingWritten
<1>4. CASE KeepEntry
  BY <1>1, <1>2, <1>4 DEF KeepEntry, Apart, EntriesAreWhole, BeingWritten
<1>5. CASE CopyNext
  <2>1. /\ gcIndex \in Slots /\ gcIndex + 1 \in Slots
        /\ authWaitList \in [Slots -> DC_AUTHWAIT_LIST]
    BY <1>5, MaxAssumption DEF CopyNext, BoundsInvariant, InBounds, TypeOK, Slots
  <2> QED
    BY <1>1, <1>2, <1>5, <2>1 DEF CopyNext, Apart, EntriesAreWhole, BeingWritten
<1>6. CASE Decrement
  BY <1>1, <1>2, <1>6 DEF Decrement, Apart, EntriesAreWhole, BeingWritten
<1>7. CASE EndPass
  BY <1>1, <1>2, <1>7 DEF EndPass, Apart, EntriesAreWhole, BeingWritten
<1> QED
  BY <1>3, <1>4, <1>5, <1>6, <1>7 DEF GcStep

(* A login finds an entry below the count, which is not the one being        *)
(* written.                                                                  *)
LEMMA ClientKeepsList ==
  ASSUME LoginInvariant,
         Tick \/ \E r \in Req : Connect(r) \/ procFileLogin(r) \/ Leave(r)
  PROVE  ListInvariant' /\ SessionOfOwnUser'
<1> USE DEF LoginInvariant, ListInvariant, addVars, gcVars, listVars
<1>1. UNCHANGED <<authWaitCount, addVars, gcVars>>
  BY DEF Tick, Connect, procFileLogin, Leave
<1>2. /\ authWaitList \in [Slots -> DC_AUTHWAIT_LIST] /\ authWaitCount \in Slots
      /\ client \in [Req -> {"out", "asked", "granted", "connected", "loggedIn", "rejected"}]
      /\ session \in [Req -> Req \cup {NoReq}]
  BY DEF BoundsInvariant, TypeOK, InBounds
<1>3. ASSUME \A i \in Slots : /\ authWaitList'[i].key = authWaitList[i].key
                              /\ authWaitList'[i].uid = authWaitList[i].uid
      PROVE  ListInvariant'
  BY <1>1, <1>2, <1>3 DEF Apart, EntriesAreWhole, BeingWritten
<1>4. CASE Tick
  <2>1. SessionOfOwnUser'
    BY <1>4 DEF Tick, SessionOfOwnUser
  <2> QED
    BY <1>2, <1>3, <1>4, <2>1 DEF Tick, DC_AUTHWAIT_LIST
<1>5. ASSUME NEW r \in Req, Connect(r) \/ Leave(r)
      PROVE  ListInvariant' /\ SessionOfOwnUser'
  <2>1. authWaitList' = authWaitList
    BY <1>5 DEF Connect, Leave
  <2>2. SessionOfOwnUser'
    BY <1>2, <1>5 DEF Connect, Leave, SessionOfOwnUser
  <2> QED
    BY <1>3, <2>1, <2>2
<1>6. ASSUME NEW r \in Req, procFileLogin(r)
      PROVE  ListInvariant' /\ SessionOfOwnUser'
  <2> DEFINE found == {i \in InUse : authWaitList[i].key = r}
  <2>1. CASE found = {}
    <3>1. authWaitList' = authWaitList
      BY <1>6, <2>1 DEF procFileLogin
    <3>2. SessionOfOwnUser'
      BY <1>1, <1>2, <1>6, <2>1 DEF procFileLogin, SessionOfOwnUser
    <3> QED
      BY <1>3, <3>1, <3>2
  <2>2. CASE found # {}
    <3>1. First(found) \in found
      <4>1. found \in SUBSET Nat
        BY MaxAssumption DEF InUse, Slots
      <4> QED
        BY <2>2, <4>1, FirstProperty
    <3>2. /\ client' = [client EXCEPT ![r] = "loggedIn"]
          /\ session' = [session EXCEPT ![r] = authWaitList[First(found)].uid]
          /\ authWaitList' = [authWaitList EXCEPT ![First(found)].age = Expired]
      BY <1>6, <2>2 DEF procFileLogin
    <3>3. /\ First(found) \in Slots /\ First(found) # authWaitCount
          /\ authWaitList[First(found)].key = r
      BY <3>1, MaxAssumption DEF InUse, Slots
    <3>4. ListInvariant'
      BY <1>2, <1>3, <3>2, <3>3 DEF DC_AUTHWAIT_LIST
    <3>5. ~overlapped => authWaitList[First(found)].uid = r
      BY <3>3 DEF EntriesAreWhole
    <3> HIDE DEF found
    <3>6. SessionOfOwnUser'
      BY <1>1, <1>2, <3>2, <3>5 DEF SessionOfOwnUser
    <3> QED
      BY <3>4, <3>6
  <2> QED
    BY <2>1, <2>2
<1> QED
  BY <1>4, <1>5, <1>6

LEMMA LoginInvariantHolds == Spec => []LoginInvariant
<1>1. Init => LoginInvariant
  BY InitBounds, InitList DEF LoginInvariant
<1>2. LoginInvariant /\ [Next]_vars => LoginInvariant'
  <2> SUFFICES ASSUME LoginInvariant, [Next]_vars
               PROVE  LoginInvariant'
    OBVIOUS
  <2>1. CASE UNCHANGED vars
    BY <2>1 DEF vars, listVars, addVars, gcVars, LoginInvariant, BoundsInvariant, TypeOK,
       InBounds, ListInvariant, Apart, EntriesAreWhole, BeingWritten, SessionOfOwnUser
  <2>2. CASE Next
    <3>1. BoundsInvariant
      BY DEF LoginInvariant
    <3>2. BoundsInvariant'
      BY <2>2, <3>1, AddPreserves, GcPreserves, ClientPreserves DEF Next
    <3>3. ListInvariant' /\ SessionOfOwnUser'
      BY <2>2, AddKeepsList, GcKeepsList, ClientKeepsList DEF Next
    <3> QED
      BY <3>2, <3>3 DEF LoginInvariant
  <2> QED
    BY <2>1, <2>2
<1> QED
  BY <1>1, <1>2, PTL DEF Spec

(* While no addition overlaps a pass, a login (userAuthManager.c:98-119)     *)
(* gives the session of the user that the key was made for, although the     *)
(* collector moves entries (garbageCollector.c:41).                          *)
THEOREM SessionOfOwnUserAlways == Spec => []SessionOfOwnUser
<1>1. LoginInvariant => SessionOfOwnUser
  BY DEF LoginInvariant
<1> QED
  BY <1>1, LoginInvariantHolds, PTL

(* Then, too, a user is reported as added (userAuthManager.c:66-69) only     *)
(* when its key is in the list.                                              *)
THEOREM GrantedIsListedAlways == Spec => GrantedIsListed
<1>1. LoginInvariant /\ [Next]_vars =>
        [\A r \in Req : ~overlapped /\ client[r] = "asked" /\ client'[r] = "granted"
                          => r \in Listed']_vars
  <2> SUFFICES ASSUME LoginInvariant, Next, NEW r \in Req,
                      ~overlapped, client[r] = "asked", client'[r] = "granted"
               PROVE  r \in Listed'
    OBVIOUS
  <2>1. client \in [Req -> {"out", "asked", "granted", "connected", "loggedIn", "rejected"}]
    BY DEF LoginInvariant, BoundsInvariant, TypeOK
  <2>2. Grant /\ adding = r
    <3>1. \/ client' = client
          \/ Grant
          \/ \E q \in Req : AskForPlace(q) \/ Connect(q) \/ procFileLogin(q) \/ Leave(q)
      BY DEF Next, AddStep, GcStep, Tick, WriteKey, WriteTime, WriteUid, StartPass, KeepEntry,
         CopyNext, Decrement, EndPass
    <3>2. ASSUME NEW q \in Req, AskForPlace(q) \/ Connect(q) \/ procFileLogin(q) \/ Leave(q)
          PROVE  FALSE
      BY <2>1, <3>2 DEF AskForPlace, Connect, procFileLogin, Leave
    <3> QED
      BY <2>1, <3>1, <3>2 DEF Grant
  <2>3. /\ addIndex = authWaitCount /\ authWaitCount \in Slots
        /\ authWaitList[authWaitCount].key = r
        /\ authWaitList' = authWaitList /\ authWaitCount' = authWaitCount + 1
    BY <2>2 DEF LoginInvariant, BoundsInvariant, InBounds, ListInvariant, BeingWritten, Grant
  <2> QED
    BY <2>3 DEF Listed, InUse, Slots
<1> QED
  BY <1>1, LoginInvariantHolds, PTL DEF Spec, GrantedIsListed

==============================================================================
