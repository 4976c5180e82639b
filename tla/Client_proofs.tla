---------------------------- MODULE Client_proofs ----------------------------
(***************************************************************************)
(* Theorems about Client: for any lists, page sizes and bounds, the        *)
(* database in the main menu is the one on the server, the numbers of the  *)
(* rows are those of the lines, the user's choice takes effect on the line *)
(* it named, and the pages of the file list show the files.                *)
(***************************************************************************)
EXTENDS Client, FiniteSetTheorems, SequenceTheorems, WellFoundedInduction, TLAPS

(* LocalIsKept *)

(* Unless a handle has leaked, the database in the main menu is the one on   *)
(* the server, and while a list is open it was so when the list was opened.  *)
(* A handle only leaks where the program ends, before anyone is logged in.   *)
KeptInv ==
  /\ menu \in {"closed", "choose", "renumber"}
  /\ program = "ended" => menu = "closed" /\ ~loginFlag
  /\ menu = "closed" /\ loginFlag /\ ~leaked => local = kept
  /\ menu # "closed" /\ ~leaked => opened = kept

LEMMA KeptInvInit == Init => KeptInv
  BY DEF Init, ListsInit, KeptInv

LEMMA KeptInvStep == KeptInv /\ [Next]_vars => KeptInv'
<1> SUFFICES ASSUME KeptInv, [Next]_vars PROVE KeptInv'
  OBVIOUS
<1> USE DEF KeptInv
<1>1. CASE LogIn
  BY <1>1 DEF LogIn, Download, InMainMenu
<1>2. CASE LogOut
  BY <1>2 DEF LogOut, listVars
<1>3. CASE ManageFile
  BY <1>3 DEF ManageFile, listVars, clientVars
<1>4. CASE End
  BY <1>4 DEF End, CloseMenu
<1>5. CASE Start
  BY <1>5 DEF Start, listVars
<1>5a. CASE EndInLogIn
  BY <1>5a DEF EndInLogIn, InMainMenu
<1>5b. CASE RestartRelayServer
  BY <1>5b DEF RestartRelayServer, clientVars
<1>6. ASSUME NEW l \in List, Manage(l) PROVE KeptInv'
  BY <1>6 DEF Manage, InMainMenu, OpenList, ShowMenu, clientVars
<1>7. CASE InFiles
  BY <1>7 DEF InFiles, listVars, clientVars
<1>8. CASE InLists
  <2>1. loginFlag' = loginFlag /\ program' = program /\ program = "runs"
    BY <1>8 DEF InLists, clientVars
  <2>2. CASE PreviousPage \/ NextPage
    BY <2>1, <2>2 DEF PreviousPage, NextPage
  <2>3. CASE Leave
    BY <2>1, <2>3 DEF Leave, Store, CloseMenu
  <2>4. ASSUME NEW ok \in BOOLEAN, NEW e \in Entry, Add(ok, e) PROVE KeptInv'
    BY <2>1, <2>4 DEF Add, ShowMenu
  <2>5. ASSUME NEW ok \in BOOLEAN, NEW n \in Id, NEW e \in Entry, Modify(ok, n, e)
        PROVE  KeptInv'
    BY <2>1, <2>5 DEF Modify, ShowMenu
  <2>6. ASSUME NEW ok \in BOOLEAN, NEW n \in Id, DeleteRow(ok, n) PROVE KeptInv'
    BY <2>1, <2>6 DEF DeleteRow
  <2>7. ASSUME NEW ok \in BOOLEAN, Renumber(ok) PROVE KeptInv'
    BY <2>1, <2>7 DEF Renumber
  <2>8. ASSUME NEW ok \in BOOLEAN, ResetSequence(ok) PROVE KeptInv'
    BY <2>1, <2>8 DEF ResetSequence, ShowMenu
  <2> QED
    BY <1>8, <2>2, <2>3, <2>4, <2>5, <2>6, <2>7, <2>8 DEF InLists, ListStep
<1>9. CASE UNCHANGED vars
  BY <1>9 DEF vars, listVars, clientVars
<1> QED
  BY <1>1, <1>2, <1>3, <1>4, <1>5, <1>5a, <1>5b, <1>6, <1>7, <1>8, <1>9 DEF Next

(* Whatever the user edits and wherever the program ends, in the main menu   *)
(* of a logged-in user the local database is the one the server keeps,       *)
(* unless a login of an earlier run has left the relay server with the file  *)
(* open (personalDBHelper.c:57-92, 129-167; personalDBHandler.c:92-95).      *)
THEOREM LocalIsKeptAlways == Spec => []LocalIsKept
<1>1. KeptInv => LocalIsKept
  BY DEF KeptInv, LocalIsKept, InMainMenu
<1> QED
  BY KeptInvInit, KeptInvStep, <1>1, PTL DEF Spec

-----------------------------------------------------------------------------
(* ListsAreNumbered *)

Shaped(db) ==
  /\ DOMAIN db = {"rows", "top", "spoilt"}
  /\ DOMAIN db.rows = List /\ DOMAIN db.top = List
  /\ db.spoilt \in BOOLEAN

(* What a statement that has not failed leaves of the tables *)
LEMMA ExecuteEffect ==
  ASSUME NEW ok \in BOOLEAN, NEW rows, NEW top, Shaped(local), list \in List,
         Execute(ok, rows, top)
  PROVE  /\ Shaped(local')
         /\ ~local'.spoilt => 
              /\ ~local.spoilt
              /\ local'.rows[list] = rows /\ local'.top[list] = top
              /\ \A l \in List \ {list} :
                   local'.rows[l] = local.rows[l] /\ local'.top[l] = local.top[l]
<1>1. CASE ok
  <2>1. local' = [local EXCEPT !.rows = [local.rows EXCEPT ![list] = rows], !.top = [local.top EXCEPT ![list] = top]]
    BY <1>1 DEF Execute, Shaped
  <2>2. local'.rows = [local.rows EXCEPT ![list] = rows] 
    BY <2>1 DEF Shaped
  <2>3. local'.top = [local.top EXCEPT ![list] = top] /\ local'.spoilt = local.spoilt
    BY <2>1 DEF Shaped
  <2>4. DOMAIN local' = DOMAIN local
    BY <2>1 DEF Shaped
  <2> QED BY <2>2, <2>3, <2>4 DEF Shaped
<1>2. CASE ~ok
  BY <1>2 DEF Execute, Shaped
<1> QED BY <1>1, <1>2

LEMMA NextIdAfter ==
  ASSUME NEW n \in Nat, DOMAIN Rows = 1 .. n, Top \in 0 .. n
  PROVE  NextId = n + 1
<1> DEFINE S == {Top} \cup DOMAIN Rows
<1>1. n \in S /\ \A m \in S : n >= m /\ m \in Nat
  OBVIOUS
<1>2. \A x \in S : (\A m \in S : x >= m) => x = n
  BY <1>1
<1> HIDE DEF S
<1>3. Max(S) = n
  BY <1>1, <1>2 DEF Max
<1> QED
  BY <1>3 DEF NextId, S

LEMMA NthAfterGap ==
  ASSUME NEW i \in Nat, NEW n \in Nat, 1 <= i, i < n
  PROVE  NthId((1 .. i - 1) \cup (i + 1 .. n), i) = i + 1
<1> DEFINE ids == (1 .. i - 1) \cup (i + 1 .. n)
<1>1. Cardinality(UpTo(ids, i + 1)) = i
  <2>1. UpTo(ids, i + 1) = (1 .. i - 1) \cup {i + 1}
    BY DEF UpTo
  <2>2. IsFiniteSet(1 .. i - 1) /\ Cardinality(1 .. i - 1) = i - 1
    BY FS_Interval
  <2>3. i + 1 \notin 1 .. i - 1
    OBVIOUS
  <2>4. Cardinality((1 .. i - 1) \cup {i + 1}) = (i - 1) + 1
    BY <2>2, <2>3, FS_AddElement
  <2> QED
    BY <2>1, <2>4
<1>2. ASSUME NEW id \in ids, Cardinality(UpTo(ids, id)) = i PROVE id = i + 1
  <2>0. id \in Nat /\ id # i
    OBVIOUS
  <2>1. CASE id < i
    <3>1. UpTo(ids, id) = 1 .. id
      BY <2>1 DEF UpTo
    <3>2. Cardinality(1 .. id) = id
      BY <2>0, FS_Interval
    <3> QED
      BY <1>2, <2>1, <3>1, <3>2
  <2>2. CASE id > i + 1
    <3>1. UpTo(ids, id) = (1 .. id) \ {i}
      BY <2>2 DEF UpTo
    <3>2. IsFiniteSet(1 .. id) /\ Cardinality(1 .. id) = id
      BY <2>0, FS_Interval
    <3>3. i \in 1 .. id
      BY <2>0, <2>2
    <3>4. Cardinality((1 .. id) \ {i}) = id - 1
      BY <3>2, <3>3, FS_RemoveElement
    <3>5. id - 1 = i
      BY <1>2, <3>1, <3>4, Zenon
    <3> QED
      BY <2>0, <2>2, <3>5
  <2> QED
    BY <2>0, <2>1, <2>2
<1>3. i + 1 \in ids
  OBVIOUS
<1> HIDE DEF ids
<1>4. NthId(ids, i) = i + 1
  BY <1>1, <1>2, <1>3, Zenon DEF NthId
<1> QED
  BY <1>4 DEF ids

LEMMA GapCardinality ==
  ASSUME NEW i \in Nat, NEW n \in Nat, 1 <= i, i <= n
  PROVE  Cardinality((1 .. i - 1) \cup (i + 1 .. n)) = n - 1
<1>1. (1 .. i - 1) \cup (i + 1 .. n) = (1 .. n) \ {i}
  OBVIOUS
<1>2. IsFiniteSet(1 .. n) /\ Cardinality(1 .. n) = n
  BY FS_Interval
<1>3. i \in 1 .. n
  OBVIOUS
<1> QED
  BY <1>1, <1>2, <1>3, FS_RemoveElement

SoundTable(db, l) ==
  \E n \in Nat : DOMAIN db.rows[l] = 1 .. n /\ db.top[l] \in 0 .. n

(* Outside of a deletion the numbers are 1, 2, 3 ... and the sequence is not *)
(* ahead of them; within one, they leave out the line to fill next.          *)
NumberedInv ==
  /\ Shaped(local) /\ Shaped(kept)
  /\ ~kept.spoilt => \A l \in List : SoundTable(kept, l)
  /\ menu # "closed" => list \in List
  /\ menu = "closed" /\ loginFlag /\ ~local.spoilt => \A l \in List : SoundTable(local, l)
  /\ menu = "choose" /\ ~local.spoilt =>
       /\ \A l \in List : SoundTable(local, l)
       /\ count \in Nat /\ DOMAIN Rows = 1 .. count
  /\ menu = "renumber" /\ ~local.spoilt =>
       /\ \A l \in List \ {list} : SoundTable(local, l)
       /\ count \in Nat /\ line \in 1 .. count
       /\ DOMAIN Rows = (1 .. line - 1) \cup (line + 1 .. count)

LEMMA SoundIsNumbered ==
  ASSUME NEW db, NEW l, SoundTable(db, l)
  PROVE  Numbered(DOMAIN db.rows[l])
<1> PICK n \in Nat : DOMAIN db.rows[l] = 1 .. n
  BY DEF SoundTable
<1>1. Cardinality(1 .. n) = n
  BY FS_Interval
<1> QED
  BY <1>1 DEF Numbered

LEMMA NumberedInvInit == Init => NumberedInv
<1> SUFFICES ASSUME Init PROVE NumberedInv
  OBVIOUS
<1>1. Shaped(Empty) /\ \A l \in List : DOMAIN Empty.rows[l] = 1 .. 0 /\ Empty.top[l] = 0
  BY DEF Empty, Shaped
<1>2. \A l \in List : SoundTable(Empty, l)
  BY <1>1, 0 \in Nat, 0 \in 0 .. 0 DEF SoundTable
<1> QED
  BY <1>1, <1>2 DEF Init, ListsInit, NumberedInv

LEMMA NumberedStep ==
  ASSUME NumberedInv, [Next]_vars
  PROVE  NumberedInv'
<1> USE DEF NumberedInv
<1>1. CASE LogIn
  BY <1>1 DEF LogIn, Download, InMainMenu, SoundTable
<1>2. CASE LogOut
  BY <1>2 DEF LogOut, listVars, SoundTable, Rows, Shaped
<1>3. CASE ManageFile
  BY <1>3 DEF ManageFile, listVars, SoundTable, Rows, Shaped
<1>4. CASE End
  BY <1>4 DEF End, Store, CloseMenu, SoundTable, Shaped
<1>5. CASE Start
  BY <1>5 DEF Start, listVars, SoundTable, Rows, Shaped
<1>5a. CASE EndInLogIn
  <2>1. Shaped(Empty)
    BY DEF Empty, Shaped
  <2>2. /\ local' \in {local, Empty, kept} /\ kept' = kept /\ menu = "closed"
        /\ menu' = menu /\ loginFlag' = loginFlag /\ ~loginFlag
    BY <1>5a DEF EndInLogIn, InMainMenu
  <2> QED
    BY <2>1, <2>2 DEF SoundTable, Shaped
<1>5b. CASE RestartRelayServer
  BY <1>5b DEF RestartRelayServer, clientVars, SoundTable, Rows, Shaped
<1>6. ASSUME NEW l \in List, Manage(l) PROVE NumberedInv'
  <2>1. /\ local' = local /\ kept' = kept /\ menu' = "choose" /\ list' = l
        /\ count' = Cardinality(DOMAIN local.rows[l])
        /\ menu = "closed" /\ loginFlag
    BY <1>6 DEF Manage, InMainMenu, OpenList, ShowMenu
  <2>2. CASE local.spoilt
    BY <1>6, <2>1, <2>2 DEF Shaped, SoundTable
  <2>3. CASE ~local.spoilt
    <3>1. PICK n \in Nat : DOMAIN local.rows[l] = 1 .. n
      BY <2>1, <2>3 DEF SoundTable
    <3>2. Cardinality(1 .. n) = n
      BY FS_Interval
    <3> QED
      BY <2>1, <2>3, <3>1, <3>2 DEF SoundTable, Rows, Shaped
  <2> QED
    BY <2>2, <2>3
<1>7. CASE InFiles
  BY <1>7 DEF InFiles, listVars, clientVars, SoundTable, Rows, Shaped
<1>8. CASE InLists
  <2>1. CASE PreviousPage \/ NextPage
    BY <2>1 DEF PreviousPage, NextPage, SoundTable, Rows, Shaped
  <2>2. CASE Leave
    BY <2>2 DEF Leave, Store, CloseMenu, SoundTable, Shaped
  <2>3. ASSUME NEW ok \in BOOLEAN, NEW e \in Entry, Add(ok, e) PROVE NumberedInv'
    <3> DEFINE rows == [id \in DOMAIN Rows \cup {NextId} |-> IF id = NextId THEN e ELSE Rows[id]]
    <3>1. /\ menu = "choose" /\ Execute(ok, rows, NextId) /\ kept' = kept /\ list' = list
          /\ menu' = "choose" /\ count' = Cardinality(DOMAIN local'.rows[list])
      BY <2>3 DEF Add, Insert, ShowMenu
    <3>2. CASE local'.spoilt
      BY <3>1, <3>2, ExecuteEffect DEF SoundTable, Shaped
    <3>3. CASE ~local'.spoilt
      <4>1. /\ Shaped(local') /\ ~local.spoilt
            /\ local'.rows[list] = rows /\ local'.top[list] = NextId
            /\ \A l \in List \ {list} :
                 local'.rows[l] = local.rows[l] /\ local'.top[l] = local.top[l]
        BY <3>1, <3>3, ExecuteEffect
      <4>2. count \in Nat /\ DOMAIN Rows = 1 .. count /\ SoundTable(local, list)
        BY <3>1, <4>1
      <4>3. Top \in 0 .. count
        <5>1. PICK n \in Nat : 1 .. count = 1 .. n /\ Top \in 0 .. n
          BY <4>2 DEF SoundTable, Top, Rows
        <5>2. n = count
          BY <4>2, <5>1
        <5> QED
          BY <5>1, <5>2
      <4>4. NextId = count + 1
        BY <4>2, <4>3, NextIdAfter
      <4>5. DOMAIN local'.rows[list] = 1 .. count + 1
        BY <4>1, <4>2, <4>4
      <4>6. Cardinality(1 .. count + 1) = count + 1
        BY <4>2, FS_Interval
      <4>7. SoundTable(local', list)
        BY <4>1, <4>2, <4>4, <4>5 DEF SoundTable
      <4>8. \A l \in List \ {list} : SoundTable(local', l)
        BY <3>1, <4>1 DEF SoundTable
      <4>9. count' \in Nat /\ DOMAIN Rows' = 1 .. count'
        BY <3>1, <4>2, <4>5, <4>6 DEF Rows
      <4>10. \A l \in List : SoundTable(local', l)
        BY <4>7, <4>8
      <4> HIDE DEF rows
      <4> QED
        BY <3>1, <4>1, <4>9, <4>10 DEF SoundTable, Shaped
    <3> QED
      BY <3>2, <3>3
  <2>4. ASSUME NEW ok \in BOOLEAN, NEW n \in Id, NEW e \in Entry, Modify(ok, n, e)
        PROVE  NumberedInv'
    <3> DEFINE rows == [x \in DOMAIN Rows |-> IF x = n THEN e ELSE Rows[x]]
    <3>1. /\ menu = "choose" /\ Execute(ok, rows, Top) /\ kept' = kept /\ list' = list
          /\ menu' = "choose" /\ count' = Cardinality(DOMAIN local'.rows[list])
      BY <2>4 DEF Modify, Update, ShowMenu
    <3>2. CASE local'.spoilt
      BY <3>1, <3>2, ExecuteEffect DEF SoundTable, Shaped
    <3>3. CASE ~local'.spoilt
      <4>1. /\ Shaped(local') /\ ~local.spoilt
            /\ local'.rows[list] = rows /\ local'.top[list] = Top
            /\ \A l \in List \ {list} :
                 local'.rows[l] = local.rows[l] /\ local'.top[l] = local.top[l]
        BY <3>1, <3>3, ExecuteEffect
      <4>2. count \in Nat /\ DOMAIN Rows = 1 .. count
        BY <3>1, <4>1
      <4>3. DOMAIN local'.rows[list] = 1 .. count
        BY <4>1, <4>2
      <4>4. Cardinality(1 .. count) = count
        BY <4>2, FS_Interval
      <4>5. \A l \in List : SoundTable(local', l)
        BY <3>1, <4>1, <4>2, <4>3 DEF SoundTable, Top, Rows
      <4>6. count' = count /\ Rows' = local'.rows[list]
        BY <3>1, <4>3, <4>4 DEF Rows
      <4> QED
        BY <3>1, <4>1, <4>2, <4>3, <4>5, <4>6 DEF SoundTable, Shaped
    <3> QED
      BY <3>2, <3>3
  <2>5. ASSUME NEW ok \in BOOLEAN, NEW n \in Id, DeleteRow(ok, n) PROVE NumberedInv'
    <3> DEFINE rows == [x \in DOMAIN Rows \ {n} |-> Rows[x]]
    <3>1. /\ menu = "choose" /\ Execute(ok, rows, Top) /\ kept' = kept /\ list' = list
          /\ menu' = "renumber" /\ count' = count /\ line' = n /\ n <= count
      BY <2>5 DEF DeleteRow, Delete
    <3>2. CASE local'.spoilt
      BY <3>1, <3>2, ExecuteEffect DEF SoundTable, Shaped
    <3>3. CASE ~local'.spoilt
      <4>1. /\ Shaped(local') /\ ~local.spoilt /\ local'.rows[list] = rows
            /\ \A l \in List \ {list} :
                 local'.rows[l] = local.rows[l] /\ local'.top[l] = local.top[l]
        BY <3>1, <3>3, ExecuteEffect
      <4>2. count \in Nat /\ DOMAIN Rows = 1 .. count
        BY <3>1, <4>1
      <4>3. n \in 1 .. count
        BY <3>1, <4>2, IdAssumption DEF Id
      <4>4. Rows' = rows /\ DOMAIN rows = (1 .. n - 1) \cup (n + 1 .. count)
        BY <3>1, <4>1, <4>2, <4>3 DEF Rows
      <4>5. \A l \in List \ {list} : SoundTable(local', l)
        BY <3>1, <4>1 DEF SoundTable
      <4> HIDE DEF rows
      <4> QED
        BY <3>1, <4>1, <4>2, <4>3, <4>4, <4>5 DEF SoundTable, Shaped
    <3> QED
      BY <3>2, <3>3
  <2>6. ASSUME NEW ok \in BOOLEAN, Renumber(ok) PROVE NumberedInv'
    <3>1. /\ menu = "renumber" /\ menu' = "renumber" /\ kept' = kept /\ list' = list
          /\ count' = count /\ line' = line + 1 /\ line < count
      BY <2>6 DEF Renumber
    <3>2. Shaped(local') /\ (~local'.spoilt => ~local.spoilt)
      BY <2>6, <3>1, ExecuteEffect DEF Renumber, SetId
    <3>3. CASE local'.spoilt
      BY <3>1, <3>2, <3>3 DEF SoundTable, Shaped
    <3>4. CASE ~local'.spoilt
      <4>1. /\ count \in Nat /\ line \in 1 .. count
            /\ DOMAIN Rows = (1 .. line - 1) \cup (line + 1 .. count)
        BY <3>1, <3>2, <3>4
      <4>2. NthId(DOMAIN Rows, line) = line + 1
        BY <3>1, <4>1, NthAfterGap
      <4>3. Cardinality(DOMAIN Rows) = count - 1
        BY <4>1, GapCardinality
      <4>4. Cardinality(DOMAIN Rows) >= line /\ line \notin DOMAIN Rows
        BY <3>1, <4>1, <4>3
      <4> DEFINE rows == [x \in (DOMAIN Rows \ {line + 1}) \cup {line} |->
                            IF x = line THEN Rows[line + 1] ELSE Rows[x]]
      <4>5. Execute(ok, rows, Top)
        BY <2>6, <4>2, <4>4 DEF Renumber, SetId
      <4>6. /\ local'.rows[list] = rows
            /\ \A l \in List \ {list} :
                 local'.rows[l] = local.rows[l] /\ local'.top[l] = local.top[l]
        BY <3>1, <3>4, <4>5, ExecuteEffect
      <4>7. Rows' = rows /\ DOMAIN rows = (1 .. line) \cup (line + 2 .. count)
        BY <3>1, <4>1, <4>6 DEF Rows
      <4>8. \A l \in List \ {list} : SoundTable(local', l)
        BY <3>1, <3>2, <3>4, <4>6 DEF SoundTable
      <4>9. line' \in 1 .. count' /\ DOMAIN Rows' = (1 .. line' - 1) \cup (line' + 1 .. count')
        <5> HIDE DEF rows
        <5> QED
          BY <3>1, <4>1, <4>7
      <4> HIDE DEF rows
      <4> QED
        BY <3>1, <3>2, <4>1, <4>8, <4>9 DEF SoundTable, Shaped
    <3> QED
      BY <3>3, <3>4
  <2>7. ASSUME NEW ok \in BOOLEAN, ResetSequence(ok) PROVE NumberedInv'
    <3>1. /\ menu = "renumber" /\ line >= count /\ Execute(ok, Rows, 0)
          /\ menu' = "choose" /\ kept' = kept /\ list' = list
          /\ count' = Cardinality(DOMAIN local'.rows[list])
      BY <2>7 DEF ResetSequence, ShowMenu
    <3>2. CASE local'.spoilt
      BY <3>1, <3>2, ExecuteEffect DEF SoundTable, Shaped
    <3>3. CASE ~local'.spoilt
      <4>1. /\ Shaped(local') /\ ~local.spoilt
            /\ local'.rows[list] = Rows /\ local'.top[list] = 0
            /\ \A l \in List \ {list} :
                 local'.rows[l] = local.rows[l] /\ local'.top[l] = local.top[l]
        BY <3>1, <3>3, ExecuteEffect
      <4>2. /\ count \in Nat /\ line = count /\ count >= 1
            /\ DOMAIN Rows = 1 .. count - 1
        <5>1. /\ count \in Nat /\ line \in 1 .. count
              /\ DOMAIN Rows = (1 .. line - 1) \cup (line + 1 .. count)
          BY <3>1, <4>1
        <5>2. line = count /\ count >= 1
          BY <3>1, <5>1
        <5>3. (1 .. count - 1) \cup (count + 1 .. count) = 1 .. count - 1
          BY <5>1
        <5> QED
          BY <5>1, <5>2, <5>3
      <4>3. Cardinality(1 .. count - 1) = count - 1
        BY <4>2, FS_Interval
      <4>4. SoundTable(local', list)
        BY <4>1, <4>2 DEF SoundTable
      <4>5. \A l \in List \ {list} : SoundTable(local', l)
        BY <3>1, <4>1 DEF SoundTable
      <4>6. count' = count - 1 /\ Rows' = Rows
        BY <3>1, <4>1, <4>2, <4>3 DEF Rows
      <4> QED
        BY <3>1, <4>1, <4>2, <4>4, <4>5, <4>6 DEF SoundTable, Shaped
    <3> QED
      BY <3>2, <3>3
  <2> QED
    BY <1>8, <2>1, <2>2, <2>3, <2>4, <2>5, <2>6, <2>7 DEF InLists, ListStep
<1>9. CASE UNCHANGED vars
  BY <1>9 DEF vars, listVars, SoundTable, Rows, Shaped
<1> QED
  BY <1>1, <1>2, <1>3, <1>4, <1>5, <1>5a, <1>5b, <1>6, <1>7, <1>8, <1>9 DEF Next

(* However the user adds and deletes, and wherever the program ends in the   *)
(* middle of a deletion, the ids of an unspoilt database are the numbers of  *)
(* its lines on the server and whenever the menu is shown                    *)
(* (personalDBHelper.c:395-413, 760-778).                                    *)
THEOREM ListsAreNumberedAlways == Spec => []ListsAreNumbered
<1>1. NumberedInv => ListsAreNumbered
  BY SoundIsNumbered DEF NumberedInv, ListsAreNumbered
<1> QED
  BY NumberedInvInit, NumberedStep, <1>1, PTL DEF Spec

-----------------------------------------------------------------------------
(* PagesAreRight *)

LEMMA Division ==
  ASSUME NEW a \in Nat, NEW b \in Nat \ {0}
  PROVE  /\ a \div b \in Nat
         /\ a % b \in 0 .. b - 1
         /\ a = (a \div b) * b + (a % b)
OBVIOUS

LEMMA SmallRemainder ==
  ASSUME NEW a \in Nat, NEW b \in Nat, a < b
  PROVE  a % b = a
OBVIOUS

LEMMA ProductIsMonotonic ==
  ASSUME NEW p \in Nat, NEW q \in Nat, p <= q, NEW b \in Nat
  PROVE  p * b \in Nat /\ p * b <= q * b
OBVIOUS

LEMMA OnePageMore ==
  ASSUME NEW p \in Nat \ {0}
  PROVE  p * FilesPerPage = (p - 1) * FilesPerPage + FilesPerPage
BY BytesAssumption

LEMMA RemainderOfPages ==
  ASSUME NEW q \in Nat, NEW r \in 1 .. FilesPerPage, NEW n \in Nat, n = q * FilesPerPage + r
  PROVE  n % FilesPerPage = IF r = FilesPerPage THEN 0 ELSE r
BY BytesAssumption

(* A file more than fills the pages before the last is on the last. *)
LEMMA TotalPageBounds ==
  ASSUME files \in Nat
  PROVE  /\ TotalPage \in Nat \ {0}
         /\ files = 0 => TotalPage = 1
         /\ files > 0 => /\ (TotalPage - 1) * FilesPerPage < files
                         /\ files <= (TotalPage - 1) * FilesPerPage + FilesPerPage
<1>1. CASE files = 0
  BY <1>1 DEF TotalPage
<1>2. CASE files > 0
  <2> DEFINE q == (files - 1) \div FilesPerPage
  <2>1. files - 1 \in Nat /\ TotalPage = q + 1
    BY <1>2 DEF TotalPage
  <2>2. q \in Nat /\ q * FilesPerPage <= files - 1 /\ files - 1 < q * FilesPerPage + FilesPerPage
    <3>1. /\ q \in Nat
          /\ (files - 1) % FilesPerPage \in 0 .. FilesPerPage - 1
          /\ files - 1 = q * FilesPerPage + ((files - 1) % FilesPerPage)
      BY <2>1, BytesAssumption, Division
    <3>2. q * FilesPerPage \in Nat
      BY <3>1, BytesAssumption, ProductIsMonotonic
    <3> HIDE DEF q
    <3> QED
      BY <3>1, <3>2, BytesAssumption
  <2> HIDE DEF q
  <2>3. q * FilesPerPage \in Nat
    BY <2>2, BytesAssumption, ProductIsMonotonic
  <2> QED
    BY <1>2, <2>1, <2>2, <2>3, BytesAssumption
<1> QED
  BY <1>1, <1>2

(* The files of page p *)
PageFiles(p) ==
  {k \in (p - 1) * FilesPerPage + 1 .. files : k <= (p - 1) * FilesPerPage + FilesPerPage}

LEMMA PageIsSmall ==
  ASSUME files \in Nat, NEW p \in Nat \ {0}
  PROVE  Cardinality(PageFiles(p)) \in 0 .. FilesPerPage
<1> DEFINE a == (p - 1) * FilesPerPage
           all == a + 1 .. a + FilesPerPage
<1>1. a \in Nat
  BY BytesAssumption, ProductIsMonotonic
<1> HIDE DEF a
<1>2. IsFiniteSet(all) /\ Cardinality(all) = FilesPerPage
  BY <1>1, BytesAssumption, FS_Interval
<1>3. PageFiles(p) \subseteq all
  BY <1>1, BytesAssumption DEF PageFiles, a
<1>4. IsFiniteSet(PageFiles(p)) /\ Cardinality(PageFiles(p)) <= FilesPerPage
  BY <1>2, <1>3, FS_Subset
<1>5. Cardinality(PageFiles(p)) \in Nat
  BY <1>4, FS_CardinalityType
<1> QED
  BY <1>4, <1>5, BytesAssumption

(* Until the files change, what was answered, and then what was sent and is  *)
(* shown, is of one and the same page of them.                               *)
AnswerIsOf(p) ==
  /\ answer = [fileCount |-> files % ByteRange,
               currentPage |-> p % ByteRange,
               totalPage |-> TotalPage % ByteRange]
  /\ start = (p - 1) * FilesPerPage
  /\ filePc = "rows" => files > 0
  /\ filePc = "choose" => shown = p % ByteRange /\ sent = Cardinality(PageFiles(p))

PagesInv ==
  /\ PagesTypeOK
  /\ filePc \in {"rows", "choose"} /\ ~moved => \E p \in 1 .. TotalPage : AnswerIsOf(p)

LEMMA PagesInvInit == Init => PagesInv
<1>1. 0 \in Byte /\ 1 \in Byte /\ 0 \in 0 .. MaxFiles /\ 0 \in 0 .. FilesPerPage
  BY BytesAssumption, FilesAssumption DEF Byte
<1> QED
  <2> SUFFICES ASSUME Init PROVE PagesInv
    OBVIOUS
  <2>1. answer \in [fileCount : Byte, currentPage : Byte, totalPage : Byte]
    BY <1>1 DEF Init, PagesInit, NoAnswer
  <2> QED
    BY <1>1, <2>1 DEF Init, PagesInit, PagesInv, PagesTypeOK

LEMMA PagesInvStutter == PagesInv /\ UNCHANGED fileVars => PagesInv'
<1> SUFFICES ASSUME PagesInv, UNCHANGED fileVars PROVE PagesInv'
  OBVIOUS
<1>1. TotalPage' = TotalPage /\ \A p : AnswerIsOf(p)' = AnswerIsOf(p)
  BY DEF fileVars, TotalPage, AnswerIsOf, PageFiles
<1>2. PagesTypeOK'
  BY DEF fileVars, PagesInv, PagesTypeOK
<1> QED
  BY <1>1, <1>2 DEF PagesInv, fileVars

LEMMA PagesClosedStep == PagesClosed => PagesInv'
<1>1. 0 \in Byte /\ 1 \in Byte /\ 0 \in 0 .. MaxFiles /\ 0 \in 0 .. FilesPerPage
  BY BytesAssumption, FilesAssumption DEF Byte
<1> SUFFICES ASSUME PagesClosed PROVE PagesInv'
  OBVIOUS
<1>2. answer' \in [fileCount : Byte, currentPage : Byte, totalPage : Byte]
  BY <1>1 DEF PagesClosed, NoAnswer
<1> QED
  BY <1>1, <1>2 DEF PagesClosed, PagesInv, PagesTypeOK

LEMMA CountFilesStep == PagesInv /\ CountFiles => PagesInv'
<1> SUFFICES ASSUME PagesInv, CountFiles PROVE PagesInv'
  OBVIOUS
<1>1. files \in Nat /\ files <= MaxFiles /\ files' = files /\ TotalPage' = TotalPage
  BY FilesAssumption DEF PagesInv, PagesTypeOK, CountFiles, TotalPage
<1>2. /\ TotalPage \in Nat \ {0}
      /\ files = 0 => TotalPage = 1
      /\ files > 0 => (TotalPage - 1) * FilesPerPage < files
  BY <1>1, TotalPageBounds
<1>3. PICK p \in 1 .. TotalPage : p = CurrentPage
  BY <1>2, BytesAssumption DEF CurrentPage, PagesInv, PagesTypeOK, Byte
<1>4. (p - 1) * FilesPerPage \in Nat /\ (p - 1) * FilesPerPage <= (TotalPage - 1) * FilesPerPage
  <2>1. p - 1 \in Nat /\ TotalPage - 1 \in Nat /\ p - 1 <= TotalPage - 1
    BY <1>2, <1>3
  <2> QED
    BY <2>1, BytesAssumption, ProductIsMonotonic
<1>5. (p - 1) * FilesPerPage \in 0 .. MaxFiles
  <2>1. CASE files = 0
    BY <1>2, <1>3, <2>1, BytesAssumption, FilesAssumption
  <2>2. CASE files > 0
    <3>1. (TotalPage - 1) * FilesPerPage \in Nat
      BY <1>2, BytesAssumption, ProductIsMonotonic
    <3> QED
      BY <1>1, <1>2, <1>4, <2>2, <3>1, FilesAssumption
  <2> QED
    BY <1>1, <2>1, <2>2
<1>6. files % ByteRange \in Byte /\ p % ByteRange \in Byte /\ TotalPage % ByteRange \in Byte
  <2>1. \A n \in Nat : n % ByteRange \in 0 .. ByteRange - 1
    BY BytesAssumption, Division
  <2>2. p \in Nat
    BY <1>2, <1>3
  <2> QED
    BY <1>1, <1>2, <2>1, <2>2 DEF Byte
<1>7. /\ answer' = [fileCount |-> files % ByteRange, currentPage |-> p % ByteRange,
                    totalPage |-> TotalPage % ByteRange]
      /\ start' = (p - 1) * FilesPerPage /\ sent' = 0 /\ moved' = FALSE
      /\ files = 0 => filePc' = "choose" /\ shown' = p % ByteRange
      /\ files # 0 => filePc' = "rows" /\ shown' = shown
  BY <1>3 DEF CountFiles
<1>8. PagesTypeOK'
  <2>1. answer' \in [fileCount : Byte, currentPage : Byte, totalPage : Byte]
    BY <1>6, <1>7
  <2>2. shown' \in Byte /\ filePc' \in {"rows", "choose"}
    BY <1>6, <1>7 DEF PagesInv, PagesTypeOK
  <2>3. sent' \in 0 .. FilesPerPage /\ start' \in 0 .. MaxFiles /\ files' \in 0 .. MaxFiles
    BY <1>1, <1>5, <1>7, BytesAssumption DEF PagesInv, PagesTypeOK
  <2> QED
    BY <1>7, <2>1, <2>2, <2>3 DEF PagesTypeOK
<1>9. AnswerIsOf(p)'
  <2>1. files = 0 => Cardinality(PageFiles(p)) = 0
    <3>1. files = 0 => PageFiles(p) = {}
      <4> DEFINE a == (p - 1) * FilesPerPage
      <4>1. a \in Nat
        BY <1>4
      <4> HIDE DEF a
      <4>2. a + 1 .. 0 = {}
        BY <4>1
      <4> QED
        BY <4>2 DEF PageFiles, a
    <3> QED
      BY <3>1, FS_EmptySet
  <2>2. PageFiles(p)' = PageFiles(p)
    BY <1>1 DEF PageFiles
  <2> QED
    BY <1>1, <1>7, <2>1, <2>2 DEF AnswerIsOf
<1> QED
  BY <1>1, <1>3, <1>8, <1>9 DEF PagesInv

LEMMA ReadFilesStep == PagesInv /\ ReadFiles => PagesInv'
<1> SUFFICES ASSUME PagesInv, ReadFiles PROVE PagesInv'
  OBVIOUS
<1>1. /\ sent' = Cardinality({k \in start + 1 .. files : k <= start + FilesPerPage})
      /\ shown' = answer.currentPage /\ filePc = "rows" /\ filePc' = "choose"
      /\ files' = files /\ answer' = answer /\ start' = start /\ moved' = moved
  BY DEF ReadFiles
<1>2. TotalPage' = TotalPage /\ \A p : PageFiles(p)' = PageFiles(p)
  BY <1>1 DEF TotalPage, PageFiles
<1>3. PagesTypeOK'
  <2>1. start \in Nat /\ files \in Nat
    BY FilesAssumption DEF PagesInv, PagesTypeOK
  <2> DEFINE all == start + 1 .. start + FilesPerPage
             page1 == {k \in start + 1 .. files : k <= start + FilesPerPage}
  <2>2. IsFiniteSet(all) /\ Cardinality(all) = FilesPerPage
    BY <2>1, BytesAssumption, FS_Interval
  <2>3. page1 \subseteq all
    BY <2>1, BytesAssumption
  <2>4. IsFiniteSet(page1) /\ Cardinality(page1) <= FilesPerPage
    BY <2>2, <2>3, FS_Subset
  <2>5. Cardinality(page1) \in Nat
    BY <2>4, FS_CardinalityType
  <2>6. sent' \in 0 .. FilesPerPage
    BY <1>1, <2>4, <2>5, BytesAssumption
  <2> QED
    BY <1>1, <2>6 DEF PagesInv, PagesTypeOK
<1>4. ASSUME ~moved PROVE \E p \in 1 .. TotalPage : AnswerIsOf(p)'
  <2>1. PICK p \in 1 .. TotalPage : AnswerIsOf(p)
    BY <1>1, <1>4 DEF PagesInv
  <2>2. sent' = Cardinality(PageFiles(p)) /\ shown' = p % ByteRange
    BY <1>1, <2>1 DEF AnswerIsOf, PageFiles
  <2> QED
    BY <1>1, <1>2, <2>1, <2>2 DEF AnswerIsOf
<1> QED
  BY <1>1, <1>2, <1>3, <1>4 DEF PagesInv

LEMMA OtherFileStep == PagesInv /\ FileStep => PagesInv'
<1> SUFFICES ASSUME PagesInv, FileStep PROVE PagesInv'
  OBVIOUS
<1>1. PagesTypeOK
  BY DEF PagesInv
<1>2. CASE CountFiles
  BY <1>2, CountFilesStep
<1>3. CASE ReadFiles
  BY <1>3, ReadFilesStep
<1>4. CASE PreviousFiles
  <2>1. shown - 1 \in Byte
    BY <1>1, <1>4, BytesAssumption DEF PreviousFiles, PagesTypeOK, Byte
  <2> QED
    BY <1>1, <1>4, <2>1 DEF PreviousFiles, AskAgain, PagesInv, PagesTypeOK
<1>5. CASE NextFiles
  <2>1. shown + 1 \in Byte
    BY <1>1, <1>5, BytesAssumption DEF NextFiles, PagesTypeOK, Byte
  <2> QED
    BY <1>1, <1>5, <2>1 DEF NextFiles, AskAgain, PagesInv, PagesTypeOK
<1>6. CASE UploadOne
  <2>1. files' \in 0 .. MaxFiles
    BY <1>1, <1>6, FilesAssumption DEF UploadOne, PagesTypeOK
  <2> QED
    BY <1>1, <1>6, <2>1 DEF UploadOne, AskAgain, PagesInv, PagesTypeOK
<1>7. CASE DownloadOne
  BY <1>1, <1>7 DEF DownloadOne, AskAgain, PagesInv, PagesTypeOK
<1>8. ASSUME NEW n \in 1 .. MaxFiles, DeleteOne(n) PROVE PagesInv'
  <2>1. files' \in 0 .. MaxFiles
    BY <1>1, <1>8, FilesAssumption DEF DeleteOne, PagesTypeOK
  <2> QED
    BY <1>1, <1>8, <2>1 DEF DeleteOne, AskAgain, PagesInv, PagesTypeOK
<1>9. CASE CloseFileServer
  BY <1>9, PagesClosedStep DEF CloseFileServer
<1>10. CASE Elsewhere
  BY <1>1, <1>10 DEF Elsewhere, PagesInv, PagesTypeOK
<1> QED
  BY <1>2, <1>3, <1>4, <1>5, <1>6, <1>7, <1>8, <1>9, <1>10 DEF FileStep

LEMMA PagesInvStep == PagesInv /\ [Next]_vars => PagesInv'
<1> SUFFICES ASSUME PagesInv, [Next]_vars PROVE PagesInv'
  OBVIOUS
<1>1. CASE ManageFile
  <2>1. 1 \in Byte
    BY BytesAssumption DEF Byte
  <2> QED
    BY <1>1, <2>1 DEF ManageFile, OpenFileServer, PagesInv, PagesTypeOK
<1>2. CASE End
  BY <1>2, PagesClosedStep DEF End
<1>3. CASE InFiles
  BY <1>3, OtherFileStep DEF InFiles
<1>4. CASE UNCHANGED fileVars
  BY <1>4, PagesInvStutter
<1>5. [Next]_vars => ManageFile \/ End \/ InFiles \/ UNCHANGED fileVars
  BY DEF Next, LogIn, EndInLogIn, LogOut, Start, RestartRelayServer, Manage, InLists, vars
<1> QED
  BY <1>1, <1>2, <1>3, <1>4, <1>5

(* The client's arithmetic with the numbers of one byte finds the lines of   *)
(* the page.                                                                 *)
LEMMA PagesInvIsRight == PagesInv => PagesAreRight
<1> SUFFICES ASSUME PagesInv, filePc = "choose", ~moved, files < ByteRange
             PROVE  /\ answer.fileCount = files
                    /\ NumbersShown = {k \in 1 .. files : (shown - 1) * FilesPerPage < k /\ k <= shown * FilesPerPage}
                    /\ sent = Cardinality(NumbersShown)
                    /\ shown \in 1 .. answer.totalPage
                    /\ files > 0 => \E k \in 1 .. files : (answer.totalPage - 1) * FilesPerPage < k
                    /\ \A k \in 1 .. files : k <= answer.totalPage * FilesPerPage
  BY DEF PagesAreRight
<1>1. files \in Nat
  BY FilesAssumption DEF PagesInv, PagesTypeOK
<1>2. PICK p \in 1 .. TotalPage : AnswerIsOf(p)
  BY DEF PagesInv
<1> DEFINE last == (TotalPage - 1) * FilesPerPage
           before == (p - 1) * FilesPerPage
<1>3. /\ TotalPage \in Nat \ {0}
      /\ files = 0 => TotalPage = 1
      /\ files > 0 => last < files /\ files <= last + FilesPerPage
  BY <1>1, TotalPageBounds
<1>4. /\ p \in Nat \ {0} /\ last \in Nat /\ before \in Nat /\ before <= last
      /\ p * FilesPerPage = before + FilesPerPage
      /\ TotalPage * FilesPerPage = last + FilesPerPage
      /\ p # TotalPage => before + FilesPerPage <= last
  <2>1. p \in Nat \ {0} /\ p - 1 \in Nat /\ TotalPage - 1 \in Nat /\ p - 1 <= TotalPage - 1
        /\ (p # TotalPage => p <= TotalPage - 1)
    BY <1>2, <1>3
  <2>2. last \in Nat /\ before \in Nat /\ before <= last
    BY <2>1, BytesAssumption, ProductIsMonotonic
  <2>3. p # TotalPage => p * FilesPerPage <= last
    BY <2>1, BytesAssumption, ProductIsMonotonic
  <2>4. p * FilesPerPage = before + FilesPerPage /\ TotalPage * FilesPerPage = last + FilesPerPage
    <3>1. p * FilesPerPage = (p - 1) * FilesPerPage + FilesPerPage
      BY <2>1, OnePageMore, Zenon
    <3>2. TotalPage * FilesPerPage = (TotalPage - 1) * FilesPerPage + FilesPerPage
      BY <1>3, OnePageMore, Zenon
    <3> QED
      BY <3>1, <3>2, Zenon
  <2> QED
    BY <2>1, <2>2, <2>3, <2>4
<1>5. TotalPage < ByteRange
  <2>1. CASE files = 0
    BY <1>3, <2>1, BytesAssumption
  <2>2. CASE files > 0
    <3>1. TotalPage - 1 <= last
      BY <1>3, BytesAssumption
    <3> QED
      BY <1>1, <1>3, <1>4, <2>2, <3>1, BytesAssumption
  <2> QED
    BY <1>1, <2>1, <2>2
<1>6. files % ByteRange = files /\ p % ByteRange = p /\ TotalPage % ByteRange = TotalPage
  <2>1. \A n \in Nat : n < ByteRange => n % ByteRange = n
    BY BytesAssumption, SmallRemainder
  <2>2. p < ByteRange
    BY <1>2, <1>3, <1>5, BytesAssumption
  <2> QED
    BY <1>1, <1>3, <1>4, <1>5, <2>1, <2>2
<1>7. answer = [fileCount |-> files, currentPage |-> p, totalPage |-> TotalPage]
      /\ shown = p /\ sent = Cardinality(PageFiles(p))
  BY <1>2, <1>6 DEF AnswerIsOf
<1> HIDE DEF last, before
<1>8. PageFiles(p) = {k \in 1 .. files : before < k /\ k <= before + FilesPerPage}
  BY <1>1, <1>4, BytesAssumption DEF PageFiles, before
<1>9. NumbersShown = PageFiles(p)
  <2>1. CASE files = 0
    <3>1. Iteration = 0
      BY <1>7, <2>1 DEF Iteration
    <3> QED
      BY <1>8, <2>1, <3>1 DEF NumbersShown
  <2>2. CASE files > 0 /\ p # TotalPage
    <3>1. Iteration = FilesPerPage
      BY <1>7, <2>2 DEF Iteration
    <3>2. NumbersShown = {before + i : i \in 1 .. FilesPerPage}
      BY <1>7, <3>1 DEF NumbersShown, before
    <3>3. before + FilesPerPage < files
      BY <1>1, <1>3, <1>4, <2>2, BytesAssumption
    <3> QED
      BY <1>1, <1>4, <1>8, <3>2, <3>3, BytesAssumption
  <2>3. CASE files > 0 /\ p = TotalPage
    <3>1. Iteration = files - before
      <4>1. before = last /\ files - before \in 1 .. FilesPerPage
        BY <1>1, <1>3, <1>4, <2>3, BytesAssumption DEF before, last
      <4>2. p - 1 \in Nat /\ files = (p - 1) * FilesPerPage + (files - before)
        BY <1>1, <1>4, <4>1 DEF before
      <4>3. files % FilesPerPage = IF files - before = FilesPerPage THEN 0 ELSE files - before
        BY <1>1, <4>1, <4>2, RemainderOfPages
      <4> QED
        BY <1>7, <2>3, <4>1, <4>3 DEF Iteration
    <3>2. NumbersShown = {before + i : i \in 1 .. files - before}
      BY <1>7, <3>1 DEF NumbersShown, before
    <3>3. before = last
      BY <2>3 DEF before, last
    <3> QED
      BY <1>1, <1>3, <1>4, <1>8, <2>3, <3>2, <3>3, BytesAssumption
  <2> QED
    BY <1>1, <2>1, <2>2, <2>3
<1>10. \A k \in 1 .. files : k <= TotalPage * FilesPerPage
  BY <1>1, <1>3, <1>4, BytesAssumption
<1>11. files > 0 => \E k \in 1 .. files : last < k
  BY <1>1, <1>3
<1>12. shown \in 1 .. TotalPage
  BY <1>2, <1>7
<1> QED
  BY <1>4, <1>7, <1>8, <1>9, <1>10, <1>11, <1>12 DEF before, last

(* With fewer files than a byte has values, and unless another session       *)
(* changed them in between, the lines shown are the files of the page, each  *)
(* has a file, and every file is on a page that can be turned to, for any    *)
(* page size (userFileManager.c:108-116, fileServerConnector.c:247-257).     *)
THEOREM PagesAreRightAlways == Spec => []PagesAreRight
  BY PagesInvInit, PagesInvStep, PagesInvIsRight, PTL DEF Spec

-----------------------------------------------------------------------------
(* TypeOK *)

(* A set of natural numbers that is not empty has a smallest element. *)
LEMMA SmallestExists ==
  ASSUME NEW T \in SUBSET Nat, T # {}
  PROVE  \E x \in T : \A y \in T : x <= y
<1> DEFINE R == {ss \in Nat \X Nat : ss[1] < ss[2]}
<1>1. IsWellFoundedOn(R, Nat)
  BY NatLessThanWellFounded, Zenon DEF OpToRel
<1>2. ASSUME NEW x \in Nat, NEW y \in Nat, <<y, x>> \notin R
      PROVE  x <= y
  <2>1. <<y, x>> \in Nat \X Nat /\ <<y, x>>[1] = y /\ <<y, x>>[2] = x
    OBVIOUS
  <2>2. ~ (y < x)
    BY <1>2, <2>1, Zenon
  <2> QED
    BY <2>2
<1> HIDE DEF R
<1>3. PICK x \in T : \A y \in T : <<y, x>> \notin R
  BY <1>1, WFMin
<1> QED
  BY <1>2, <1>3

(* The numbers of a set, counted in their order *)

LEMMA NthIsMember ==
  ASSUME NEW m \in Nat, NEW ids \in SUBSET (1 .. m), NEW k \in 1 .. Cardinality(ids)
  PROVE  NthId(ids, k) \in ids
<1> DEFINE c(x) == Cardinality(UpTo(ids, x))
<1>0. \A y \in ids : y \in Nat /\ 1 <= y /\ y <= m
  BY ids \subseteq 1 .. m
<1>1. IsFiniteSet(ids)
  <2>1. IsFiniteSet(1 .. m)
    BY FS_Interval
  <2> QED
    BY <2>1, FS_Subset
<1>2. \A x \in Nat : IsFiniteSet(UpTo(ids, x)) /\ c(x) \in Nat
  <2>1. \A x \in Nat : UpTo(ids, x) \subseteq ids
    BY DEF UpTo
  <2> QED
    BY <1>1, <2>1, FS_Subset, FS_CardinalityType
<1>3. k \in Nat /\ k >= 1
  BY <1>1, FS_CardinalityType
<1> DEFINE T == {x \in Nat : c(x) >= k}
<1>4. m \in T
  <2>1. UpTo(ids, m) = ids
    BY <1>0 DEF UpTo
  <2>2. c(m) >= k
    BY <1>1, <2>1, FS_CardinalityType
  <2> QED
    BY <2>2
<1>5. PICK x \in T : \A y \in T : x <= y
  <2>1. T \in SUBSET Nat /\ T # {}
    BY <1>4
  <2> HIDE DEF T
  <2> QED
    BY <2>1, SmallestExists
<1>6. x \in Nat /\ c(x) >= k /\ c(x) \in Nat
  BY <1>2, <1>5
<1>7. x # 0
  <2>1. UpTo(ids, 0) = {}
    <3>1. \A y \in ids : ~ (y <= 0)
      BY <1>0
    <3> QED
      BY <3>1, Zenon DEF UpTo
  <2>2. c(0) = 0
    BY <2>1, FS_EmptySet
  <2> QED
    BY <1>3, <1>6, <2>2
<1>8. x - 1 \in Nat /\ c(x - 1) \in Nat /\ c(x - 1) < k
  <2>1. x - 1 \in Nat
    BY <1>6, <1>7
  <2>2. x - 1 \notin T
    BY <1>5, <1>6, <2>1
  <2> QED
    BY <1>2, <1>3, <2>1, <2>2
<1>9. x \in ids
  <2> SUFFICES ASSUME x \notin ids PROVE FALSE
    OBVIOUS
  <2>1. UpTo(ids, x) = UpTo(ids, x - 1)
    <3>1. \A y \in ids : y <= x <=> y <= x - 1
      BY <1>0, <1>6
    <3> QED
      BY <3>1, Zenon DEF UpTo
  <2>2. c(x) = c(x - 1)
    BY <2>1
  <2> HIDE DEF c
  <2> QED
    BY <1>3, <1>6, <1>8, <2>2
<1>10. c(x) = k
  <2>1. UpTo(ids, x) = UpTo(ids, x - 1) \cup {x}
    <3>1. \A y \in ids : y <= x <=> y <= x - 1 \/ y = x
      BY <1>0, <1>6
    <3> QED
      BY <1>9, <3>1, Zenon DEF UpTo
  <2>2. x \notin UpTo(ids, x - 1)
    BY <1>6 DEF UpTo
  <2>3. c(x) = c(x - 1) + 1
    BY <1>2, <1>8, <2>1, <2>2, FS_AddElement
  <2> HIDE DEF c
  <2> QED
    BY <1>3, <1>6, <1>8, <2>3
<1>11. \E id \in ids : Cardinality(UpTo(ids, id)) = k
  BY <1>9, <1>10
<1> QED
  BY <1>11 DEF NthId

LEMMA LargestIsMember ==
  ASSUME NEW m \in Nat, NEW S \in SUBSET (0 .. m), S # {}
  PROVE  Max(S) \in S /\ \A x \in S : Max(S) >= x
<1> DEFINE T == {m - x : x \in S}
<1>0. \A x \in S : x \in Nat /\ x <= m
  BY S \subseteq 0 .. m
<1>1. T \in SUBSET Nat /\ T # {}
  <2>1. \A x \in S : m - x \in Nat
    BY <1>0
  <2> QED
    BY <2>1
<1>2. PICK d \in T : \A y \in T : d <= y
  <2> HIDE DEF T
  <2> QED
    BY <1>1, SmallestExists
<1>3. PICK x \in S : d = m - x
  BY <1>2
<1>4. \A y \in S : x >= y
  <2> SUFFICES ASSUME NEW y \in S PROVE x >= y
    OBVIOUS
  <2>1. m - y \in T
    OBVIOUS
  <2>2. m - x <= m - y
    BY <1>2, <1>3, <2>1
  <2> QED
    BY <1>0, <2>2
<1> QED
  BY <1>3, <1>4 DEF Max

(* Databases and what the statements leave of them *)

LEMMA TableIntro ==
  ASSUME NEW ids \in SUBSET Id, NEW rows \in [ids -> Entry]
  PROVE  rows \in Table
BY DEF Table

LEMMA TableElim ==
  ASSUME NEW rows \in Table
  PROVE  /\ DOMAIN rows \subseteq Id /\ rows \in [DOMAIN rows -> Entry]
         /\ IsFiniteSet(DOMAIN rows) /\ Cardinality(DOMAIN rows) \in 0 .. MaxId
<1>1. PICK ids \in SUBSET Id : rows \in [ids -> Entry]
  BY DEF Table
<1>2. DOMAIN rows = ids
  BY <1>1
<1>3. IsFiniteSet(Id) /\ Cardinality(Id) = MaxId
  BY IdAssumption, FS_Interval DEF Id
<1>4. IsFiniteSet(ids) /\ Cardinality(ids) <= MaxId
  BY <1>3, FS_Subset
<1>5. Cardinality(ids) \in Nat
  BY <1>4, FS_CardinalityType
<1> QED
  BY <1>1, <1>2, <1>4, <1>5, IdAssumption

LEMMA RowsType ==
  ASSUME NEW db \in Database, NEW l \in List
  PROVE  db.rows[l] \in Table /\ db.top[l] \in 0 .. MaxId
BY DEF Database

LEMMA ExecuteType ==
  ASSUME NEW ok \in BOOLEAN, local \in Database, list \in List,
         NEW rows \in Table, NEW top \in 0 .. MaxId, Execute(ok, rows, top)
  PROVE  local' \in Database
<1>1. CASE ok
  <2>1. local' = [local EXCEPT !.rows = [local.rows EXCEPT ![list] = rows],
                               !.top = [local.top EXCEPT ![list] = top]]
    BY <1>1 DEF Execute, Database
  <2>2. [local.rows EXCEPT ![list] = rows] \in [List -> Table]
    BY DEF Database
  <2>3. [local.top EXCEPT ![list] = top] \in [List -> 0 .. MaxId]
    BY DEF Database
  <2> QED
    BY <2>1, <2>2, <2>3 DEF Database
<1>2. CASE ~ok
  BY <1>2 DEF Execute, Database
<1> QED
  BY <1>1, <1>2

LEMMA EmptyType == Empty \in Database
<1>1. <<>> \in Table
  <2>1. {} \in SUBSET Id
    OBVIOUS
  <2>2. <<>> \in [{} -> Entry]
    OBVIOUS
  <2> QED
    BY <2>1, <2>2 DEF Table
<1> QED
  BY <1>1, IdAssumption DEF Empty, Database

LEMMA NextIdType ==
  ASSUME local \in Database, list \in List
  PROVE  NextId \in 1 .. MaxId + 1 /\ \A id \in DOMAIN Rows : id < NextId
<1> DEFINE S == {Top} \cup DOMAIN Rows
<1>1. Rows \in Table /\ Top \in 0 .. MaxId
  BY RowsType DEF Rows, Top
<1>2. DOMAIN Rows \subseteq 1 .. MaxId
  BY <1>1, TableElim DEF Id
<1>3. S \in SUBSET (0 .. MaxId) /\ S # {}
  BY <1>1, <1>2, IdAssumption
<1> HIDE DEF S
<1>4. Max(S) \in 0 .. MaxId /\ \A x \in S : Max(S) >= x
  BY <1>3, IdAssumption, LargestIsMember
<1>5. NextId = 1 + Max(S)
  BY DEF NextId, S
<1>6. DOMAIN Rows \subseteq S /\ \A x \in S : x \in Int
  BY <1>3 DEF S
<1> QED
  BY <1>4, <1>5, <1>6, IdAssumption

LEMMA MaxPageBound ==
  ASSUME count \in 0 .. MaxId
  PROVE  MaxPage \in 1 .. MaxId + 1
<1>1. CASE count = 0
  BY <1>1, IdAssumption DEF MaxPage
<1>2. CASE count # 0
  <2> DEFINE q == (count - 1) \div PageSize
  <2>1. count - 1 \in Nat /\ MaxPage = q + 1
    BY <1>2, IdAssumption DEF MaxPage
  <2>2. q \in Nat /\ q <= count - 1
    BY <2>1, PageAssumption
  <2> HIDE DEF q
  <2> QED
    BY <2>1, <2>2, IdAssumption
<1> QED
  BY <1>1, <1>2

(* A line to renumber is never the one before the first. *)
ListsInv == ListsTypeOK /\ (menu = "renumber" => line >= 1)

LEMMA ListsInvInit == Init => ListsInv
<1> SUFFICES ASSUME Init PROVE ListsInv
  OBVIOUS
<1>1. /\ local \in Database /\ kept \in Database /\ opened \in Database
      /\ leaked \in BOOLEAN
  BY EmptyType DEF Init, ListsInit
<1>2. /\ menu = "closed" /\ list = NoList
      /\ count \in 0 .. MaxId /\ line \in 0 .. MaxId /\ page \in 1 .. MaxId + 1
  BY IdAssumption DEF Init, ListsInit
<1> QED
  BY <1>1, <1>2 DEF ListsInv, ListsTypeOK

LEMMA ShowMenuType ==
  ASSUME NEW l \in List, local' \in Database, ShowMenu(l)
  PROVE  menu' = "choose" /\ count' \in 0 .. MaxId
<1>1. local'.rows[l] \in Table
  BY RowsType
<1> QED
  BY <1>1, TableElim DEF ShowMenu

LEMMA CloseMenuType ==
  ASSUME ListsInv, local' \in Database, kept' \in Database, leaked' = leaked, CloseMenu
  PROVE  ListsInv'
BY EmptyType, IdAssumption DEF CloseMenu, ListsInv, ListsTypeOK

LEMMA ListsInvStep == ListsInv /\ [Next]_vars => ListsInv'
<1> SUFFICES ASSUME ListsInv, [Next]_vars PROVE ListsInv'
  OBVIOUS
<1>0. /\ local \in Database /\ kept \in Database /\ opened \in Database
      /\ menu # "closed" => list \in List
      /\ count \in 0 .. MaxId /\ line \in 0 .. MaxId /\ page \in 1 .. MaxId + 1
      /\ menu = "renumber" => line >= 1
  BY DEF ListsInv, ListsTypeOK
<1>1. CASE LogIn
  BY <1>1 DEF LogIn, InMainMenu, Download, ListsInv, ListsTypeOK
<1>2. CASE UNCHANGED listVars
  BY <1>2 DEF listVars, ListsInv, ListsTypeOK
<1>3. CASE End
  BY <1>3, <1>0, CloseMenuType DEF End, Store
<1>3a. CASE EndInLogIn
  BY <1>3a, <1>0, EmptyType DEF EndInLogIn, InMainMenu, ListsInv, ListsTypeOK
<1>3b. CASE RestartRelayServer
  BY <1>3b DEF RestartRelayServer, ListsInv, ListsTypeOK
<1>4. ASSUME NEW l \in List, Manage(l) PROVE ListsInv'
  <2>1. local' \in Database /\ ShowMenu(l)
    BY <1>0, <1>4 DEF Manage, OpenList
  <2>2. menu' = "choose" /\ count' \in 0 .. MaxId
    BY <2>1, ShowMenuType
  <2> QED
    BY <1>0, <1>4, <2>1, <2>2, IdAssumption, ListAssumption DEF Manage, OpenList, ListsInv, ListsTypeOK
<1>5. CASE PreviousPage
  <2>1. page - 1 \in 1 .. MaxId + 1
    BY <1>0, <1>5, IdAssumption DEF PreviousPage
  <2> QED
    BY <1>5, <2>1 DEF PreviousPage, ListsInv, ListsTypeOK
<1>6. CASE NextPage
  <2>1. page + 1 \in 1 .. MaxId + 1
    BY <1>0, <1>6, IdAssumption, MaxPageBound DEF NextPage
  <2> QED
    BY <1>6, <2>1 DEF NextPage, ListsInv, ListsTypeOK
<1>7. CASE Leave
  <2>1. kept' \in Database /\ local' \in Database
    BY <1>0, <1>7 DEF Leave, Store
  <2> QED
    BY <1>7, <2>1, CloseMenuType DEF Leave
<1>8. ASSUME NEW ok \in BOOLEAN, NEW rows \in Table, NEW top \in 0 .. MaxId, list \in List,
             Execute(ok, rows, top), ShowMenu(list), line' \in 0 .. MaxId,
             UNCHANGED <<kept, leaked, list, opened, page>>
      PROVE  ListsInv'
  <2>1. local' \in Database
    BY <1>0, <1>8, ExecuteType
  <2>2. menu' = "choose" /\ count' \in 0 .. MaxId
    BY <1>8, <2>1, ShowMenuType
  <2> QED
    BY <1>0, <1>8, <2>1, <2>2, ListAssumption DEF ListsInv, ListsTypeOK
<1>9. menu # "closed" =>
        /\ Rows \in Table /\ Top \in 0 .. MaxId /\ Rows \in [DOMAIN Rows -> Entry]
        /\ DOMAIN Rows \subseteq 1 .. MaxId /\ IsFiniteSet(DOMAIN Rows)
        /\ Cardinality(DOMAIN Rows) \in 0 .. MaxId
  <2> SUFFICES ASSUME menu # "closed"
               PROVE  /\ Rows \in Table /\ Top \in 0 .. MaxId /\ Rows \in [DOMAIN Rows -> Entry]
                      /\ DOMAIN Rows \subseteq 1 .. MaxId /\ IsFiniteSet(DOMAIN Rows)
                      /\ Cardinality(DOMAIN Rows) \in 0 .. MaxId
    OBVIOUS
  <2>1. Rows \in Table /\ Top \in 0 .. MaxId
    BY <1>0, RowsType DEF Rows, Top
  <2> QED
    BY <2>1, TableElim DEF Id
<1>10. ASSUME NEW ok \in BOOLEAN, NEW e \in Entry, Add(ok, e) PROVE ListsInv'
  <2> DEFINE rows == [id \in DOMAIN Rows \cup {NextId} |-> IF id = NextId THEN e ELSE Rows[id]]
  <2>1. list \in List /\ menu = "choose"
    BY <1>0, <1>10 DEF Add
  <2>2. NextId \in 1 .. MaxId
    BY <1>0, <1>10, <2>1, NextIdType, IdAssumption DEF Add
  <2>3. rows \in Table
    <3>1. DOMAIN Rows \cup {NextId} \in SUBSET Id
      BY <1>9, <2>1, <2>2 DEF Id
    <3>2. rows \in [DOMAIN Rows \cup {NextId} -> Entry]
      BY <1>9, <2>1
    <3> QED
      BY <3>1, <3>2, TableIntro
  <2> HIDE DEF rows
  <2> QED
    BY <1>0, <1>8, <1>10, <2>1, <2>2, <2>3, IdAssumption DEF Add, Insert, rows
<1>11. ASSUME NEW ok \in BOOLEAN, NEW n \in Id, NEW e \in Entry, Modify(ok, n, e) PROVE ListsInv'
  <2> DEFINE rows == [x \in DOMAIN Rows |-> IF x = n THEN e ELSE Rows[x]]
  <2>1. list \in List /\ menu = "choose"
    BY <1>0, <1>11 DEF Modify
  <2>2. rows \in Table
    <3>1. DOMAIN Rows \in SUBSET Id
      BY <1>9, <2>1 DEF Id
    <3>2. rows \in [DOMAIN Rows -> Entry]
      BY <1>9, <2>1
    <3> QED
      BY <3>1, <3>2, TableIntro
  <2>3. n \in 0 .. MaxId
    BY IdAssumption DEF Id
  <2> HIDE DEF rows
  <2> QED
    BY <1>0, <1>8, <1>9, <1>11, <2>1, <2>2, <2>3 DEF Modify, Update, rows
<1>12. ASSUME NEW ok \in BOOLEAN, NEW n \in Id, DeleteRow(ok, n) PROVE ListsInv'
  <2> DEFINE rows == [x \in DOMAIN Rows \ {n} |-> Rows[x]]
  <2>1. list \in List /\ menu = "choose"
    BY <1>0, <1>12 DEF DeleteRow
  <2>2. rows \in Table
    <3>1. DOMAIN Rows \ {n} \in SUBSET Id
      BY <1>9, <2>1 DEF Id
    <3>2. rows \in [DOMAIN Rows \ {n} -> Entry]
      BY <1>9, <2>1
    <3> QED
      BY <3>1, <3>2, TableIntro
  <2>3. n \in 0 .. MaxId /\ n >= 1
    BY IdAssumption DEF Id
  <2> HIDE DEF rows
  <2>4. local' \in Database
    BY <1>0, <1>9, <1>12, <2>1, <2>2, ExecuteType DEF DeleteRow, Delete, rows
  <2> QED
    BY <1>0, <1>12, <2>1, <2>3, <2>4 DEF DeleteRow, ListsInv, ListsTypeOK
<1>13. ASSUME NEW ok \in BOOLEAN, Renumber(ok) PROVE ListsInv'
  <2>1. list \in List /\ menu = "renumber" /\ line \in 1 .. MaxId /\ line + 1 \in 1 .. MaxId
    BY <1>0, <1>13, IdAssumption DEF Renumber
  <2>2. local' \in Database
    <3>1. CASE Cardinality(DOMAIN Rows) >= line
      <4> DEFINE old == NthId(DOMAIN Rows, line)
                 rows == [x \in (DOMAIN Rows \ {old}) \cup {line} |->
                            IF x = line THEN Rows[old] ELSE Rows[x]]
      <4>1. old \in DOMAIN Rows
        <5>1. line \in 1 .. Cardinality(DOMAIN Rows)
          BY <1>9, <2>1, <3>1, IdAssumption
        <5> QED
          BY <1>9, <2>1, <5>1, NthIsMember, IdAssumption
      <4> HIDE DEF old
      <4>2. rows \in Table
        <5>1. (DOMAIN Rows \ {old}) \cup {line} \in SUBSET Id
          BY <1>9, <2>1 DEF Id
        <5>2. rows \in [(DOMAIN Rows \ {old}) \cup {line} -> Entry]
          BY <1>9, <2>1, <4>1
        <5> QED
          BY <5>1, <5>2, TableIntro
      <4> HIDE DEF rows
      <4>3. Execute(ok, Rows, Top) \/ Execute(ok, rows, Top)
        BY <1>13, <3>1 DEF Renumber, SetId, rows, old
      <4> QED
        BY <1>0, <1>9, <2>1, <4>2, <4>3, ExecuteType
    <3>2. CASE ~ (Cardinality(DOMAIN Rows) >= line)
      BY <1>0, <1>13, <3>2 DEF Renumber
    <3> QED
      BY <3>1, <3>2
  <2> QED
    BY <1>0, <1>13, <2>1, <2>2, IdAssumption DEF Renumber, ListsInv, ListsTypeOK
<1>14. ASSUME NEW ok \in BOOLEAN, ResetSequence(ok) PROVE ListsInv'
  <2>1. list \in List /\ menu = "renumber"
    BY <1>0, <1>14 DEF ResetSequence
  <2> QED
    BY <1>0, <1>8, <1>9, <1>14, <2>1, IdAssumption DEF ResetSequence
<1>15. CASE InLists
  BY <1>5, <1>6, <1>7, <1>10, <1>11, <1>12, <1>13, <1>14, <1>15 DEF InLists, ListStep
<1>16. [Next]_vars => \/ LogIn \/ EndInLogIn \/ End \/ RestartRelayServer
                     \/ (\E l \in List : Manage(l)) \/ InLists \/ UNCHANGED listVars
  BY DEF Next, LogOut, ManageFile, Start, InFiles, vars
<1> QED
  BY <1>1, <1>2, <1>3, <1>3a, <1>3b, <1>4, <1>15, <1>16

(* Every variable keeps its type, for any lists, bounds and page sizes:      *)
(* the ids given out, renumbered or not, stay within their bound, every row  *)
(* holds an entry, the row to move up exists, and the numbers of the file    *)
(* list fit into their bytes.                                                *)
THEOREM TypeCorrect == Spec => []TypeOK
<1> DEFINE Flags == program \in {"runs", "ended"} /\ loginFlag \in BOOLEAN
<1>1. Init => Flags
  BY DEF Init
<1>2. Flags /\ [Next]_vars => Flags'
  <2> SUFFICES ASSUME Flags, [Next]_vars PROVE Flags'
    OBVIOUS
  <2>1. [Next]_vars => LogIn \/ EndInLogIn \/ LogOut \/ End \/ Start \/ UNCHANGED clientVars
    BY DEF Next, ManageFile, Manage, RestartRelayServer, InLists, InFiles, vars, clientVars
  <2> QED
    BY <2>1 DEF LogIn, EndInLogIn, LogOut, End, Start, clientVars
<1>3. ListsInv /\ PagesInv /\ Flags => TypeOK
  BY DEF ListsInv, PagesInv, TypeOK
<1> HIDE DEF Flags
<1> QED
  BY <1>1, <1>2, <1>3, ListsInvInit, ListsInvStep, PagesInvInit, PagesInvStep, PTL DEF Spec

-----------------------------------------------------------------------------
(* ChosenLineOnly *)

(* The lines of a table whose numbers have no gap are its rows, and those of *)
(* one with a gap at i the rows before it and those behind.                  *)
LEMMA NthWithoutGap ==
  ASSUME NEW n \in Nat, NEW k \in 1 .. n
  PROVE  NthId(1 .. n, k) = k
<1>1. ASSUME NEW id \in 1 .. n PROVE Cardinality(UpTo(1 .. n, id)) = id
  <2>1. UpTo(1 .. n, id) = 1 .. id
    BY DEF UpTo
  <2>2. id \in Nat
    OBVIOUS
  <2> QED
    BY <2>1, <2>2, FS_Interval
<1> QED
  BY <1>1, Zenon DEF NthId

LEMMA NthWithGap ==
  ASSUME NEW i \in Nat, NEW n \in Nat, 1 <= i, i <= n, NEW k \in 1 .. n - 1
  PROVE  NthId((1 .. i - 1) \cup (i + 1 .. n), k) = IF k < i THEN k ELSE k + 1
<1> DEFINE ids == (1 .. i - 1) \cup (i + 1 .. n)
           place(id) == IF id < i THEN id ELSE id - 1
<1>1. ASSUME NEW id \in ids PROVE Cardinality(UpTo(ids, id)) = place(id)
  <2>0. id \in Nat /\ id # i /\ IsFiniteSet(1 .. id) /\ Cardinality(1 .. id) = id
    <3>1. id \in Nat /\ id # i
      OBVIOUS
    <3> QED
      BY <3>1, FS_Interval
  <2>1. CASE id < i
    <3>1. UpTo(ids, id) = 1 .. id
      BY <2>0, <2>1 DEF UpTo
    <3> QED
      BY <2>0, <2>1, <3>1
  <2>2. CASE id > i
    <3>1. UpTo(ids, id) = (1 .. id) \ {i}
      BY <2>0, <2>2 DEF UpTo
    <3>2. i \in 1 .. id
      BY <2>0, <2>2
    <3>3. Cardinality((1 .. id) \ {i}) = id - 1
      BY <2>0, <3>2, FS_RemoveElement
    <3>4. place(id) = id - 1
      BY <2>0, <2>2
    <3> QED
      BY <3>1, <3>3, <3>4, Zenon
  <2> QED
    BY <2>0, <2>1, <2>2
<1> DEFINE m == IF k < i THEN k ELSE k + 1
<1>2. m \in ids /\ place(m) = k
  OBVIOUS
<1>3. \A id \in ids : place(id) = k => id = m
  OBVIOUS
<1> HIDE DEF ids, place, m
<1>4. \A id \in ids : Cardinality(UpTo(ids, id)) = k <=> id = m
  BY <1>1, <1>2, <1>3, Zenon
<1>5. NthId(ids, k) = m
  BY <1>2, <1>4, Zenon DEF NthId
<1> QED
  BY <1>5 DEF ids, m

LEMMA LinesWithoutGap ==
  ASSUME NEW db, NEW l, NEW n \in Nat, DOMAIN db.rows[l] = 1 .. n
  PROVE  Lines(db, l) = [k \in 1 .. n |-> db.rows[l][k]]
<1>1. Cardinality(1 .. n) = n
  BY FS_Interval
<1>2. \A k \in 1 .. n : NthId(1 .. n, k) = k
  BY NthWithoutGap
<1> QED
  BY <1>1, <1>2, Zenon DEF Lines

LEMMA LinesWithGap ==
  ASSUME NEW db, NEW l, NEW n \in Nat, NEW i \in 1 .. n,
         DOMAIN db.rows[l] = (1 .. i - 1) \cup (i + 1 .. n)
  PROVE  Lines(db, l) = [k \in 1 .. n - 1 |-> db.rows[l][IF k < i THEN k ELSE k + 1]]
<1> DEFINE ids == (1 .. i - 1) \cup (i + 1 .. n)
<1>1. i \in Nat /\ 1 <= i /\ i <= n
  OBVIOUS
<1>2. Cardinality(ids) = n - 1
  BY <1>1, GapCardinality
<1>3. \A k \in 1 .. n - 1 : NthId(ids, k) = IF k < i THEN k ELSE k + 1
  BY <1>1, NthWithGap
<1> HIDE DEF ids
<1>4. DOMAIN db.rows[l] = ids
  BY DEF ids
<1> QED
  BY <1>2, <1>3, <1>4, Zenon DEF Lines

LEMMA RemoveAtLine ==
  ASSUME NEW rows, NEW n \in Nat, NEW i \in 1 .. n
  PROVE  RemoveAt([k \in 1 .. n |-> rows[k]], i)
           = [k \in 1 .. n - 1 |-> rows[IF k < i THEN k ELSE k + 1]]
<1> DEFINE s == [k \in 1 .. n |-> rows[k]]
           t == [k \in 1 .. n - 1 |-> rows[IF k < i THEN k ELSE k + 1]]
           S == {rows[k] : k \in 1 .. n}
           a == SubSeq(s, 1, i - 1)
           b == SubSeq(s, i + 1, n)
<1>1. s \in Seq(S) /\ Len(s) = n /\ \A k \in 1 .. n : s[k] = rows[k] /\ s[k] \in S
  OBVIOUS
<1>2. t \in Seq(S) /\ Len(t) = n - 1
      /\ \A k \in 1 .. n - 1 : t[k] = rows[IF k < i THEN k ELSE k + 1]
  <2>1. n - 1 \in Nat /\ \A k \in 1 .. n - 1 : (IF k < i THEN k ELSE k + 1) \in 1 .. n
    OBVIOUS
  <2> QED
    BY <2>1
<1> HIDE DEF s, t, S
<1>3. a \in Seq(S) /\ Len(a) = i - 1 /\ \A k \in 1 .. i - 1 : a[k] = s[k]
  <2>1. 1 \in Int /\ i - 1 \in Int /\ \A k \in 1 .. i - 1 : s[k] \in S
    BY <1>1
  <2>2. /\ a \in Seq(S) /\ Len(a) = IF 1 <= i - 1 THEN (i - 1) - 1 + 1 ELSE 0
        /\ \A k \in 1 .. (i - 1) - 1 + 1 : a[k] = s[1 + k - 1]
    BY <2>1, SubSeqProperties
  <2> HIDE DEF a
  <2> QED
    BY <2>2
<1>4. b \in Seq(S) /\ Len(b) = n - i /\ \A k \in 1 .. n - i : b[k] = s[i + k]
  <2>1. i + 1 \in Int /\ n \in Int /\ \A k \in i + 1 .. n : s[k] \in S
    BY <1>1
  <2>2. /\ b \in Seq(S) /\ Len(b) = IF i + 1 <= n THEN n - (i + 1) + 1 ELSE 0
        /\ \A k \in 1 .. n - (i + 1) + 1 : b[k] = s[(i + 1) + k - 1]
    BY <2>1, SubSeqProperties
  <2> HIDE DEF b
  <2> QED
    BY <2>2
<1> HIDE DEF a, b
<1>5. /\ a \o b \in Seq(S) /\ Len(a \o b) = n - 1
      /\ \A k \in 1 .. n - 1 : (a \o b)[k] = t[k]
  <2>1. a \o b \in Seq(S) /\ Len(a \o b) = Len(a) + Len(b)
    BY <1>3, <1>4, ConcatProperties
  <2>2. \A k \in 1 .. Len(a) + Len(b) : (a \o b)[k] = IF k <= Len(a) THEN a[k] ELSE b[k - Len(a)]
    BY <1>3, <1>4, ConcatProperties
  <2>3. Len(a) + Len(b) = n - 1
    BY <1>3, <1>4
  <2>4. ASSUME NEW k \in 1 .. n - 1 PROVE (a \o b)[k] = t[k]
    <3>1. CASE k < i
      <4>1. k \in 1 .. i - 1 /\ (a \o b)[k] = a[k]
        BY <1>3, <2>2, <2>3, <3>1
      <4>2. a[k] = s[k]
        BY <1>3, <4>1
      <4>3. s[k] = rows[k] /\ t[k] = rows[k]
        BY <1>1, <1>2, <3>1
      <4> QED
        BY <4>1, <4>2, <4>3
    <3>2. CASE ~ (k < i)
      <4>1. k - (i - 1) \in 1 .. n - i /\ (a \o b)[k] = b[k - (i - 1)]
        BY <1>3, <2>2, <2>3, <3>2
      <4>2. i + (k - (i - 1)) = k + 1
        OBVIOUS
      <4>3. (a \o b)[k] = s[k + 1]
        BY <1>4, <4>1, <4>2
      <4>4. s[k + 1] = rows[k + 1] /\ t[k] = rows[k + 1]
        BY <1>1, <1>2, <3>2
      <4> QED
        BY <4>3, <4>4
    <3> QED
      BY <3>1, <3>2
  <2> QED
    BY <2>1, <2>3, <2>4
<1>6. a \o b = t
  BY <1>2, <1>5, SeqEqual
<1>7. RemoveAt(s, i) = a \o b
  BY <1>1 DEF RemoveAt, a, b
<1> QED
  BY <1>6, <1>7 DEF s, t

LEMMA AppendLine ==
  ASSUME NEW n \in Nat, NEW old, NEW new, NEW e,
         \A k \in 1 .. n : new[k] = old[k], new[n + 1] = e
  PROVE  [k \in 1 .. n + 1 |-> new[k]] = Append([k \in 1 .. n |-> old[k]], e)
<1> DEFINE s == [k \in 1 .. n |-> old[k]]
           t == [k \in 1 .. n + 1 |-> new[k]]
           S == {new[k] : k \in 1 .. n + 1}
<1>1. s \in Seq(S) /\ Len(s) = n /\ e \in S /\ \A k \in 1 .. n : s[k] = new[k]
  OBVIOUS
<1>2. t \in Seq(S) /\ Len(t) = n + 1 /\ \A k \in 1 .. n + 1 : t[k] = new[k]
  OBVIOUS
<1> HIDE DEF s, t, S
<1>3. /\ Append(s, e) \in Seq(S) /\ Len(Append(s, e)) = n + 1
      /\ \A k \in 1 .. n : Append(s, e)[k] = s[k]
      /\ Append(s, e)[n + 1] = e
  BY <1>1, AppendProperties
<1>4. \A k \in 1 .. n + 1 : t[k] = Append(s, e)[k]
  BY <1>1, <1>2, <1>3
<1>5. t = Append(s, e)
  BY <1>2, <1>3, <1>4, SeqEqual
<1> QED
  BY <1>5 DEF s, t

ChosenLine ==
  LET old == Lines(local, list)
      new == Lines(local', list)
  IN  /\ \A l \in List \ {list} : local'.rows[l] = local.rows[l]
      /\ CASE menu = "choose" /\ menu' = "renumber" -> new = RemoveAt(old, line')
           [] menu = "renumber" -> new = old
           [] OTHER -> \/ new = old
                       \/ \E e \in Entry : new = Append(old, e)
                       \/ \E e \in Entry : new = [old EXCEPT ![line'] = e]

LEMMA ChosenLineStep ==
  ASSUME ListsInv, NumberedInv, [Next]_vars, menu # "closed", ~local'.spoilt, ~ UNCHANGED listVars
  PROVE  ChosenLine
<1> DEFINE old == Lines(local, list)
           new == Lines(local', list)
<1>0. list \in List /\ Shaped(local)
  BY DEF NumberedInv
<1>1. CASE local' = local /\ (menu' # "renumber" \/ menu = "renumber")
  <2>1. new = old /\ \A l \in List \ {list} : local'.rows[l] = local.rows[l]
    BY <1>1
  <2> HIDE DEF new, old
  <2> QED
    BY <1>1, <2>1 DEF ChosenLine, new, old
<1>2. ASSUME NEW ok \in BOOLEAN, NEW rows, NEW top, Execute(ok, rows, top)
      PROVE  /\ ~local.spoilt /\ local'.rows[list] = rows
             /\ \A l \in List \ {list} : local'.rows[l] = local.rows[l]
  BY <1>0, <1>2, ExecuteEffect
<1>3. menu = "choose" /\ ~local.spoilt =>
        count \in Nat /\ DOMAIN Rows = 1 .. count /\ old = [k \in 1 .. count |-> Rows[k]]
  <2> SUFFICES ASSUME menu = "choose", ~local.spoilt
               PROVE  count \in Nat /\ DOMAIN Rows = 1 .. count /\ old = [k \in 1 .. count |-> Rows[k]]
    OBVIOUS
  <2>1. count \in Nat /\ DOMAIN Rows = 1 .. count
    BY DEF NumberedInv
  <2> QED
    BY <2>1, LinesWithoutGap DEF Rows
<1>4. menu = "renumber" /\ ~local.spoilt =>
        /\ count \in Nat /\ line \in 1 .. count
        /\ DOMAIN Rows = (1 .. line - 1) \cup (line + 1 .. count)
        /\ old = [k \in 1 .. count - 1 |-> Rows[IF k < line THEN k ELSE k + 1]]
  <2> SUFFICES ASSUME menu = "renumber", ~local.spoilt
               PROVE  /\ count \in Nat /\ line \in 1 .. count
                      /\ DOMAIN Rows = (1 .. line - 1) \cup (line + 1 .. count)
                      /\ old = [k \in 1 .. count - 1 |-> Rows[IF k < line THEN k ELSE k + 1]]
    OBVIOUS
  <2>1. /\ count \in Nat /\ line \in 1 .. count
        /\ DOMAIN Rows = (1 .. line - 1) \cup (line + 1 .. count)
    BY DEF NumberedInv
  <2> QED
    BY <2>1, LinesWithGap DEF Rows
<1>5. ASSUME NEW ok \in BOOLEAN, NEW e \in Entry, Add(ok, e) PROVE ChosenLine
  <2> DEFINE rows == [id \in DOMAIN Rows \cup {NextId} |-> IF id = NextId THEN e ELSE Rows[id]]
  <2>1. Execute(ok, rows, NextId) /\ menu = "choose" /\ menu' = "choose"
    BY <1>5 DEF Add, Insert, ShowMenu
  <2>2. /\ ~local.spoilt /\ local'.rows[list] = rows
        /\ \A l \in List \ {list} : local'.rows[l] = local.rows[l]
    BY <1>2, <2>1
  <2>3. count \in Nat /\ DOMAIN Rows = 1 .. count /\ old = [k \in 1 .. count |-> Rows[k]]
    BY <1>3, <2>1, <2>2
  <2>4. NextId = count + 1
    <3>1. PICK n \in Nat : DOMAIN Rows = 1 .. n /\ Top \in 0 .. n
      BY <1>0, <2>1, <2>2 DEF NumberedInv, SoundTable, Rows, Top
    <3>2. n = count
      BY <2>3, <3>1
    <3> QED
      BY <2>3, <3>1, <3>2, NextIdAfter
  <2>5. DOMAIN rows = 1 .. count + 1
    BY <2>3, <2>4
  <2>6. (\A k \in 1 .. count : rows[k] = Rows[k]) /\ rows[count + 1] = e
    BY <2>3, <2>4
  <2> HIDE DEF rows
  <2>7. new = [k \in 1 .. count + 1 |-> rows[k]]
    <3>1. count + 1 \in Nat /\ DOMAIN local'.rows[list] = 1 .. count + 1
      BY <2>2, <2>3, <2>5
    <3> QED
      BY <2>2, <3>1, LinesWithoutGap
  <2>8. new = Append(old, e)
    BY <2>3, <2>6, <2>7, AppendLine
  <2> HIDE DEF old, new
  <2> QED
    BY <2>1, <2>2, <2>8, Zenon DEF ChosenLine, old, new
<1>6. ASSUME NEW ok \in BOOLEAN, NEW n \in Id, NEW e \in Entry, Modify(ok, n, e) PROVE ChosenLine
  <2> DEFINE rows == [x \in DOMAIN Rows |-> IF x = n THEN e ELSE Rows[x]]
  <2>1. Execute(ok, rows, Top) /\ menu = "choose" /\ menu' = "choose" /\ line' = n
    BY <1>6 DEF Modify, Update, ShowMenu
  <2>2. /\ ~local.spoilt /\ local'.rows[list] = rows
        /\ \A l \in List \ {list} : local'.rows[l] = local.rows[l]
    BY <1>2, <2>1
  <2>3. count \in Nat /\ DOMAIN Rows = 1 .. count /\ old = [k \in 1 .. count |-> Rows[k]]
    BY <1>3, <2>1, <2>2
  <2>4. new = [k \in 1 .. count |-> rows[k]]
    BY <2>2, <2>3, LinesWithoutGap
  <2>5. new = [old EXCEPT ![line'] = e]
    BY <2>1, <2>3, <2>4
  <2> HIDE DEF old, new
  <2> QED
    BY <2>1, <2>2, <2>5, Zenon DEF ChosenLine, old, new
<1>7. ASSUME NEW ok \in BOOLEAN, NEW n \in Id, DeleteRow(ok, n) PROVE ChosenLine
  <2> DEFINE rows == [x \in DOMAIN Rows \ {n} |-> Rows[x]]
  <2>1. /\ Execute(ok, rows, Top) /\ menu = "choose" /\ menu' = "renumber"
        /\ line' = n /\ n <= count
    BY <1>7 DEF DeleteRow, Delete
  <2>2. /\ ~local.spoilt /\ local'.rows[list] = rows
        /\ \A l \in List \ {list} : local'.rows[l] = local.rows[l]
    BY <1>2, <2>1
  <2>3. count \in Nat /\ DOMAIN Rows = 1 .. count /\ old = [k \in 1 .. count |-> Rows[k]]
    BY <1>3, <2>1, <2>2
  <2>4. n \in 1 .. count
    BY <2>1, <2>3, IdAssumption DEF Id
  <2>5. DOMAIN rows = (1 .. n - 1) \cup (n + 1 .. count)
    BY <2>3, <2>4
  <2>6. \A k \in 1 .. count - 1 : rows[IF k < n THEN k ELSE k + 1] = Rows[IF k < n THEN k ELSE k + 1]
    BY <2>3, <2>4
  <2> HIDE DEF rows
  <2>7. new = [k \in 1 .. count - 1 |-> rows[IF k < n THEN k ELSE k + 1]]
    <3>1. DOMAIN local'.rows[list] = (1 .. n - 1) \cup (n + 1 .. count)
      BY <2>2, <2>5
    <3>2. new = [k \in 1 .. count - 1 |-> local'.rows[list][IF k < n THEN k ELSE k + 1]]
      BY <2>3, <2>4, <3>1, LinesWithGap
    <3> QED
      BY <2>2, <3>2
  <2>8. RemoveAt(old, n) = [k \in 1 .. count - 1 |-> Rows[IF k < n THEN k ELSE k + 1]]
    BY <2>3, <2>4, RemoveAtLine
  <2>9. new = RemoveAt(old, line')
    BY <2>1, <2>6, <2>7, <2>8
  <2> HIDE DEF old, new
  <2> QED
    BY <2>1, <2>2, <2>9, Zenon DEF ChosenLine, old, new
<1>8. ASSUME NEW ok \in BOOLEAN, Renumber(ok) PROVE ChosenLine
  <2>1. menu = "renumber" /\ menu' = "renumber" /\ line < count
    BY <1>8 DEF Renumber
  <2>2. ~local.spoilt
    BY <1>2, <1>8 DEF Renumber, SetId
  <2>3. /\ count \in Nat /\ line \in 1 .. count
        /\ DOMAIN Rows = (1 .. line - 1) \cup (line + 1 .. count)
        /\ old = [k \in 1 .. count - 1 |-> Rows[IF k < line THEN k ELSE k + 1]]
    BY <1>4, <2>1, <2>2
  <2>4. NthId(DOMAIN Rows, line) = line + 1
    BY <2>1, <2>3, NthAfterGap
  <2>5. Cardinality(DOMAIN Rows) = count - 1
    BY <2>3, GapCardinality
  <2>6. Cardinality(DOMAIN Rows) >= line /\ line \notin DOMAIN Rows
    BY <2>1, <2>3, <2>5
  <2> DEFINE rows == [x \in (DOMAIN Rows \ {line + 1}) \cup {line} |->
                        IF x = line THEN Rows[line + 1] ELSE Rows[x]]
  <2>7. Execute(ok, rows, Top)
    BY <1>8, <2>4, <2>6 DEF Renumber, SetId
  <2>8. /\ local'.rows[list] = rows
        /\ \A l \in List \ {list} : local'.rows[l] = local.rows[l]
    BY <1>2, <2>7
  <2>9. /\ line + 1 \in 1 .. count
        /\ DOMAIN rows = (1 .. (line + 1) - 1) \cup ((line + 1) + 1 .. count)
    BY <2>1, <2>3
  <2>10. \A k \in 1 .. count - 1 : rows[IF k < line + 1 THEN k ELSE k + 1]
                                     = Rows[IF k < line THEN k ELSE k + 1]
    <3> SUFFICES ASSUME NEW k \in 1 .. count - 1
                 PROVE  rows[IF k < line + 1 THEN k ELSE k + 1] = Rows[IF k < line THEN k ELSE k + 1]
      OBVIOUS
    <3>1. CASE k < line
      BY <2>3, <3>1
    <3>2. CASE k = line
      BY <2>3, <3>2
    <3>3. CASE k > line
      BY <2>3, <3>3
    <3> QED
      BY <2>3, <3>1, <3>2, <3>3
  <2> HIDE DEF rows
  <2>11. new = [k \in 1 .. count - 1 |-> rows[IF k < line + 1 THEN k ELSE k + 1]]
    <3>1. PICK i \in 1 .. count : i = line + 1
      BY <2>9
    <3>2. DOMAIN local'.rows[list] = (1 .. i - 1) \cup (i + 1 .. count)
      BY <2>8, <2>9, <3>1
    <3>3. new = [k \in 1 .. count - 1 |-> local'.rows[list][IF k < i THEN k ELSE k + 1]]
      <4>1. count \in Nat /\ i \in 1 .. count
        BY <2>3
      <4> QED
        BY <3>2, <4>1, LinesWithGap
    <3> QED
      BY <2>8, <3>1, <3>3
  <2>12. new = old
    BY <2>3, <2>10, <2>11
  <2> HIDE DEF old, new
  <2> QED
    BY <2>1, <2>8, <2>12, Zenon DEF ChosenLine, old, new
<1>9. ASSUME NEW ok \in BOOLEAN, ResetSequence(ok) PROVE ChosenLine
  <2>1. menu = "renumber" /\ Execute(ok, Rows, 0) /\ menu' = "choose"
    BY <1>9 DEF ResetSequence, ShowMenu
  <2>2. /\ local'.rows[list] = local.rows[list]
        /\ \A l \in List \ {list} : local'.rows[l] = local.rows[l]
    BY <1>2, <2>1 DEF Rows
  <2>3. new = old
    BY <2>2 DEF Lines
  <2> HIDE DEF old, new
  <2> QED
    BY <2>1, <2>2, <2>3, Zenon DEF ChosenLine, old, new
<1>10. CASE InLists
  <2>1. CASE PreviousPage \/ NextPage \/ Leave
    BY <1>1, <2>1 DEF PreviousPage, NextPage, Leave, CloseMenu
  <2> QED
    BY <1>5, <1>6, <1>7, <1>8, <1>9, <1>10, <2>1 DEF InLists, ListStep
<1>11. CASE End
  BY <1>1, <1>11 DEF End, CloseMenu
<1>12. CASE RestartRelayServer
  BY <1>1, <1>12 DEF RestartRelayServer
<1>13. [Next]_vars => InLists \/ End \/ RestartRelayServer
  BY DEF Next, LogIn, EndInLogIn, LogOut, ManageFile, Start, Manage, OpenList, InFiles, InMainMenu, vars, listVars
<1> QED
  BY <1>10, <1>11, <1>12, <1>13

(* The user's choice takes effect on the line it named and on no other, for  *)
(* lists of any length: an addition comes last, a change keeps the other     *)
(* lines, a deletion moves those behind it up in their order, and            *)
(* renumbering keeps them all (personalDBHelper.c:334, 351, 399-412).        *)
THEOREM ChosenLineOnlyAlways == Spec => ChosenLineOnly
<1>1. ListsInv /\ NumberedInv /\ [Next]_vars
        => [menu # "closed" /\ ~local'.spoilt => ChosenLine]_listVars
  BY ChosenLineStep
<1> QED
  BY <1>1, ListsInvInit, ListsInvStep, NumberedInvInit, NumberedStep, PTL
     DEF Spec, ChosenLineOnly, ChosenLine

==============================================================================
