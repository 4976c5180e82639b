---------------------------- MODULE PersonalLists ----------------------------
(***************************************************************************)
(* The contacts and the memos of the user on the client (userDataHelper.c, *)
(* personalDBHelper.c): two tables of myinfoClient.db, shown in the order  *)
(* of their ids, in which the user names a row by its id.  The program     *)
(* means the ids to be the line numbers 1, 2, 3 ...; a deletion renumbers  *)
(* the rows behind it one statement at a time.  The result of a statement  *)
(* is never looked at: `spoilt` records of a copy of the database that one *)
(* failed in its past.                                                     *)
(***************************************************************************)
EXTENDS Search, Sequences, SequencesExt

CONSTANTS
  List,      \* contacts and memo
  NoList,
  Entry,     \* what a row may hold
  PageSize,  \* rows on a page: 10
  MaxId      \* bound on the ids given out

ASSUME ListAssumption == NoList \notin List
ASSUME PageAssumption == PageSize \in Nat \ {0}
ASSUME IdAssumption == MaxId \in Nat

VARIABLES
  local,   \* myinfoClient.db
  kept,    \* the copy of the relay server, infodb/<uid>.db
  leaked,  \* the relay server has a handle on it open that it never closes
  menu,    \* where the thread is in manageContacts or manageMemo
  list,    \* the table it manages, or NoList
  opened,  \* the database when it began: originalHash
  count,   \* number of rows when the menu was shown
  line,    \* the row chosen; when renumbering, the next number to give
  page     \* page shown

listVars == <<local, kept, leaked, menu, list, opened, count, line, page>>

Id == 1 .. MaxId
Table == UNION {[ids -> Entry] : ids \in SUBSET Id}
Database == [rows : [List -> Table],      \* by id
             top : [List -> 0 .. MaxId],  \* sqlite_sequence
             spoilt : BOOLEAN]

Empty == [rows |-> [l \in List |-> <<>>], top |-> [l \in List |-> 0], spoilt |-> FALSE]

ListsTypeOK ==
  /\ local \in Database /\ kept \in Database /\ opened \in Database
  /\ leaked \in BOOLEAN
  /\ menu \in {"closed", "choose", "renumber"}
  /\ list \in List \cup {NoList} /\ (menu # "closed" => list # NoList)
  /\ count \in 0 .. MaxId
  /\ line \in 0 .. MaxId
  /\ page \in 1 .. MaxId + 1

ListsInit ==
  /\ local = Empty /\ kept = Empty /\ opened = Empty /\ leaked = FALSE
  /\ menu = "closed" /\ list = NoList
  /\ count = 0 /\ line = 0 /\ page = 1

(* What the menu shows, on all its pages *)
Lines(db, l) ==
  LET rows == db.rows[l]
  IN  [k \in 1 .. Cardinality(DOMAIN rows) |-> rows[NthId(DOMAIN rows, k)]]

(* (count - 1) / 10 + 1, where C divides -1 to 0 *)
MaxPage == IF count = 0 THEN 1 ELSE (count - 1) \div PageSize + 1

(* A statement leaves these rows and this sequence, or fails. *)
Execute(ok, rows, top) ==
  local' = IF ok
           THEN [local EXCEPT !.rows[list] = rows, !.top[list] = top]
           ELSE [local EXCEPT !.spoilt = TRUE]

Rows == local.rows[list]
Top == local.top[list]

(* The menu is shown, with the rows counted. *)
ShowMenu(l) == menu' = "choose" /\ count' = Cardinality(DOMAIN local'.rows[l])

-----------------------------------------------------------------------------
(* Statements *)

(* AUTOINCREMENT: the id after the largest there is or, says the sequence,   *)
(* ever was.                                                                 *)
NextId == 1 + Max({Top} \cup DOMAIN Rows)

Insert(ok, e) ==
  Execute(ok, [id \in DOMAIN Rows \cup {NextId} |-> IF id = NextId THEN e ELSE Rows[id]], NextId)

Update(ok, id, e) ==
  Execute(ok, [x \in DOMAIN Rows |-> IF x = id THEN e ELSE Rows[x]], Top)

Delete(ok, id) == Execute(ok, [x \in DOMAIN Rows \ {id} |-> Rows[x]], Top)

(* UPDATE ... SET id = new WHERE id = old, refused when there is a row new.  *)
SetId(ok, new, old) ==
  IF new \in DOMAIN Rows
  THEN Execute(ok, Rows, Top)
  ELSE Execute(ok, [x \in (DOMAIN Rows \ {old}) \cup {new} |->
                      IF x = new THEN Rows[old] ELSE Rows[x]], Top)

-----------------------------------------------------------------------------
(* The menu *)

OpenList(l) ==
  /\ menu = "closed"
  /\ list' = l /\ opened' = local
  /\ page' = 1 /\ line' = 0
  /\ UNCHANGED <<local, kept, leaked>>
  /\ ShowMenu(l)

PreviousPage ==
  /\ menu = "choose" /\ page > 1
  /\ page' = page - 1
  /\ UNCHANGED <<local, kept, leaked, menu, list, opened, count, line>>

NextPage ==
  /\ menu = "choose" /\ page < MaxPage
  /\ page' = page + 1
  /\ UNCHANGED <<local, kept, leaked, menu, list, opened, count, line>>

(* addContacts, addMemo *)
Add(ok, e) ==
  /\ menu = "choose" /\ NextId <= MaxId
  /\ Insert(ok, e)
  /\ ShowMenu(list)
  /\ UNCHANGED <<kept, leaked, list, opened, line, page>>

(* modifyContacts, modifyMemo: the number is checked against the count.      *)
Modify(ok, n, e) ==
  /\ menu = "choose" /\ n <= count
  /\ line' = n
  /\ Update(ok, n, e)
  /\ ShowMenu(list)
  /\ UNCHANGED <<kept, leaked, list, opened, page>>

(* deleteContacts, deleteMemo *)
DeleteRow(ok, n) ==
  /\ menu = "choose" /\ n <= count
  /\ Delete(ok, n)
  /\ menu' = "renumber" /\ line' = n
  /\ UNCHANGED <<kept, leaked, list, opened, count, page>>

(* Mutant of Renumber: the last row is moved up instead of the next. *)
RenumberFromEnd(ok) ==
  /\ menu = "renumber" /\ line < count
  /\ line' = line + 1
  /\ IF Cardinality(DOMAIN Rows) >= line
     THEN SetId(ok, line, NthId(DOMAIN Rows, Cardinality(DOMAIN Rows)))
     ELSE UNCHANGED local
  /\ UNCHANGED <<kept, leaked, menu, list, opened, count, page>>

(* The row on this line, if there is one, gets the number of the line. *)
Renumber(ok) ==
  /\ menu = "renumber" /\ line < count
  /\ line' = line + 1
  /\ IF Cardinality(DOMAIN Rows) >= line
     THEN SetId(ok, line, NthId(DOMAIN Rows, line))
     ELSE UNCHANGED local
  /\ UNCHANGED <<kept, leaked, menu, list, opened, count, page>>

(* Mutant of ResetSequence: the next row gets a number after the largest     *)
(* there ever was.                                                           *)
KeepSequence(ok) ==
  /\ menu = "renumber" /\ line >= count
  /\ Execute(ok, Rows, Top)
  /\ ShowMenu(list)
  /\ UNCHANGED <<kept, leaked, list, opened, line, page>>

(* delete from sqlite_sequence *)
ResetSequence(ok) ==
  /\ menu = "renumber" /\ line >= count
  /\ Execute(ok, Rows, 0)
  /\ ShowMenu(list)
  /\ UNCHANGED <<kept, leaked, list, opened, line, page>>

(* The function has returned, and its variables are gone. *)
CloseMenu ==
  /\ menu' = "closed"
  /\ opened' = Empty /\ count' = 0 /\ line' = 0 /\ page' = 1
  /\ list' = NoList

(* Mutant of Leave: nothing is sent. *)
LeaveUnsaved ==
  /\ menu = "choose"
  /\ CloseMenu
  /\ UNCHANGED <<local, kept, leaked>>

(* procUploadPersonalDBFile: the upload replaces the relay server's copy     *)
(* unless a handle is open on that.  Then remove and rename fail; neither    *)
(* result is looked at.                                                      *)
Store == kept' = IF leaked THEN kept ELSE local

(* uploadPersonalDBFile sends the database if its hash is another; the       *)
(* program goes on only when the relay server says that it is stored, which  *)
(* it says of every upload that arrived whole.                               *)
Leave ==
  /\ menu = "choose"
  /\ IF local = opened THEN UNCHANGED kept ELSE Store
  /\ CloseMenu
  /\ UNCHANGED <<local, leaked>>

ListStep ==
  \/ PreviousPage \/ NextPage \/ Leave
  \/ \E ok \in BOOLEAN :
       \/ \E e \in Entry : Add(ok, e) \/ \E n \in Id : Modify(ok, n, e)
       \/ \E n \in Id : DeleteRow(ok, n)
       \/ Renumber(ok) \/ ResetSequence(ok)

-----------------------------------------------------------------------------
(* Properties *)

Numbered(ids) == ids = 1 .. Cardinality(ids)

(* Whenever the menu is shown, and always on the server, the ids of a table  *)
(* are the numbers of its lines, over any sequence of additions and          *)
(* deletions and wherever the program was ended in the middle of one, unless *)
(* a statement failed (personalDBHelper.c:395-413, 760-778).                 *)
ListsAreNumbered ==
  \A l \in List :
    /\ ~kept.spoilt => Numbered(DOMAIN kept.rows[l])
    /\ menu = "choose" /\ ~local.spoilt => Numbered(DOMAIN local.rows[l])

(* The user's choice takes effect on the line it named and on no other: an   *)
(* addition comes last, a change keeps the other lines, a deletion moves the *)
(* lines behind it up in their order, and renumbering keeps the lines        *)
(* (personalDBHelper.c:334, 351, 399-412).                                   *)
ChosenLineOnly ==
  [][ menu # "closed" /\ ~local'.spoilt =>
      LET old == Lines(local, list)
          new == Lines(local', list)
      IN  /\ \A l \in List \ {list} : local'.rows[l] = local.rows[l]
          /\ CASE menu = "choose" /\ menu' = "renumber" -> new = RemoveAt(old, line')
               [] menu = "renumber" -> new = old
               [] OTHER -> \/ new = old
                           \/ \E e \in Entry : new = Append(old, e)
                           \/ \E e \in Entry : new = [old EXCEPT ![line'] = e] ]_listVars

==============================================================================
