-------------------------------- MODULE Client --------------------------------
(***************************************************************************)
(* The client program (DogeCloud.c, AuthHelper.c): one thread that goes    *)
(* from the main menu to the lists of contacts and memos (PersonalLists)   *)
(* or to the files (FilePages) and back.  The user has this one client.    *)
(* Whatever goes wrong on the network ends the program, as the user may at *)
(* any time.                                                               *)
(***************************************************************************)
EXTENDS PersonalLists, FilePages

VARIABLES
  program,    \* does it run?
  loginFlag

vars == <<listVars, fileVars, program, loginFlag>>
clientVars == <<program, loginFlag>>

TypeOK ==
  /\ ListsTypeOK
  /\ PagesTypeOK
  /\ program \in {"runs", "ended"}
  /\ loginFlag \in BOOLEAN

Init ==
  /\ ListsInit
  /\ PagesInit
  /\ program = "runs" /\ loginFlag = FALSE

InMainMenu == program = "runs" /\ menu = "closed" /\ filePc = "closed"

-----------------------------------------------------------------------------

(* downloadPersonalDBFile overwrites what an earlier run has left. *)
Download == local' = kept

(* userLogin or userRegister has been successful, and the personal database  *)
(* is downloaded.                                                            *)
LogIn ==
  /\ InMainMenu /\ ~loginFlag
  /\ loginFlag' = TRUE
  /\ Download
  /\ UNCHANGED <<kept, leaked, menu, list, opened, count, line, page, fileVars, program>>

(* The program ends in the download: by exit(1) when it breaks off or the    *)
(* hash is another, or killed.  The local file is as it was, cut short, or   *)
(* whole.  When the relay server's thread cannot send the file to its end,   *)
(* it returns without closing it.                                            *)
EndInLogIn ==
  /\ InMainMenu /\ ~loginFlag
  /\ program' = "ended"
  /\ leaked' \in {leaked, TRUE}
  /\ local' \in {local, Empty, kept}
  /\ UNCHANGED <<kept, menu, list, opened, count, line, page, fileVars, loginFlag>>

(* manageMemo, manageContacts *)
Manage(l) ==
  /\ InMainMenu /\ loginFlag
  /\ OpenList(l)
  /\ UNCHANGED <<fileVars, clientVars>>

(* The relay server has granted a place on the file server. *)
ManageFile ==
  /\ InMainMenu /\ loginFlag
  /\ OpenFileServer
  /\ UNCHANGED <<listVars, clientVars>>

(* userLogout *)
LogOut ==
  /\ InMainMenu /\ loginFlag
  /\ loginFlag' = FALSE
  /\ UNCHANGED <<listVars, fileVars, program>>

InLists == program = "runs" /\ ListStep /\ UNCHANGED <<fileVars, clientVars>>
InFiles == program = "runs" /\ FileStep /\ UNCHANGED <<listVars, clientVars>>

(* The program ends: by the menu, by exit(1) on an error, or killed.  An     *)
(* upload of the personal database may have been stored nevertheless.        *)
End ==
  /\ program = "runs"
  /\ program' = "ended" /\ loginFlag' = FALSE
  /\ \/ UNCHANGED kept
     \/ menu = "choose" /\ local # opened /\ Store
  /\ CloseMenu /\ UNCHANGED <<local, leaked>>
  /\ PagesClosed

Start ==
  /\ program = "ended"
  /\ program' = "runs"
  /\ UNCHANGED <<listVars, fileVars, loginFlag>>

(* The relay server is started again.  A program that was running has lost   *)
(* its connection and, as it cannot make another, comes to its end first.    *)
RestartRelayServer ==
  /\ program = "ended" /\ leaked
  /\ leaked' = FALSE
  /\ UNCHANGED <<local, kept, menu, list, opened, count, line, page, fileVars, clientVars>>

Next ==
  \/ LogIn \/ EndInLogIn \/ LogOut \/ ManageFile \/ End \/ Start \/ RestartRelayServer
  \/ \E l \in List : Manage(l)
  \/ InLists \/ InFiles

Spec == Init /\ [][Next]_vars

-----------------------------------------------------------------------------
(* Properties *)

(* In the main menu of a logged-in user the client's database is the one on  *)
(* the server, unless a login of an earlier run broke off and the relay      *)
(* server has been left with the file open: nothing that was edited waits to *)
(* be sent, an upload that was not acknowledged ends the program, and what   *)
(* an earlier run left in the file is replaced before it is used             *)
(* (personalDBHelper.c:57-92, 129-167).                                      *)
LocalIsKept == InMainMenu /\ loginFlag /\ ~leaked => local = kept

==============================================================================
