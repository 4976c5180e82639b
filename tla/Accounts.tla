------------------------------- MODULE Accounts -------------------------------
(***************************************************************************)
(* Registration and login on the relay server (sessionProcessor.c,         *)
(* MariaDBConnector.c, and the accounts table of DogeCloud.sql).           *)
(*                                                                         *)
(* The threads of all clients run their SQL statements on one handle,      *)
(* sqlHandle, without a lock.  A handle whose last result has not been     *)
(* read to its end or freed takes no other statement, and the program      *)
(* exits on every error of the database: on a statement at such a moment,  *)
(* and on an INSERT of a user name that exists.                            *)
(*                                                                         *)
(* Two threads inside the client library at the same moment is undefined;  *)
(* here both statements work, or the program exits.  ConnectionTable has   *)
(* what this module leaves out: the table the session is found in.         *)
(***************************************************************************)
EXTENDS Naturals, FiniteSets, Sequences

CONSTANTS
  Thread,   \* threads of the relay server, one per connection
  Name,     \* user names
  NoName

ASSUME NameAssumption == NoName \notin Name
ASSUME ThreadAssumption == IsFiniteSet(Thread)

VARIABLES
  accounts,    \* the user names of the table; an account's id is its index
  server,      \* is the relay server up, exited or killed?
  unread,      \* sqlHandle has a result that was not read or freed
  pc,          \* where each thread is in doLogin or doRegister
  name,        \* the user name it is working on
  uid,         \* the id it has read from the table, or 0
  session,     \* the userUID the server keeps for the connection, or 0
  client,      \* the user the client is logged in as
  registrants, \* how many clients were told that a name is registered as theirs
  mishap       \* what has happened since the server was started

serverVars == <<server, unread, mishap>>
threadVars == <<pc, name, uid>>
vars == <<accounts, serverVars, threadVars, session, client, registrants>>

Statements == {"check", "insert", "getid", "lookup"}
Answers == {"duplicate", "registered", "refused", "loggedIn"}

(* The UNIQUE key of the table. *)
UniqueNames == \A i, j \in DOMAIN accounts : accounts[i] = accounts[j] => i = j

TypeOK ==
  /\ accounts \in Seq(Name) /\ UniqueNames
  /\ server \in {"up", "exited", "killed"}
  /\ unread \in BOOLEAN
  /\ mishap \subseteq {"overlap", "broken"}
  /\ pc \in [Thread -> {"away", "serving", "session"} \cup Statements \cup Answers]
  /\ name \in [Thread -> Name \cup {NoName}]
  /\ uid \in [Thread -> 0 .. Len(accounts)]
  /\ session \in [Thread -> 0 .. Len(accounts)]
  /\ client \in [Thread -> Name \cup {NoName}]
  /\ registrants \in [Name -> Nat]

Init ==
  /\ accounts = <<>>
  /\ server = "up" /\ unread = FALSE /\ mishap = {}
  /\ pc = [t \in Thread |-> "away"]
  /\ name = [t \in Thread |-> NoName]
  /\ uid = [t \in Thread |-> 0]
  /\ session = [t \in Thread |-> 0]
  /\ client = [t \in Thread |-> NoName]
  /\ registrants = [n \in Name |-> 0]

Goto(t, label) == pc' = [pc EXCEPT ![t] = label]
Taken(n) == \E i \in DOMAIN accounts : accounts[i] = n
IdOf(n) == CHOOSE i \in DOMAIN accounts : accounts[i] = n

-----------------------------------------------------------------------------
(* The program ends, and with it every connection and the SQL handle.        *)

Stop(how) ==
  /\ server' = how
  /\ unread' = FALSE
  /\ pc' = [t \in Thread |-> "away"]
  /\ name' = [t \in Thread |-> NoName]
  /\ uid' = [t \in Thread |-> 0]
  /\ session' = [t \in Thread |-> 0]
  /\ client' = [t \in Thread |-> NoName]
  /\ UNCHANGED <<accounts, registrants, mishap>>

(* A statement fails for certain while a result is unread, and may fail      *)
(* while another thread is at a statement of its own.                        *)
StatementFails(t) ==
  /\ pc[t] \in Statements
  /\ unread \/ \E s \in Thread \ {t} : pc[s] \in Statements
  /\ Stop("exited")

Kill == server = "up" /\ Stop("killed")

Restart ==
  /\ server # "up"
  /\ server' = "up" /\ mishap' = {}
  /\ UNCHANGED <<accounts, unread, threadVars, session, client, registrants>>

-----------------------------------------------------------------------------
(* Clients *)

Arrive(t) ==
  /\ server = "up" /\ pc[t] = "away"
  /\ Goto(t, "serving")
  /\ UNCHANGED <<accounts, serverVars, name, uid, session, client, registrants>>

(* The thread ends and its slot is cleared. *)
Hangup(t) ==
  /\ name' = [name EXCEPT ![t] = NoName]
  /\ uid' = [uid EXCEPT ![t] = 0]
  /\ session' = [session EXCEPT ![t] = 0]
  /\ client' = [client EXCEPT ![t] = NoName]
  /\ Goto(t, "away")

Leave(t) ==
  /\ pc[t] = "serving"
  /\ Hangup(t)
  /\ UNCHANGED <<accounts, serverVars, registrants>>

(* The client forgets its session; the server keeps it. *)
procLogout(t) ==
  /\ pc[t] = "serving" /\ client[t] # NoName
  /\ client' = [client EXCEPT ![t] = NoName]
  /\ UNCHANGED <<accounts, serverVars, threadVars, session, registrants>>

(* A client that is not logged in sends a user name to register or to log in *)
(* with.                                                                     *)
Request(t, n, label) ==
  /\ pc[t] = "serving" /\ client[t] = NoName
  /\ name' = [name EXCEPT ![t] = n]
  /\ uid' = [uid EXCEPT ![t] = 0]
  /\ Goto(t, label)
  /\ mishap' = IF \E s \in Thread : pc[s] \notin {"away", "serving"}
               THEN mishap \cup {"overlap"} ELSE mishap
  /\ UNCHANGED <<accounts, server, unread, session, client, registrants>>

procRegisterStart(t, n) == Request(t, n, "check")
procLoginStart(t, n) == Request(t, n, "lookup")

-----------------------------------------------------------------------------
(* doRegister *)

(* The result of the count stays unread until the answer is sent, or is      *)
(* freed at once.                                                            *)
CheckDuplicate(t) ==
  /\ pc[t] = "check" /\ ~unread
  /\ unread' = Taken(name[t])
  /\ Goto(t, IF Taken(name[t]) THEN "duplicate" ELSE "insert")
  /\ UNCHANGED <<accounts, server, mishap, name, uid, session, client, registrants>>

(* Mutants of InsertAccount: no UNIQUE key on the name; INSERT IGNORE.       *)
InsertWithoutKey(t) ==
  /\ pc[t] = "insert" /\ ~unread
  /\ accounts' = Append(accounts, name[t])
  /\ Goto(t, "getid")
  /\ UNCHANGED <<serverVars, name, uid, session, client, registrants>>

InsertOrIgnore(t) ==
  /\ pc[t] = "insert" /\ ~unread
  /\ accounts' = IF Taken(name[t]) THEN accounts ELSE Append(accounts, name[t])
  /\ Goto(t, "getid")
  /\ UNCHANGED <<serverVars, name, uid, session, client, registrants>>

(* username is UNIQUE: when another thread has registered the name since it  *)
(* was counted, the INSERT fails and the program exits.                      *)
InsertAccount(t) ==
  /\ pc[t] = "insert" /\ ~unread
  /\ IF Taken(name[t])
     THEN Stop("exited")
     ELSE /\ accounts' = Append(accounts, name[t])
          /\ Goto(t, "getid")
          /\ UNCHANGED <<serverVars, name, uid, session, client, registrants>>

(* Mutant of SelectId: the newest id is taken for one's own. *)
SelectNewestId(t) ==
  /\ pc[t] = "getid" /\ ~unread
  /\ uid' = [uid EXCEPT ![t] = Len(accounts)]
  /\ unread' = TRUE
  /\ Goto(t, "session")
  /\ UNCHANGED <<accounts, server, mishap, name, session, client, registrants>>

SelectId(t) ==
  /\ pc[t] = "getid" /\ ~unread
  /\ uid' = [uid EXCEPT ![t] = IdOf(name[t])]
  /\ unread' = TRUE
  /\ Goto(t, "session")
  /\ UNCHANGED <<accounts, server, mishap, name, session, client, registrants>>

(* Under the mutex. *)
SetSession(t) ==
  /\ pc[t] = "session"
  /\ session' = [session EXCEPT ![t] = uid[t]]
  /\ Goto(t, "registered")
  /\ UNCHANGED <<accounts, serverVars, name, uid, client, registrants>>

-----------------------------------------------------------------------------
(* doLogin: name and password are looked up; with a result in hand the       *)
(* session is set and the result left unread until the answer is sent.       *)

Lookup(t) ==
  /\ pc[t] = "lookup" /\ ~unread
  /\ unread' = TRUE
  /\ \E passwordIsRight \in {Taken(name[t]), FALSE} :
       IF passwordIsRight
       THEN /\ uid' = [uid EXCEPT ![t] = IdOf(name[t])]
            /\ session' = [session EXCEPT ![t] = IdOf(name[t])]
            /\ Goto(t, "loggedIn")
       ELSE /\ Goto(t, "refused")
            /\ UNCHANGED <<uid, session>>
  /\ UNCHANGED <<accounts, server, mishap, name, client, registrants>>

-----------------------------------------------------------------------------

(* The client takes a name it has registered, or logged in with, for its own. *)
TellClient(t) ==
  /\ client' = IF pc[t] \in {"registered", "loggedIn"}
               THEN [client EXCEPT ![t] = name[t]] ELSE client
  /\ registrants' = IF pc[t] = "registered"
                    THEN [registrants EXCEPT ![name[t]] = @ + 1] ELSE registrants

(* Mutant of Answer: the result is not freed. *)
AnswerWithoutFree(t) ==
  /\ pc[t] \in Answers
  /\ TellClient(t)
  /\ Goto(t, "serving")
  /\ UNCHANGED <<accounts, server, unread, mishap, name, uid, session>>

(* The client is told, and the result is freed, or closed with its statement. *)
Answer(t) ==
  /\ pc[t] \in Answers
  /\ TellClient(t)
  /\ unread' = FALSE
  /\ Goto(t, "serving")
  /\ UNCHANGED <<accounts, server, mishap, name, uid, session>>

(* The client has gone: sendData returns from the handler, and the result    *)
(* stays unread for ever.                                                    *)
AnswerBreaks(t) ==
  /\ pc[t] \in Answers
  /\ mishap' = mishap \cup {"broken"}
  /\ Hangup(t)
  /\ UNCHANGED <<accounts, server, unread, registrants>>

RegisterStep(t) == CheckDuplicate(t) \/ InsertAccount(t) \/ SelectId(t) \/ SetSession(t)

Next ==
  \/ \E t \in Thread :
       \/ Arrive(t) \/ Leave(t) \/ procLogout(t)
       \/ \E n \in Name : procRegisterStart(t, n) \/ procLoginStart(t, n)
       \/ RegisterStep(t) \/ Lookup(t)
       \/ Answer(t) \/ AnswerBreaks(t) \/ StatementFails(t)
  \/ Kill \/ Restart

Spec == Init /\ [][Next]_vars

-----------------------------------------------------------------------------
(* Properties *)

(* A client that is logged in as a user has the session of that user's       *)
(* account, however registrations and logins interleave on the handle        *)
(* (sessionProcessor.c:147-154, 384-391).                                    *)
SessionIsOwn ==
  \A t \in Thread : client[t] # NoName => session[t] # 0 /\ accounts[session[t]] = client[t]

(* Two clients registering one name at once are not both told that it is     *)
(* theirs, although the name is counted and inserted in two statements.      *)
OneRegistrant == \A n \in Name : registrants[n] <= 1

(* The relay server does not exit of itself as long as no two requests       *)
(* overlap and no answer breaks off: each way through a handler leaves the   *)
(* shared handle ready for the next statement.                               *)
ServerStaysUp == mishap = {} => server # "exited"

==============================================================================
