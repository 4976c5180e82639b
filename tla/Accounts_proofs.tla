---------------------------- MODULE Accounts_proofs ----------------------------
(***************************************************************************)
(* However the registrations and logins of any number of clients           *)
(* interleave on the one SQL handle: everybody gets the session of the     *)
(* account they named, a name is registered for one client, and what ends  *)
(* the relay server is an overlap or a broken answer.                      *)
(***************************************************************************)
EXTENDS Accounts, SequenceTheorems, TLAPS

Busy(t) == pc[t] \notin {"away", "serving"}

(* What a thread has read from the table is still so: accounts stay.         *)
HandlersAreSound ==
  \A t \in Thread :
    /\ Busy(t) => name[t] \in Name /\ client[t] = NoName
    /\ pc[t] \in {"getid", "session", "registered"} => Taken(name[t])
    /\ pc[t] = "session" => uid[t] # 0 /\ accounts[uid[t]] = name[t]
    /\ pc[t] \in {"registered", "loggedIn"} =>
         session[t] # 0 /\ accounts[session[t]] = name[t]

(* Behind OneRegistrant: whoever inserted a name is the only one, and nobody *)
(* was told yet that it is theirs.                                           *)
Inserted(t, n) == pc[t] \in {"getid", "session", "registered"} /\ name[t] = n
NamesAreClaimedOnce ==
  \A n \in Name :
    /\ ~Taken(n) => registrants[n] = 0
    /\ \A t \in Thread : Inserted(t, n) =>
         registrants[n] = 0 /\ \A s \in Thread : Inserted(s, n) => s = t

(* Behind ServerStaysUp: a result is unread only between the handler's last  *)
(* statement and its answer, and a name counted as free is free.             *)
Reading == {"duplicate", "session", "registered", "refused", "loggedIn"}
HandleIsReady ==
  mishap = {} =>
    /\ \A s, t \in Thread : Busy(s) /\ Busy(t) => s = t
    /\ unread => \E t \in Thread : pc[t] \in Reading
    /\ \A t \in Thread : pc[t] = "insert" => ~Taken(name[t])

DownIsEmpty == server # "up" => ~unread /\ \A t \in Thread : pc[t] = "away"

AccountsInvariant ==
  /\ TypeOK /\ SessionIsOwn /\ OneRegistrant /\ ServerStaysUp
  /\ HandlersAreSound /\ NamesAreClaimedOnce /\ HandleIsReady /\ DownIsEmpty

LEMMA InitInvariant == Init => AccountsInvariant
<1> SUFFICES ASSUME Init
             PROVE  AccountsInvariant
  OBVIOUS
<1>1. TypeOK
  <2>1. accounts \in Seq(Name) /\ Len(accounts) = 0 /\ UniqueNames
    BY EmptySeq DEF Init, UniqueNames
  <2>2. 0 \in 0 .. Len(accounts)
    BY <2>1
  <2>3. mishap \subseteq {"overlap", "broken"}
    BY DEF Init
  <2> QED
    BY <2>1, <2>2, <2>3 DEF Init, TypeOK
<1> QED
  BY <1>1 DEF Init, AccountsInvariant, SessionIsOwn, OneRegistrant, ServerStaysUp,
     HandlersAreSound, NamesAreClaimedOnce, Inserted, HandleIsReady, DownIsEmpty, Busy

(* Looking up a name that is in the table gives an id under which it is.     *)
LEMMA IdOfTaken ==
  ASSUME NEW n, Taken(n)
  PROVE  IdOf(n) \in DOMAIN accounts /\ accounts[IdOf(n)] = n
BY DEF Taken, IdOf

(* The end of the program: nobody is served, nothing is read.                *)
LEMMA StopPreserves ==
  ASSUME AccountsInvariant, NEW how \in {"exited", "killed"}, Stop(how),
         how = "exited" => mishap # {}
  PROVE  AccountsInvariant'
<1>1. TypeOK'
  <2>1. accounts \in Seq(Name) /\ UniqueNames /\ registrants \in [Name -> Nat]
        /\ mishap \subseteq {"overlap", "broken"}
    BY DEF AccountsInvariant, TypeOK
  <2>2. 0 \in 0 .. Len(accounts)
    BY <2>1, LenProperties
  <2> QED
    BY <2>1, <2>2 DEF TypeOK, UniqueNames, Stop
<1>2. SessionIsOwn' /\ OneRegistrant' /\ ServerStaysUp'
  BY DEF AccountsInvariant, TypeOK, Stop, SessionIsOwn, OneRegistrant, ServerStaysUp
<1>3. HandlersAreSound' /\ NamesAreClaimedOnce'
  BY DEF AccountsInvariant, TypeOK, Stop, HandlersAreSound, NamesAreClaimedOnce, Inserted,
     Busy, Taken
<1>4. HandleIsReady' /\ DownIsEmpty'
  BY DEF AccountsInvariant, TypeOK, Stop, HandleIsReady, DownIsEmpty, Busy, Taken
<1> QED
  BY <1>1, <1>2, <1>3, <1>4 DEF AccountsInvariant

(* A statement fails only after two requests overlapped, or while the result *)
(* of a broken answer is unread.                                             *)
LEMMA FailurePreserves ==
  ASSUME AccountsInvariant, NEW t \in Thread, StatementFails(t)
  PROVE  AccountsInvariant'
<1>1. mishap # {}
  <2>1. Busy(t)
    BY DEF StatementFails, Statements, Busy
  <2>2. CASE unread
    BY <2>1, <2>2 DEF AccountsInvariant, HandleIsReady, StatementFails, Statements, Reading, Busy
  <2>3. CASE \E s \in Thread \ {t} : pc[s] \in Statements
    BY <2>1, <2>3 DEF AccountsInvariant, HandleIsReady, Statements, Busy
  <2> QED
    BY <2>2, <2>3 DEF StatementFails
<1> QED
  BY <1>1, StopPreserves DEF StatementFails

LEMMA RestartPreserves ==
  ASSUME AccountsInvariant, Restart
  PROVE  AccountsInvariant'
<1> USE DEF Restart, threadVars
<1>1. TypeOK'
  BY DEF AccountsInvariant, TypeOK, UniqueNames
<1>2. SessionIsOwn' /\ OneRegistrant' /\ ServerStaysUp' /\ DownIsEmpty'
  BY DEF AccountsInvariant, TypeOK, SessionIsOwn, OneRegistrant, ServerStaysUp, DownIsEmpty
<1>3. HandlersAreSound' /\ NamesAreClaimedOnce'
  BY DEF AccountsInvariant, HandlersAreSound, NamesAreClaimedOnce, Inserted, Busy, Taken
<1>4. HandleIsReady'
  BY DEF AccountsInvariant, HandleIsReady, DownIsEmpty, Busy, Taken
<1> QED
  BY <1>1, <1>2, <1>3, <1>4 DEF AccountsInvariant

(* Clients that come, go, log out or ask: no account is touched.             *)
LEMMA ClientPreserves ==
  ASSUME AccountsInvariant, NEW t \in Thread,
         \/ Arrive(t) \/ Leave(t) \/ procLogout(t)
         \/ \E n \in Name : procRegisterStart(t, n) \/ procLoginStart(t, n)
  PROVE  AccountsInvariant'
<1> USE NameAssumption DEF serverVars, threadVars, Goto
<1>1. CASE Arrive(t)
  <2>1. TypeOK'
    BY <1>1 DEF AccountsInvariant, TypeOK, UniqueNames, Arrive
  <2>2. SessionIsOwn' /\ OneRegistrant' /\ ServerStaysUp' /\ DownIsEmpty'
    BY <1>1 DEF AccountsInvariant, TypeOK, Arrive, SessionIsOwn, OneRegistrant, ServerStaysUp,
       DownIsEmpty
  <2>3. HandlersAreSound' /\ NamesAreClaimedOnce'
    BY <1>1 DEF AccountsInvariant, TypeOK, Arrive, HandlersAreSound, NamesAreClaimedOnce,
       Inserted, Busy, Taken
  <2>4. HandleIsReady'
    BY <1>1 DEF AccountsInvariant, TypeOK, Arrive, HandleIsReady, Busy, Taken, Reading
  <2> QED
    BY <2>1, <2>2, <2>3, <2>4 DEF AccountsInvariant
<1>2. CASE Leave(t)
  <2>1. TypeOK'
    BY <1>2 DEF AccountsInvariant, TypeOK, UniqueNames, Leave, Hangup
  <2>2. SessionIsOwn' /\ OneRegistrant' /\ ServerStaysUp' /\ DownIsEmpty'
    BY <1>2 DEF AccountsInvariant, TypeOK, Leave, Hangup, SessionIsOwn, OneRegistrant,
       ServerStaysUp, DownIsEmpty
  <2>3. HandlersAreSound' /\ NamesAreClaimedOnce'
    BY <1>2 DEF AccountsInvariant, TypeOK, Leave, Hangup, HandlersAreSound,
       NamesAreClaimedOnce, Inserted, Busy, Taken
  <2>4. HandleIsReady'
    BY <1>2 DEF AccountsInvariant, TypeOK, Leave, Hangup, HandleIsReady, Busy, Taken, Reading
  <2> QED
    BY <2>1, <2>2, <2>3, <2>4 DEF AccountsInvariant
<1>3. CASE procLogout(t)
  <2>1. TypeOK'
    BY <1>3 DEF AccountsInvariant, TypeOK, UniqueNames, procLogout
  <2>2. SessionIsOwn' /\ OneRegistrant' /\ ServerStaysUp' /\ DownIsEmpty'
    BY <1>3 DEF AccountsInvariant, TypeOK, procLogout, SessionIsOwn, OneRegistrant,
       ServerStaysUp, DownIsEmpty
  <2>3. HandlersAreSound' /\ NamesAreClaimedOnce' /\ HandleIsReady'
    BY <1>3 DEF AccountsInvariant, TypeOK, procLogout, HandlersAreSound,
       NamesAreClaimedOnce, Inserted, HandleIsReady, Busy, Taken
  <2> QED
    BY <2>1, <2>2, <2>3 DEF AccountsInvariant
<1>4. ASSUME NEW n \in Name, NEW label \in {"check", "lookup"}, Request(t, n, label)
      PROVE  AccountsInvariant'
  <2>1. mishap' \subseteq {"overlap", "broken"}
    BY <1>4 DEF AccountsInvariant, TypeOK, Request
  <2>2. TypeOK'
    BY <1>4, <2>1 DEF AccountsInvariant, TypeOK, UniqueNames, Request, Statements
  <2>3. SessionIsOwn' /\ OneRegistrant' /\ ServerStaysUp' /\ DownIsEmpty'
    BY <1>4 DEF AccountsInvariant, TypeOK, Request, SessionIsOwn, OneRegistrant,
       ServerStaysUp, DownIsEmpty
  <2>4. HandlersAreSound' /\ NamesAreClaimedOnce'
    BY <1>4 DEF AccountsInvariant, TypeOK, Request, HandlersAreSound, NamesAreClaimedOnce,
       Inserted, Busy, Taken
  <2>5. HandleIsReady'
    <3> SUFFICES ASSUME mishap' = {}
                 PROVE  HandleIsReady'
      BY DEF HandleIsReady
    <3>1. mishap = {} /\ \A s \in Thread : ~Busy(s)
      BY <1>4 DEF Request, Busy
    <3> QED
      BY <1>4, <3>1 DEF AccountsInvariant, TypeOK, Request, HandleIsReady, Busy, Reading
  <2> QED
    BY <2>2, <2>3, <2>4, <2>5 DEF AccountsInvariant
<1> QED
  BY <1>1, <1>2, <1>3, <1>4 DEF procRegisterStart, procLoginStart

(* What reads the table, and the session under the mutex.                    *)
LEMMA ReadPreserves ==
  ASSUME AccountsInvariant, NEW t \in Thread,
         CheckDuplicate(t) \/ SelectId(t) \/ SetSession(t) \/ Lookup(t)
  PROVE  AccountsInvariant'
<1> USE NameAssumption DEF serverVars, Goto
<1>1. CASE CheckDuplicate(t)
  <2>1. TypeOK'
    BY <1>1 DEF AccountsInvariant, TypeOK, UniqueNames, CheckDuplicate, Statements, Answers, Taken
  <2>2. SessionIsOwn' /\ OneRegistrant' /\ ServerStaysUp' /\ DownIsEmpty'
    BY <1>1 DEF AccountsInvariant, TypeOK, CheckDuplicate, SessionIsOwn, OneRegistrant,
       ServerStaysUp, DownIsEmpty
  <2>3. HandlersAreSound' /\ NamesAreClaimedOnce'
    BY <1>1 DEF AccountsInvariant, TypeOK, CheckDuplicate, HandlersAreSound,
       NamesAreClaimedOnce, Inserted, Busy, Taken
  <2>4. HandleIsReady'
    BY <1>1 DEF AccountsInvariant, TypeOK, CheckDuplicate, HandleIsReady, Busy, Taken, Reading
  <2> QED
    BY <2>1, <2>2, <2>3, <2>4 DEF AccountsInvariant
<1>2. CASE SelectId(t)
  <2>1. IdOf(name[t]) \in 1 .. Len(accounts) /\ accounts[IdOf(name[t])] = name[t]
    <3>1. Taken(name[t])
      BY <1>2 DEF AccountsInvariant, HandlersAreSound, SelectId
    <3> QED
      BY <3>1, IdOfTaken DEF AccountsInvariant, TypeOK
  <2>2. TypeOK'
    BY <1>2, <2>1 DEF AccountsInvariant, TypeOK, UniqueNames, SelectId
  <2>3. SessionIsOwn' /\ OneRegistrant' /\ ServerStaysUp' /\ DownIsEmpty'
    BY <1>2 DEF AccountsInvariant, TypeOK, SelectId, SessionIsOwn, OneRegistrant,
       ServerStaysUp, DownIsEmpty
  <2>4. HandlersAreSound' /\ NamesAreClaimedOnce'
    BY <1>2, <2>1 DEF AccountsInvariant, TypeOK, SelectId, HandlersAreSound,
       NamesAreClaimedOnce, Inserted, Busy, Taken
  <2>5. HandleIsReady'
    BY <1>2 DEF AccountsInvariant, TypeOK, SelectId, HandleIsReady, Busy, Taken, Reading
  <2> QED
    BY <2>2, <2>3, <2>4, <2>5 DEF AccountsInvariant
<1>3. CASE SetSession(t)
  <2>1. TypeOK'
    BY <1>3 DEF AccountsInvariant, TypeOK, UniqueNames, SetSession, Answers
  <2>2. OneRegistrant' /\ ServerStaysUp' /\ DownIsEmpty'
    BY <1>3 DEF AccountsInvariant, TypeOK, SetSession, OneRegistrant, ServerStaysUp, DownIsEmpty
  <2>3. SessionIsOwn'
    BY <1>3 DEF AccountsInvariant, TypeOK, SetSession, SessionIsOwn, HandlersAreSound, Busy
  <2>4. HandlersAreSound' /\ NamesAreClaimedOnce'
    BY <1>3 DEF AccountsInvariant, TypeOK, SetSession, HandlersAreSound,
       NamesAreClaimedOnce, Inserted, Busy, Taken
  <2>5. HandleIsReady'
    BY <1>3 DEF AccountsInvariant, TypeOK, SetSession, HandleIsReady, Busy, Taken, Reading
  <2> QED
    BY <2>1, <2>2, <2>3, <2>4, <2>5 DEF AccountsInvariant
<1>4. CASE Lookup(t)
  <2>1. CASE Taken(name[t]) /\ uid' = [uid EXCEPT ![t] = IdOf(name[t])]
             /\ session' = [session EXCEPT ![t] = IdOf(name[t])]
             /\ pc' = [pc EXCEPT ![t] = "loggedIn"]
    <3>1. IdOf(name[t]) \in 1 .. Len(accounts) /\ accounts[IdOf(name[t])] = name[t]
      BY <2>1, IdOfTaken DEF AccountsInvariant, TypeOK
    <3>2. TypeOK'
      BY <1>4, <2>1, <3>1 DEF AccountsInvariant, TypeOK, UniqueNames, Lookup, Answers
    <3>3. OneRegistrant' /\ ServerStaysUp' /\ DownIsEmpty'
      BY <1>4, <2>1 DEF AccountsInvariant, TypeOK, Lookup, OneRegistrant, ServerStaysUp, DownIsEmpty
    <3>4. SessionIsOwn'
      BY <1>4, <2>1 DEF AccountsInvariant, TypeOK, Lookup, SessionIsOwn, HandlersAreSound, Busy
    <3>5. HandlersAreSound' /\ NamesAreClaimedOnce'
      <4>1. IdOf(name[t]) # 0
        BY <3>1
      <4>2. \A n : Taken(n)' <=> Taken(n)
        BY <1>4 DEF Lookup, Taken
      <4>3. HandlersAreSound'
        BY <1>4, <2>1, <3>1, <4>1, <4>2 DEF AccountsInvariant, TypeOK, Lookup,
           HandlersAreSound, Busy
      <4>4. NamesAreClaimedOnce'
        BY <1>4, <2>1, <4>2 DEF AccountsInvariant, TypeOK, Lookup, NamesAreClaimedOnce,
           Inserted
      <4> QED
        BY <4>3, <4>4
    <3>6. HandleIsReady'
      BY <1>4, <2>1 DEF AccountsInvariant, TypeOK, Lookup, HandleIsReady, Busy, Taken, Reading
    <3> QED
      BY <3>2, <3>3, <3>4, <3>5, <3>6 DEF AccountsInvariant
  <2>2. CASE pc' = [pc EXCEPT ![t] = "refused"] /\ UNCHANGED <<uid, session>>
    <3>1. TypeOK'
      BY <1>4, <2>2 DEF AccountsInvariant, TypeOK, UniqueNames, Lookup, Answers
    <3>2. SessionIsOwn' /\ OneRegistrant' /\ ServerStaysUp' /\ DownIsEmpty'
      BY <1>4, <2>2 DEF AccountsInvariant, TypeOK, Lookup, SessionIsOwn, OneRegistrant,
         ServerStaysUp, DownIsEmpty
    <3>3. HandlersAreSound' /\ NamesAreClaimedOnce'
      BY <1>4, <2>2 DEF AccountsInvariant, TypeOK, Lookup, HandlersAreSound,
         NamesAreClaimedOnce, Inserted, Busy, Taken
    <3>4. HandleIsReady'
      BY <1>4, <2>2 DEF AccountsInvariant, TypeOK, Lookup, HandleIsReady, Busy, Taken, Reading
    <3> QED
      BY <3>1, <3>2, <3>3, <3>4 DEF AccountsInvariant
  <2> QED
    BY <1>4, <2>1, <2>2 DEF Lookup
<1> QED
  BY <1>1, <1>2, <1>3, <1>4

(* The insertion: a new account behind the others, or the end of the program *)
(* when the name was registered since it was counted, which takes another    *)
(* thread.                                                                   *)
LEMMA InsertPreserves ==
  ASSUME AccountsInvariant, NEW t \in Thread, InsertAccount(t)
  PROVE  AccountsInvariant'
<1> USE NameAssumption DEF serverVars, Goto
<1>1. CASE Taken(name[t])
  <2>1. mishap # {} /\ Stop("exited")
    BY <1>1 DEF AccountsInvariant, HandleIsReady, InsertAccount
  <2> QED
    BY <2>1, StopPreserves
<1>2. CASE ~Taken(name[t])
  <2> DEFINE last == Len(accounts) + 1
  <2>1. accounts' = Append(accounts, name[t]) /\ pc[t] = "insert" /\ ~unread
        /\ pc' = [pc EXCEPT ![t] = "getid"]
        /\ UNCHANGED <<server, unread, mishap, name, uid, session, client, registrants>>
    BY <1>2 DEF InsertAccount
  <2>2. name[t] \in Name /\ accounts \in Seq(Name)
    BY <2>1 DEF AccountsInvariant, TypeOK, HandlersAreSound, Busy
  <2>3. /\ accounts' \in Seq(Name)
        /\ Len(accounts') = last
        /\ \A i \in 1 .. Len(accounts) : accounts'[i] = accounts[i]
        /\ accounts'[last] = name[t]
    BY <2>1, <2>2, AppendProperties
  <2>4. /\ Len(accounts) \in Nat
        /\ DOMAIN accounts = 1 .. Len(accounts) /\ DOMAIN accounts' = 1 .. last
    BY <2>2, <2>3, LenProperties
  <2> HIDE DEF last
  <2>5. UniqueNames'
    <3> SUFFICES ASSUME NEW i \in 1 .. last, NEW j \in 1 .. last,
                        accounts'[i] = accounts'[j]
                 PROVE  i = j
      BY <2>4 DEF UniqueNames
    <3>1. \A k \in 1 .. last : k = last \/ k \in 1 .. Len(accounts)
      BY <2>4 DEF last
    <3>2. \A k \in 1 .. Len(accounts) : accounts'[k] # name[t]
      BY <1>2, <2>3, <2>4 DEF Taken
    <3>3. \A k, m \in 1 .. Len(accounts) : accounts[k] = accounts[m] => k = m
      BY <2>4 DEF AccountsInvariant, TypeOK, UniqueNames
    <3> QED
      BY <2>3, <3>1, <3>2, <3>3
  <2>6. \A n : Taken(n)' <=> Taken(n) \/ n = name[t]
    BY <2>3, <2>4 DEF Taken, last
  <2>7. TypeOK'
    <3>1. 0 .. Len(accounts) \subseteq 0 .. Len(accounts')
      BY <2>3, <2>4 DEF last
    <3> QED
      BY <2>1, <2>3, <2>5, <3>1 DEF AccountsInvariant, TypeOK, Statements
  <2>8. SessionIsOwn'
    BY <2>1, <2>3, <2>4 DEF AccountsInvariant, TypeOK, SessionIsOwn
  <2>9. OneRegistrant' /\ ServerStaysUp' /\ DownIsEmpty'
    BY <2>1 DEF AccountsInvariant, TypeOK, OneRegistrant, ServerStaysUp, DownIsEmpty
  <2>10. HandlersAreSound'
    BY <2>1, <2>3, <2>4, <2>6 DEF AccountsInvariant, TypeOK, HandlersAreSound, Busy
  <2>11. NamesAreClaimedOnce'
    <3>1. \A s \in Thread : pc[s] \in {"getid", "session", "registered"} => name[s] # name[t]
      BY <1>2 DEF AccountsInvariant, HandlersAreSound
    <3>2. registrants[name[t]] = 0
      BY <1>2, <2>2 DEF AccountsInvariant, NamesAreClaimedOnce
    <3> QED
      BY <2>1, <2>6, <3>1, <3>2 DEF AccountsInvariant, TypeOK, NamesAreClaimedOnce, Inserted
  <2>12. HandleIsReady'
    BY <2>1, <2>6 DEF AccountsInvariant, TypeOK, HandleIsReady, Busy, Reading
  <2> QED
    BY <2>7, <2>8, <2>9, <2>10, <2>11, <2>12 DEF AccountsInvariant
<1> QED
  BY <1>1, <1>2

(* Answers: the client takes the session the handler set for it; a broken    *)
(* one is the mishap that leaves the result unread.                          *)
LEMMA AnswerPreserves ==
  ASSUME AccountsInvariant, NEW t \in Thread, Answer(t) \/ AnswerBreaks(t)
  PROVE  AccountsInvariant'
<1> USE NameAssumption DEF Goto
<1>1. Busy(t)
  BY DEF Answer, AnswerBreaks, Answers, Busy
<1>2. CASE Answer(t)
  <2>1. name[t] \in Name
    BY <1>1 DEF AccountsInvariant, HandlersAreSound
  <2>2. registrants' \in [Name -> Nat] /\ OneRegistrant' /\ NamesAreClaimedOnce'
    <3>1. CASE pc[t] = "registered"
      <4>1. registrants[name[t]] = 0 /\ Taken(name[t])
        BY <2>1, <3>1 DEF AccountsInvariant, NamesAreClaimedOnce, Inserted, HandlersAreSound
      <4>2. registrants' = [registrants EXCEPT ![name[t]] = 1]
        BY <1>2, <3>1, <4>1 DEF Answer, TellClient
      <4> QED
        BY <1>2, <2>1, <3>1, <4>1, <4>2 DEF AccountsInvariant, TypeOK, Answer, OneRegistrant,
           NamesAreClaimedOnce, Inserted, Taken
    <3>2. CASE pc[t] # "registered"
      <4>1. registrants' = registrants
        BY <1>2, <3>2 DEF Answer, TellClient
      <4> QED
        BY <1>2, <4>1 DEF AccountsInvariant, TypeOK, Answer, OneRegistrant,
           NamesAreClaimedOnce, Inserted, Taken
    <3> QED
      BY <3>1, <3>2
  <2>3. client' \in {client, [client EXCEPT ![t] = name[t]]}
    BY <1>2 DEF Answer, TellClient
  <2>4. TypeOK'
    BY <1>2, <2>1, <2>2, <2>3 DEF AccountsInvariant, TypeOK, UniqueNames, Answer
  <2>5. SessionIsOwn'
    BY <1>2 DEF AccountsInvariant, TypeOK, Answer, TellClient, SessionIsOwn, HandlersAreSound
  <2>6. ServerStaysUp' /\ DownIsEmpty'
    BY <1>1, <1>2 DEF AccountsInvariant, TypeOK, Answer, ServerStaysUp, DownIsEmpty, Busy
  <2>7. HandlersAreSound'
    BY <1>2, <2>3 DEF AccountsInvariant, TypeOK, Answer, HandlersAreSound, Busy, Taken
  <2>8. HandleIsReady'
    BY <1>2 DEF AccountsInvariant, TypeOK, Answer, HandleIsReady, Busy, Taken
  <2> QED
    BY <2>2, <2>4, <2>5, <2>6, <2>7, <2>8 DEF AccountsInvariant
<1>3. CASE AnswerBreaks(t)
  <2>1. TypeOK'
    BY <1>3 DEF AccountsInvariant, TypeOK, UniqueNames, AnswerBreaks, Hangup
  <2>2. SessionIsOwn' /\ OneRegistrant' /\ ServerStaysUp' /\ DownIsEmpty'
    BY <1>1, <1>3 DEF AccountsInvariant, TypeOK, AnswerBreaks, Hangup, SessionIsOwn,
       OneRegistrant, ServerStaysUp, DownIsEmpty, Busy
  <2>3. HandlersAreSound' /\ NamesAreClaimedOnce'
    BY <1>3 DEF AccountsInvariant, TypeOK, AnswerBreaks, Hangup, HandlersAreSound,
       NamesAreClaimedOnce, Inserted, Busy, Taken
  <2>4. HandleIsReady'
    BY <1>3 DEF AnswerBreaks, HandleIsReady
  <2> QED
    BY <2>1, <2>2, <2>3, <2>4 DEF AccountsInvariant
<1> QED
  BY <1>2, <1>3

LEMMA AccountsInvariantHolds == Spec => []AccountsInvariant
<1>1. Init => AccountsInvariant
  BY InitInvariant
<1>2. AccountsInvariant /\ [Next]_vars => AccountsInvariant'
  <2> SUFFICES ASSUME AccountsInvariant, [Next]_vars
               PROVE  AccountsInvariant'
    OBVIOUS
  <2>1. CASE UNCHANGED vars
    BY <2>1 DEF vars, serverVars, threadVars, AccountsInvariant, TypeOK, UniqueNames,
       SessionIsOwn, OneRegistrant, ServerStaysUp, HandlersAreSound, NamesAreClaimedOnce,
       Inserted, HandleIsReady, DownIsEmpty, Busy, Taken
  <2>2. CASE Kill
    BY <2>2, StopPreserves DEF Kill
  <2> QED
    BY <2>1, <2>2, RestartPreserves, FailurePreserves, ClientPreserves, ReadPreserves,
       InsertPreserves, AnswerPreserves DEF Next, RegisterStep
<1> QED
  BY <1>1, <1>2, PTL DEF Spec

(* The table has no name twice, and every id in use is one of its ids: no    *)
(* handler loses or reorders accounts.                                       *)
THEOREM TypeCorrect == Spec => []TypeOK
<1>1. AccountsInvariant => TypeOK
  BY DEF AccountsInvariant
<1> QED
  BY <1>1, AccountsInvariantHolds, PTL

(* A client that is logged in has the session of the account it named        *)
(* (sessionProcessor.c:147-154, 384-391), for any number of threads on the   *)
(* one handle.                                                               *)
THEOREM SessionIsOwnAlways == Spec => []SessionIsOwn
<1>1. AccountsInvariant => SessionIsOwn
  BY DEF AccountsInvariant
<1> QED
  BY <1>1, AccountsInvariantHolds, PTL

(* No two clients are told that the same name was registered for them,       *)
(* although doRegister counts and inserts in two statements                  *)
(* (sessionProcessor.c:248-342).                                             *)
THEOREM OneRegistrantAlways == Spec => []OneRegistrant
<1>1. AccountsInvariant => OneRegistrant
  BY DEF AccountsInvariant
<1> QED
  BY <1>1, AccountsInvariantHolds, PTL

(* Each way through a handler leaves the handle ready: only overlapping      *)
(* requests or a broken answer make sqlPrepareAndExecute exit                *)
(* (MariaDBConnector.c:67-102).                                              *)
THEOREM ServerStaysUpAlways == Spec => []ServerStaysUp
<1>1. AccountsInvariant => ServerStaysUp
  BY DEF AccountsInvariant
<1> QED
  BY <1>1, AccountsInvariantHolds, PTL

==============================================================================
