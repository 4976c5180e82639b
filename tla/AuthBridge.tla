------------------------------ MODULE AuthBridge ------------------------------
(***************************************************************************)
(* How the relay server gets users a place on the file server              *)
(* (userToFSBridge.c).                                                     *)
(*                                                                         *)
(* Every client has its own thread.  All threads use the one connection    *)
(* hFileSrvSock: procFileServerConnReq makes a key, authFSUser sends it    *)
(* and receives an answer, without a lock around the two.  The file        *)
(* server's thread for this connection answers the requests in order.  An  *)
(* answer carries a status and nothing that says which request it belongs  *)
(* to.                                                                     *)
(*                                                                         *)
(* Of the file server there are the two counts that decide the status: the *)
(* entries of authWaitList (AuthWaitList models what becomes of each) and  *)
(* the connections.  A client that logs in is in both until the collector  *)
(* deletes its entry.  The counts are read and written as one.  Requests   *)
(* and answers, of 44 and 9 bytes, are moved whole.                        *)
(***************************************************************************)
EXTENDS Integers, FiniteSets, Sequences

CONSTANTS
  Thread,         \* threads of the relay server, one per client
  MaxConnection,  \* maxConnection of the file server
  MaxRequests     \* bound on the requests of one run

ASSUME ThreadAssumption == IsFiniteSet(Thread)
ASSUME MaxAssumption == MaxConnection \in Nat \ {0}
ASSUME RequestsAssumption == MaxRequests \in Nat

VARIABLES
  pc,          \* where each thread is in procFileServerConnReq
  requests,    \* sent on hFileSrvSock and not yet read by the file server
  answers,     \* statuses sent by the file server and not yet received
  connected,   \* the connection between the servers is up
  authWaitCount,  \* the file server's: entries of authWaitList
  clientCount,    \* the file server's: its connections, the relay server's too
  granted,     \* threads whose present request the file server has granted
  authResult,  \* threads whose authResult is 1
  invited,     \* threads whose client was told to connect and has not yet done so
  crossed,     \* threads that were in authFSUser together with another
  asked, grants, tells  \* how many requests were made, granted and told so

network == <<requests, answers, connected>>
places == <<authWaitCount, clientCount>>
counters == <<asked, grants, tells>>
vars == <<pc, network, places, granted, authResult, invited, crossed, counters>>

(* The type of each variable.  An entry of authWaitList stays free, as the   *)
(* relay server's own connection counts when a place is asked for            *)
(* (userAuthManager.c:54), although entries and connections together may     *)
(* exceed maxConnection.                                                     *)
TypeOK ==
  /\ pc \in [Thread -> {"serving", "send", "recv", "reply", "client"}]
  /\ requests \in Seq(Thread) /\ answers \in Seq({0, 1})
  /\ connected \in BOOLEAN
  /\ authWaitCount \in 0 .. MaxConnection - 1
  /\ clientCount \in 1 .. MaxConnection
  /\ granted \subseteq Thread /\ authResult \subseteq Thread
  /\ invited \subseteq Thread /\ crossed \subseteq Thread
  /\ asked \in 0 .. MaxRequests
  /\ grants \in 0 .. asked /\ tells \in 0 .. asked

(* The servers after the registration: the relay server is the only client.  *)
Init ==
  /\ pc = [t \in Thread |-> "serving"]
  /\ requests = <<>> /\ answers = <<>>
  /\ connected = TRUE
  /\ authWaitCount = 0 /\ clientCount = 1
  /\ granted = {} /\ authResult = {} /\ invited = {} /\ crossed = {}
  /\ asked = 0 /\ grants = 0 /\ tells = 0

(* The client asks for the file server, done with the invitation it had; a   *)
(* key is made, the user looked up, and authResult set to 0.                 *)
procFileServerConnReq(t) ==
  /\ pc[t] \in {"serving", "client"}
  /\ asked < MaxRequests
  /\ asked' = asked + 1
  /\ granted' = granted \ {t}
  /\ authResult' = authResult \ {t}
  /\ invited' = invited \ {t}
  /\ pc' = [pc EXCEPT ![t] = "send"]
  /\ UNCHANGED <<network, places, crossed, grants, tells>>

(* authFSUser: the request is sent.  On a broken connection this fails, the  *)
(* function returns, and authResult stays 0.                                 *)
SendRequest(t) ==
  /\ pc[t] = "send"
  /\ requests' = IF connected THEN Append(requests, t) ELSE requests
  /\ pc' = [pc EXCEPT ![t] = IF connected THEN "recv" ELSE "reply"]
  /\ crossed' = LET others == {x \in Thread : pc[x] = "recv"}
                IN  IF connected /\ others # {} THEN crossed \cup others \cup {t} ELSE crossed
  /\ UNCHANGED <<answers, connected, places, granted, authResult, invited, counters>>

(* Mutants of AnswerRequest: a full server does not answer; the counts are   *)
(* tested against the wrong side of the limit.                               *)
AnswerUnlessFull ==
  /\ connected /\ requests # <<>>
  /\ LET t == Head(requests)
         place == authWaitCount + clientCount < MaxConnection
     IN  /\ authWaitCount' = IF place THEN authWaitCount + 1 ELSE authWaitCount
         /\ granted' = IF place THEN granted \cup {t} ELSE granted
         /\ grants' = IF place THEN grants + 1 ELSE grants
         /\ answers' = IF place THEN Append(answers, 1) ELSE answers
  /\ requests' = Tail(requests)
  /\ UNCHANGED <<pc, connected, clientCount, authResult, invited, crossed, asked, tells>>

AnswerOneTooMany ==
  /\ connected /\ requests # <<>>
  /\ LET t == Head(requests)
         place == authWaitCount + clientCount <= MaxConnection
     IN  /\ authWaitCount' = IF place THEN authWaitCount + 1 ELSE authWaitCount
         /\ granted' = IF place THEN granted \cup {t} ELSE granted
         /\ grants' = IF place THEN grants + 1 ELSE grants
         /\ answers' = Append(answers, IF place THEN 1 ELSE 0)
  /\ requests' = Tail(requests)
  /\ UNCHANGED <<pc, connected, clientCount, authResult, invited, crossed, asked, tells>>

(* The file server's thread reads one request, lists the user if there is a  *)
(* place, and answers.                                                       *)
AnswerRequest ==
  /\ connected /\ requests # <<>>
  /\ LET t == Head(requests)
         place == authWaitCount + clientCount < MaxConnection
     IN  /\ authWaitCount' = IF place THEN authWaitCount + 1 ELSE authWaitCount
         /\ granted' = IF place THEN granted \cup {t} ELSE granted
         /\ grants' = IF place THEN grants + 1 ELSE grants
         /\ answers' = Append(answers, IF place THEN 1 ELSE 0)
  /\ requests' = Tail(requests)
  /\ UNCHANGED <<pc, connected, clientCount, authResult, invited, crossed, asked, tells>>

(* A client that was told to connect does so.  The file server closes the    *)
(* connection at once when it is full; else it counts it, while the client's *)
(* entry stays in the list.                                                  *)
Connect(t) ==
  /\ connected
  /\ pc[t] = "client" /\ t \in invited
  /\ invited' = invited \ {t}
  /\ clientCount' = IF clientCount >= MaxConnection THEN clientCount ELSE clientCount + 1
  /\ UNCHANGED <<pc, network, authWaitCount, granted, authResult, crossed, counters>>

(* A client leaves the file server. *)
Disconnect ==
  /\ connected /\ clientCount > 1
  /\ clientCount' = clientCount - 1
  /\ UNCHANGED <<pc, network, authWaitCount, granted, authResult, invited, crossed, counters>>

(* A pass of the collector: it deletes any number of entries, as some may be *)
(* used or over age and others not.  What an unlocked addition does to its   *)
(* count is one of these outcomes too: a decrement that is undone is a pass  *)
(* that deletes less, an increment that is undone one that deletes more.     *)
Collect ==
  /\ connected
  /\ authWaitCount' \in 0 .. authWaitCount - 1
  /\ UNCHANGED <<pc, network, clientCount, granted, authResult, invited, crossed, counters>>

(* Mutant of RecvAnswer: any answer counts as success. *)
RecvAnyAnswer(t) ==
  /\ pc[t] = "recv"
  /\ connected => answers # <<>>
  /\ LET status == IF connected THEN 1 ELSE 0
     IN  /\ authResult' = IF status = 1 THEN authResult \cup {t} ELSE authResult
         /\ tells' = tells + status
  /\ answers' = IF connected THEN Tail(answers) ELSE answers
  /\ pc' = [pc EXCEPT ![t] = "reply"]
  /\ UNCHANGED <<requests, connected, places, granted, invited, crossed, asked, grants>>

(* authFSUser: the thread takes the next answer there is and sets authResult *)
(* accordingly; with the connection gone recv fails, and authResult stays 0. *)
RecvAnswer(t) ==
  /\ pc[t] = "recv"
  /\ connected => answers # <<>>
  /\ LET status == IF connected THEN Head(answers) ELSE 0
     IN  /\ authResult' = IF status = 1 THEN authResult \cup {t} ELSE authResult
         /\ tells' = tells + status
  /\ answers' = IF connected THEN Tail(answers) ELSE answers
  /\ pc' = [pc EXCEPT ![t] = "reply"]
  /\ UNCHANGED <<requests, connected, places, granted, invited, crossed, asked, grants>>

(* The client gets its key and the server's address, or a refusal. *)
Reply(t) ==
  /\ pc[t] = "reply"
  /\ pc' = [pc EXCEPT ![t] = "client"]
  /\ invited' = IF t \in authResult THEN invited \cup {t} ELSE invited
  /\ UNCHANGED <<network, places, granted, authResult, crossed, counters>>

(* The connection between the servers breaks.  It is only made at start-up;  *)
(* as nothing is asked of the file server any more, its counts are not       *)
(* followed further.                                                         *)
LoseFileServer ==
  /\ connected
  /\ connected' = FALSE
  /\ requests' = <<>> /\ answers' = <<>>
  /\ UNCHANGED <<pc, places, granted, authResult, invited, crossed, counters>>

Next ==
  \/ AnswerRequest \/ Disconnect \/ Collect \/ LoseFileServer
  \/ \E t \in Thread :
       \/ procFileServerConnReq(t) \/ SendRequest(t) \/ RecvAnswer(t) \/ Reply(t)
       \/ Connect(t)

Spec == Init /\ [][Next]_vars

(* Threads of both servers run.  Of several threads waiting in recv on the   *)
(* socket no one is passed over for ever: the system serves them in turn.    *)
FairSpec ==
  /\ Spec
  /\ WF_vars(AnswerRequest)
  /\ \A t \in Thread : WF_vars(SendRequest(t)) /\ SF_vars(RecvAnswer(t)) /\ WF_vars(Reply(t))

-----------------------------------------------------------------------------
(* Properties *)

(* The places in a sequence of statuses at which a place is granted. *)
Granting(statuses) == {i \in DOMAIN statuses : statuses[i] = 1}

(* However the threads interleave on the socket, no more clients are told to *)
(* connect than places were granted, and none of the grants gets lost while  *)
(* the connection is up; and those that never shared the socket are told     *)
(* what they were granted (userToFSBridge.c:118-130).                        *)
GrantsAreTold ==
  LET inFlight == Cardinality(Granting(answers))
  IN  /\ tells + inFlight <= grants
      /\ connected =>
           /\ tells + inFlight = grants
           /\ \A t \in Thread \ crossed :
                pc[t] \in {"reply", "client"} => (t \in authResult <=> t \in granted)

(* While the connection is up, each thread waiting in recv has one request   *)
(* or answer of its own on the way: nobody waits for an answer that was      *)
(* taken twice, and none is left over for the next caller to mistake for its *)
(* own.                                                                      *)
OneAnswerEach ==
  connected => Cardinality({t \in Thread : pc[t] = "recv"}) = Len(requests) + Len(answers)

(* The inductive invariant behind GrantsAreTold.  A thread that shared the   *)
(* socket with nobody is alone in recv, with its own request or the answer   *)
(* to it, and once answered its name is nowhere on the way.                  *)
Alone(t) ==
  /\ pc[t] = "send" => t \notin granted /\ t \notin authResult
  /\ pc[t] # "recv" => \A i \in DOMAIN requests : requests[i] # t
  /\ pc[t] = "recv" =>
       /\ \A x \in Thread : pc[x] = "recv" => x = t
       /\ t \notin authResult
       /\ answers = <<>> => t \notin granted /\ Head(requests) = t
       /\ answers # <<>> => (Head(answers) = 1 <=> t \in granted)
  /\ pc[t] \in {"reply", "client"} => (t \in authResult <=> t \in granted)

GrantsInvariant ==
  /\ tells + Cardinality(Granting(answers)) <= grants
  /\ connected => /\ tells + Cardinality(Granting(answers)) = grants
                  /\ \A t \in Thread \ crossed : Alone(t)

(* A client that asked is answered, also when the file server has gone.      *)
EveryRequestAnswered == \A t \in Thread : pc[t] = "send" ~> pc[t] = "client"

==============================================================================
