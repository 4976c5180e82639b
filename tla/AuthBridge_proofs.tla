--------------------------- MODULE AuthBridge_proofs ---------------------------
(***************************************************************************)
(* For any number of threads on the connection between the servers: no     *)
(* thread waits for an answer that another has taken, and no answer is     *)
(* left over.                                                              *)
(***************************************************************************)
EXTENDS AuthBridge, FiniteSetTheorems, SequenceTheorems, TLAPS

Sending == {t \in Thread : pc[t] = "send"}
Receiving == {t \in Thread : pc[t] = "recv"}

(* Behind the type of the counters: each request that was made is about to   *)
(* be sent, on the way, or answered, and is granted and told at most once.   *)
RequestsAreCounted ==
  /\ grants + Len(requests) + Cardinality(Sending) <= asked
  /\ tells + Len(answers) + Len(requests) + Cardinality(Sending) <= asked

BridgeInvariant == TypeOK /\ OneAnswerEach /\ RequestsAreCounted

(* A thread more or less in a set of threads. *)
LEMMA Counting ==
  ASSUME NEW S \in SUBSET Thread, NEW t \in Thread
  PROVE  /\ Cardinality(S) \in Nat
         /\ t \notin S => Cardinality(S \cup {t}) = Cardinality(S) + 1
         /\ t \in S => Cardinality(S \ {t}) = Cardinality(S) - 1
<1>1. IsFiniteSet(S)
  BY ThreadAssumption, FS_Subset
<1> QED
  BY <1>1, FS_CardinalityType, FS_AddElement, FS_RemoveElement

LEMMA WaitersAreCounted == Cardinality(Sending) \in Nat /\ Cardinality(Receiving) \in Nat
<1>1. IsFiniteSet(Sending) /\ IsFiniteSet(Receiving)
  BY ThreadAssumption, FS_Subset DEF Sending, Receiving
<1> QED
  BY <1>1, FS_CardinalityType

LEMMA InitInvariant == Init => BridgeInvariant
<1> SUFFICES ASSUME Init
             PROVE  BridgeInvariant
  OBVIOUS
<1>1. Sending = {} /\ Receiving = {}
  BY DEF Init, Sending, Receiving
<1>2. requests \in Seq(Thread) /\ answers \in Seq({0, 1})
      /\ Len(requests) = 0 /\ Len(answers) = 0
  BY EmptySeq DEF Init
<1>3. TypeOK
  BY <1>2, MaxAssumption, RequestsAssumption DEF Init, TypeOK
<1>4. Cardinality(Sending) = 0 /\ Cardinality(Receiving) = 0
  BY <1>1, FS_EmptySet
<1>5. OneAnswerEach
  BY <1>2, <1>4 DEF OneAnswerEach, Receiving
<1>6. RequestsAreCounted
  <2>1. grants = 0 /\ tells = 0 /\ asked = 0
    BY DEF Init
  <2> QED
    BY <1>2, <1>4, <2>1 DEF RequestsAreCounted
<1> QED
  BY <1>3, <1>5, <1>6 DEF BridgeInvariant

(* The lengths of the two queues. *)
LEMMA Queues ==
  ASSUME TypeOK
  PROVE  /\ Len(requests) \in Nat /\ Len(answers) \in Nat
         /\ \A t \in Thread : /\ Append(requests, t) \in Seq(Thread)
                              /\ Len(Append(requests, t)) = Len(requests) + 1
         /\ \A s \in {0, 1} : /\ Append(answers, s) \in Seq({0, 1})
                              /\ Len(Append(answers, s)) = Len(answers) + 1
         /\ requests # <<>> => /\ Head(requests) \in Thread
                               /\ Tail(requests) \in Seq(Thread)
                               /\ Len(Tail(requests)) = Len(requests) - 1
         /\ answers # <<>> => /\ Head(answers) \in {0, 1}
                              /\ Tail(answers) \in Seq({0, 1})
                              /\ Len(Tail(answers)) = Len(answers) - 1
<1>1. requests \in Seq(Thread) /\ answers \in Seq({0, 1})
  BY DEF TypeOK
<1> QED
  BY <1>1, LenProperties, AppendProperties, HeadTailProperties

LEMMA AskPreserves ==
  ASSUME BridgeInvariant, NEW t \in Thread, procFileServerConnReq(t)
  PROVE  BridgeInvariant'
<1> USE DEF BridgeInvariant
<1>1. /\ pc' = [pc EXCEPT ![t] = "send"] /\ pc[t] \in {"serving", "client"}
      /\ asked' = asked + 1 /\ asked < MaxRequests
      /\ UNCHANGED <<requests, answers, connected, grants, tells>>
  BY DEF procFileServerConnReq, network
<1>2. TypeOK'
  BY <1>1, RequestsAssumption DEF TypeOK, procFileServerConnReq, places
<1>3. Cardinality(Sending') = Cardinality(Sending) + 1 /\ Receiving' = Receiving
  <2>1. Sending' = Sending \cup {t} /\ t \notin Sending /\ Receiving' = Receiving
    BY <1>1 DEF TypeOK, Sending, Receiving
  <2> QED
    BY <2>1, Counting DEF Sending
<1>4. OneAnswerEach'
  BY <1>1, <1>3 DEF OneAnswerEach, Receiving
<1>5. RequestsAreCounted'
  BY <1>1, <1>3, Queues, WaitersAreCounted DEF RequestsAreCounted, TypeOK
<1> QED
  BY <1>2, <1>4, <1>5

LEMMA SendPreserves ==
  ASSUME BridgeInvariant, NEW t \in Thread, SendRequest(t)
  PROVE  BridgeInvariant'
<1> USE DEF BridgeInvariant
<1>1. /\ pc[t] = "send"
      /\ UNCHANGED <<answers, connected, authWaitCount, clientCount, granted, authResult,
                     invited, asked, grants, tells>>
      /\ crossed' \subseteq Thread
  BY DEF SendRequest, places, counters, TypeOK
<1>2. CASE connected
  <2>1. pc' = [pc EXCEPT ![t] = "recv"] /\ requests' = Append(requests, t)
    BY <1>2 DEF SendRequest
  <2>2. TypeOK' /\ Len(requests') = Len(requests) + 1
    BY <1>1, <2>1, Queues DEF TypeOK
  <2>3. /\ Cardinality(Receiving') = Cardinality(Receiving) + 1
        /\ Cardinality(Sending') = Cardinality(Sending) - 1
    <3>1. /\ Receiving' = Receiving \cup {t} /\ t \notin Receiving
          /\ Sending' = Sending \ {t} /\ t \in Sending
      BY <1>1, <2>1 DEF TypeOK, Sending, Receiving
    <3> QED
      BY <3>1, Counting DEF Sending, Receiving
  <2>4. OneAnswerEach'
    BY <1>1, <2>2, <2>3, Queues, WaitersAreCounted DEF OneAnswerEach, Receiving
  <2>5. RequestsAreCounted'
    BY <1>1, <2>2, <2>3, Queues, WaitersAreCounted DEF RequestsAreCounted, TypeOK
  <2> QED
    BY <2>2, <2>4, <2>5
<1>3. CASE ~connected
  <2>1. pc' = [pc EXCEPT ![t] = "reply"] /\ requests' = requests
    BY <1>3 DEF SendRequest
  <2>2. TypeOK'
    BY <1>1, <2>1 DEF TypeOK
  <2>3. Cardinality(Sending') = Cardinality(Sending) - 1
    <3>1. Sending' = Sending \ {t} /\ t \in Sending
      BY <1>1, <2>1 DEF TypeOK, Sending
    <3> QED
      BY <3>1, Counting DEF Sending
  <2>4. OneAnswerEach'
    BY <1>1, <1>3 DEF OneAnswerEach
  <2>5. RequestsAreCounted'
    BY <1>1, <2>1, <2>3, Queues, WaitersAreCounted DEF RequestsAreCounted, TypeOK
  <2> QED
    BY <2>2, <2>4, <2>5
<1> QED
  BY <1>2, <1>3

LEMMA AnswerPreserves ==
  ASSUME BridgeInvariant, AnswerRequest
  PROVE  BridgeInvariant'
<1> USE DEF BridgeInvariant
<1>1. PICK status \in {0, 1} :
        /\ status = 1 <=> authWaitCount + clientCount < MaxConnection
        /\ authWaitCount' = authWaitCount + status
        /\ grants' = grants + status
        /\ answers' = Append(answers, status)
  <2>1. CASE authWaitCount + clientCount < MaxConnection
    BY <2>1 DEF AnswerRequest
  <2>2. CASE ~(authWaitCount + clientCount < MaxConnection)
    BY <2>2 DEF AnswerRequest, TypeOK
  <2> QED
    BY <2>1, <2>2
<1>2. /\ requests # <<>> /\ requests' = Tail(requests)
      /\ granted' \in {granted, granted \cup {Head(requests)}}
      /\ UNCHANGED <<pc, connected, clientCount, authResult, invited, crossed, asked, tells>>
  BY DEF AnswerRequest
<1>3. Len(requests') = Len(requests) - 1 /\ Len(answers') = Len(answers) + 1
      /\ Len(requests) \in Nat \ {0} /\ Len(answers) \in Nat
  BY <1>1, <1>2, Queues, EmptySeq DEF TypeOK
<1>4. Sending' = Sending /\ Receiving' = Receiving
  BY <1>2 DEF Sending, Receiving
<1>5. RequestsAreCounted'
  BY <1>1, <1>2, <1>3, <1>4, WaitersAreCounted DEF RequestsAreCounted, TypeOK
<1>6. TypeOK'
  <2>1. grants' \in 0 .. asked
    BY <1>1, <1>3, WaitersAreCounted DEF RequestsAreCounted, TypeOK
  <2>2. authWaitCount' \in 0 .. MaxConnection - 1
    BY <1>1, MaxAssumption DEF TypeOK
  <2>3. requests' \in Seq(Thread) /\ answers' \in Seq({0, 1}) /\ granted' \subseteq Thread
    BY <1>1, <1>2, Queues DEF TypeOK
  <2> QED
    BY <1>2, <2>1, <2>2, <2>3 DEF TypeOK
<1>7. OneAnswerEach'
  BY <1>2, <1>3, <1>4, WaitersAreCounted DEF OneAnswerEach, Receiving
<1> QED
  BY <1>5, <1>6, <1>7

LEMMA RecvPreserves ==
  ASSUME BridgeInvariant, NEW t \in Thread, RecvAnswer(t)
  PROVE  BridgeInvariant'
<1> USE DEF BridgeInvariant
<1>1. /\ pc[t] = "recv" /\ pc' = [pc EXCEPT ![t] = "reply"]
      /\ authResult' \subseteq Thread
      /\ UNCHANGED <<requests, connected, authWaitCount, clientCount, granted, invited,
                     crossed, asked, grants>>
  BY DEF RecvAnswer, places, TypeOK
<1>2. /\ Cardinality(Receiving') = Cardinality(Receiving) - 1
      /\ Sending' = Sending
  <2>1. Receiving' = Receiving \ {t} /\ t \in Receiving /\ Sending' = Sending
    BY <1>1 DEF TypeOK, Sending, Receiving
  <2> QED
    BY <2>1, Counting DEF Receiving
<1>3. CASE connected
  <2>1. /\ answers # <<>> /\ answers' = Tail(answers)
        /\ tells' = tells + Head(answers)
    BY <1>3 DEF RecvAnswer
  <2>2. /\ answers' \in Seq({0, 1}) /\ Len(answers') = Len(answers) - 1
        /\ Head(answers) \in {0, 1} /\ Len(answers) \in Nat \ {0} /\ Len(requests) \in Nat
    BY <2>1, Queues, EmptySeq DEF TypeOK
  <2>3. RequestsAreCounted'
    BY <1>1, <1>2, <2>1, <2>2, WaitersAreCounted DEF RequestsAreCounted, TypeOK
  <2>4. tells' \in 0 .. asked
    BY <2>1, <2>2, WaitersAreCounted DEF RequestsAreCounted, TypeOK
  <2>5. TypeOK'
    BY <1>1, <2>2, <2>4 DEF TypeOK
  <2>6. OneAnswerEach'
    BY <1>1, <1>2, <2>2, WaitersAreCounted DEF OneAnswerEach, Receiving
  <2> QED
    BY <2>3, <2>5, <2>6
<1>4. CASE ~connected
  <2>1. answers' = answers /\ tells' = tells + 0
    BY <1>4 DEF RecvAnswer
  <2>2. TypeOK'
    BY <1>1, <2>1 DEF TypeOK
  <2>3. OneAnswerEach' /\ RequestsAreCounted'
    BY <1>1, <1>2, <1>4, <2>1 DEF OneAnswerEach, RequestsAreCounted, TypeOK
  <2> QED
    BY <2>2, <2>3
<1> QED
  BY <1>3, <1>4

(* What the clients and the collector do changes the counts alone. *)
ServerStep == Disconnect \/ Collect \/ \E t \in Thread : Connect(t)

LEMMA ServerPreserves ==
  ASSUME BridgeInvariant, ServerStep
  PROVE  BridgeInvariant'
<1> USE DEF BridgeInvariant, network, counters
<1>1. UNCHANGED <<pc, requests, answers, connected, granted, authResult, crossed,
                  asked, grants, tells>>
  BY DEF ServerStep, Disconnect, Collect, Connect
<1>2. /\ authWaitCount' \in 0 .. MaxConnection - 1
      /\ clientCount' \in 1 .. MaxConnection
      /\ invited' \subseteq Thread
  <2>1. CASE Disconnect
    BY <2>1, MaxAssumption DEF Disconnect, TypeOK
  <2>2. CASE Collect
    BY <2>2, MaxAssumption DEF Collect, TypeOK
  <2>3. ASSUME NEW t \in Thread, Connect(t)
        PROVE  authWaitCount' = authWaitCount /\ clientCount' \in 1 .. MaxConnection
               /\ invited' \subseteq Thread
    BY <2>3, MaxAssumption DEF Connect, TypeOK
  <2> QED
    BY <2>1, <2>2, <2>3 DEF ServerStep, TypeOK
<1>3. TypeOK'
  BY <1>1, <1>2 DEF TypeOK
<1> QED
  BY <1>1, <1>3 DEF OneAnswerEach, RequestsAreCounted, Sending, Receiving

LEMMA OtherPreserves ==
  ASSUME BridgeInvariant, LoseFileServer \/ \E t \in Thread : Reply(t)
  PROVE  BridgeInvariant'
<1> USE DEF BridgeInvariant, network, places, counters
<1>1. CASE LoseFileServer
  <2>1. requests' \in Seq(Thread) /\ answers' \in Seq({0, 1})
        /\ Len(requests') = 0 /\ Len(answers') = 0
    BY <1>1, EmptySeq DEF LoseFileServer
  <2>2. TypeOK'
    <3>1. /\ connected' = FALSE
          /\ UNCHANGED <<pc, authWaitCount, clientCount, granted, authResult, invited, crossed,
                         asked, grants, tells>>
      BY <1>1 DEF LoseFileServer
    <3> QED
      BY <2>1, <3>1 DEF TypeOK
  <2>3. Sending' = Sending
    BY <1>1 DEF LoseFileServer, Sending
  <2>4. RequestsAreCounted'
    BY <1>1, <2>1, <2>3, Queues, WaitersAreCounted DEF LoseFileServer, RequestsAreCounted, TypeOK
  <2>5. OneAnswerEach'
    BY <1>1 DEF LoseFileServer, OneAnswerEach
  <2> QED
    BY <2>2, <2>4, <2>5
<1>2. ASSUME NEW t \in Thread, Reply(t) PROVE BridgeInvariant'
  <2>1. TypeOK'
    BY <1>2 DEF Reply, TypeOK
  <2>2. Sending' = Sending /\ Receiving' = Receiving
    BY <1>2 DEF Reply, TypeOK, Sending, Receiving
  <2> QED
    BY <1>2, <2>1, <2>2 DEF Reply, OneAnswerEach, RequestsAreCounted, Sending, Receiving
<1> QED
  BY <1>1, <1>2

LEMMA BridgeInvariantHolds == Spec => []BridgeInvariant
<1>1. Init => BridgeInvariant
  BY InitInvariant
<1>2. BridgeInvariant /\ [Next]_vars => BridgeInvariant'
  <2> SUFFICES ASSUME BridgeInvariant, [Next]_vars
               PROVE  BridgeInvariant'
    OBVIOUS
  <2>1. CASE UNCHANGED vars
    BY <2>1 DEF vars, network, places, counters, BridgeInvariant, TypeOK, OneAnswerEach,
       RequestsAreCounted, Sending, Receiving
  <2> QED
    BY <2>1, AskPreserves, SendPreserves, AnswerPreserves, RecvPreserves, ServerPreserves,
       OtherPreserves DEF Next, ServerStep
<1> QED
  BY <1>1, <1>2, PTL DEF Spec

-----------------------------------------------------------------------------
(* What is granted is told. *)

(* An answer more or less on the way. *)
LEMMA GrantingProperties ==
  ASSUME NEW q \in Seq({0, 1})
  PROVE  /\ IsFiniteSet(Granting(q)) /\ Cardinality(Granting(q)) \in Nat
         /\ q = <<>> => Cardinality(Granting(q)) = 0
         /\ \A s \in {0, 1} : Cardinality(Granting(Append(q, s))) = Cardinality(Granting(q)) + s
         /\ q # <<>> => Cardinality(Granting(Tail(q))) = Cardinality(Granting(q)) - Head(q)
<1>1. Len(q) \in Nat /\ DOMAIN q = 1 .. Len(q) /\ Granting(q) \subseteq 1 .. Len(q)
  BY LenProperties DEF Granting
<1>2. IsFiniteSet(Granting(q)) /\ Cardinality(Granting(q)) \in Nat
  <2>1. IsFiniteSet(1 .. Len(q))
    BY <1>1, FS_Interval
  <2> QED
    BY <1>1, <2>1, FS_Subset, FS_CardinalityType
<1>3. ASSUME q = <<>>
      PROVE  Cardinality(Granting(q)) = 0
  <2>1. Granting(q) = {}
    BY <1>1, <1>3, EmptySeq
  <2> QED
    BY <2>1, FS_EmptySet
<1>4. ASSUME NEW s \in {0, 1}
      PROVE  Cardinality(Granting(Append(q, s))) = Cardinality(Granting(q)) + s
  <2> DEFINE r == Append(q, s)
  <2>1. /\ r \in Seq({0, 1}) /\ Len(r) = Len(q) + 1
        /\ \A k \in 1 .. Len(q) : r[k] = q[k]
        /\ r[Len(q) + 1] = s
    BY AppendProperties
  <2>2. DOMAIN r = 1 .. Len(q) + 1
    BY <2>1, LenProperties
  <2> HIDE DEF r
  <2>3. Granting(r) = IF s = 1 THEN Granting(q) \cup {Len(q) + 1} ELSE Granting(q)
    BY <1>1, <2>1, <2>2 DEF Granting
  <2>4. Len(q) + 1 \notin Granting(q)
    BY <1>1
  <2>5. Cardinality(Granting(q) \cup {Len(q) + 1}) = Cardinality(Granting(q)) + 1
    BY <1>2, <2>4, FS_AddElement
  <2> QED
    BY <1>2, <2>3, <2>5 DEF r
<1>5. ASSUME q # <<>>
      PROVE  Cardinality(Granting(Tail(q))) = Cardinality(Granting(q)) - Head(q)
  <2> DEFINE r == Tail(q)
             f == [k \in Granting(r) |-> k + 1]
  <2>1. /\ r \in Seq({0, 1}) /\ Len(r) = Len(q) - 1 /\ Len(q) >= 1
        /\ \A k \in 1 .. Len(r) : r[k] = q[k + 1]
        /\ Head(q) = q[1] /\ Head(q) \in {0, 1}
    BY <1>1, <1>5, HeadTailProperties, EmptySeq
  <2>2. DOMAIN r = 1 .. Len(q) - 1
    BY <2>1, LenProperties
  <2> HIDE DEF r
  <2>3. f \in Bijection(Granting(r), Granting(q) \ {1})
    <3>1. f \in [Granting(r) -> Granting(q) \ {1}]
      BY <1>1, <2>1, <2>2 DEF Granting
    <3>2. \A a, b \in Granting(r) : f[a] = f[b] => a = b
      BY <2>2 DEF Granting
    <3>3. ASSUME NEW j \in Granting(q) \ {1}
          PROVE  \E k \in Granting(r) : f[k] = j
      <4>1. j - 1 \in Granting(r)
        BY <1>1, <2>1, <2>2 DEF Granting
      <4>2. f[j - 1] = j
        BY <1>1, <4>1
      <4> QED
        BY <4>1, <4>2
    <3> QED
      BY <3>1, <3>2, <3>3 DEF Bijection, Injection, Surjection, IsInjective
  <2>4. Cardinality(Granting(q) \ {1}) = Cardinality(Granting(r))
    <3>1. IsFiniteSet(Granting(r))
      <4>1. Granting(r) \subseteq 1 .. Len(q) - 1
        BY <2>2 DEF Granting
      <4>2. IsFiniteSet(1 .. Len(q) - 1)
        BY <1>1, FS_Interval
      <4> QED
        BY <4>1, <4>2, FS_Subset
    <3> QED
      BY <2>3, <3>1, FS_Bijection DEF ExistsBijection
  <2>5. CASE Head(q) = 1
    <3>1. 1 \in Granting(q)
      BY <1>1, <2>1, <2>5 DEF Granting
    <3> QED
      BY <1>2, <2>4, <2>5, <3>1, FS_RemoveElement DEF r
  <2>6. CASE Head(q) = 0
    <3>1. Granting(q) \ {1} = Granting(q)
      BY <2>1, <2>6 DEF Granting
    <3>2. Cardinality(Granting(q)) = Cardinality(Granting(r))
      BY <2>4, <3>1, Zenon
    <3> QED
      BY <1>2, <2>6, <3>2 DEF r
  <2> QED
    BY <2>1, <2>5, <2>6
<1> QED
  BY <1>2, <1>3, <1>4, <1>5

(* A thread alone in recv waits for the one request or answer on the way. *)
LEMMA SoleRequest ==
  ASSUME BridgeInvariant, connected, NEW t \in Thread, Alone(t), pc[t] = "recv"
  PROVE  /\ answers = <<>> => /\ requests # <<>> /\ Tail(requests) = <<>> /\ Head(requests) = t
                              /\ Len(requests) = 1
         /\ answers # <<>> => requests = <<>> /\ Tail(answers) = <<>> /\ Len(answers) = 1
<1> USE DEF BridgeInvariant
<1>1. Receiving = {t}
  BY DEF Receiving, Alone
<1>2. Cardinality(Receiving) = 1
  BY <1>1, FS_Singleton
<1>3. Len(requests) + Len(answers) = 1
  BY <1>2 DEF OneAnswerEach, Receiving
<1>4. /\ Len(requests) \in Nat /\ Len(answers) \in Nat
      /\ requests \in Seq(Thread) /\ answers \in Seq({0, 1})
      /\ answers = <<>> <=> Len(answers) = 0
      /\ requests = <<>> <=> Len(requests) = 0
  BY EmptySeq, Queues DEF TypeOK
<1>5. requests # <<>> => Len(Tail(requests)) = Len(requests) - 1 /\ Tail(requests) \in Seq(Thread)
  BY Queues
<1>6. answers # <<>> => Len(Tail(answers)) = Len(answers) - 1 /\ Tail(answers) \in Seq({0, 1})
  BY Queues
<1>7. ASSUME answers = <<>>
      PROVE  /\ requests # <<>> /\ Tail(requests) = <<>> /\ Head(requests) = t
             /\ Len(requests) = 1
  <2>1. Len(requests) = 1 /\ requests # <<>> /\ Head(requests) = t
    BY <1>3, <1>4, <1>7 DEF Alone
  <2>2. Len(Tail(requests)) = 0
    BY <1>5, <2>1
  <2> QED
    BY <1>5, <2>1, <2>2, EmptySeq
<1>8. ASSUME answers # <<>>
      PROVE  requests = <<>> /\ Tail(answers) = <<>> /\ Len(answers) = 1
  <2>1. Len(answers) = 1 /\ Len(requests) = 0
    <3>1. Len(answers) # 0
      BY <1>4, <1>8
    <3>2. Len(requests) \in Nat /\ Len(answers) \in Nat
      BY <1>4
    <3>3. \A a, b \in Nat : a + b = 1 /\ b # 0 => b = 1 /\ a = 0
      OBVIOUS
    <3> QED
      BY <1>3, <3>1, <3>2, <3>3
  <2>2. Len(Tail(answers)) = 0
    BY <1>6, <1>8, <2>1
  <2> QED
    BY <1>4, <1>6, <1>8, <2>1, <2>2, EmptySeq
<1> QED
  BY <1>7, <1>8

LEMMA AskKeepsGrants ==
  ASSUME BridgeInvariant, GrantsInvariant, NEW t \in Thread, procFileServerConnReq(t)
  PROVE  GrantsInvariant'
<1>1. /\ pc' = [pc EXCEPT ![t] = "send"] /\ pc[t] \in {"serving", "client"}
      /\ granted' = granted \ {t} /\ authResult' = authResult \ {t}
      /\ UNCHANGED <<requests, answers, connected, crossed, grants, tells>>
  BY DEF procFileServerConnReq, network
<1>2. pc'[t] = "send" /\ \A x \in Thread \ {t} : pc'[x] = pc[x]
  BY <1>1 DEF BridgeInvariant, TypeOK
<1>3. ASSUME connected, NEW x \in Thread \ crossed
      PROVE  Alone(x)'
  <2>1. Alone(x)
    BY <1>3 DEF GrantsInvariant
  <2> QED
    BY <1>1, <1>2, <2>1 DEF Alone
<1> QED
  BY <1>1, <1>3 DEF GrantsInvariant

(* The request is sent: of those that have not shared the socket before, a   *)
(* sender that finds another thread in recv, and that thread, now have.      *)
LEMMA SendKeepsGrants ==
  ASSUME BridgeInvariant, GrantsInvariant, NEW t \in Thread, SendRequest(t)
  PROVE  GrantsInvariant'
<1> USE DEF BridgeInvariant
<1>1. /\ pc[t] = "send"
      /\ UNCHANGED <<answers, connected, granted, authResult, asked, grants, tells>>
  BY DEF SendRequest, counters
<1>2. ASSUME connected
      PROVE  \A x \in Thread \ crossed' : Alone(x)'
  <2>1. /\ pc' = [pc EXCEPT ![t] = "recv"] /\ requests' = Append(requests, t)
        /\ crossed \subseteq crossed'
    BY <1>2 DEF SendRequest
  <2>2. pc'[t] = "recv" /\ \A x \in Thread \ {t} : pc'[x] = pc[x]
    BY <2>1 DEF TypeOK
  <2>3. ASSUME NEW y \in Thread, pc[y] = "recv"
        PROVE  t \in crossed' /\ y \in crossed'
    BY <1>2, <2>3 DEF SendRequest
  <2>4. /\ DOMAIN requests = 1 .. Len(requests) /\ DOMAIN requests' = 1 .. Len(requests) + 1
        /\ \A k \in DOMAIN requests : requests'[k] = requests[k]
        /\ requests'[Len(requests) + 1] = t
        /\ Len(requests) \in Nat
    BY <2>1, LenProperties, AppendProperties, Queues DEF TypeOK
  <2>5. ASSUME t \notin crossed'
        PROVE  Alone(t)'
    <3>1. Alone(t)
      BY <1>2, <2>1, <2>5 DEF GrantsInvariant
    <3>2. Receiving = {}
      BY <2>3, <2>5 DEF Receiving
    <3>3. Len(requests) = 0 /\ Len(answers) = 0
      <4>1. Cardinality(Receiving) = 0
        BY <3>2, FS_EmptySet
      <4>2. Len(requests) + Len(answers) = 0
        BY <1>2, <4>1 DEF OneAnswerEach, Receiving
      <4> QED
        BY <4>2, Queues
    <3>4. answers = <<>> /\ requests = <<>>
      BY <3>3, EmptySeq DEF TypeOK
    <3>5. Head(requests') = t
      BY <2>1, <2>4, <3>3, <3>4
    <3> QED
      BY <1>1, <2>2, <2>3, <2>5, <3>1, <3>4, <3>5 DEF Alone
  <2>6. ASSUME NEW x \in Thread \ crossed', x # t
        PROVE  Alone(x)'
    <3>1. Alone(x) /\ pc[x] # "recv"
      BY <1>2, <2>1, <2>3, <2>6 DEF GrantsInvariant
    <3>2. \A k \in DOMAIN requests' : requests'[k] # x
      BY <2>4, <2>6, <3>1 DEF Alone
    <3> QED
      BY <1>1, <2>2, <2>6, <3>1, <3>2 DEF Alone
  <2> QED
    BY <2>5, <2>6
<1> QED
  BY <1>1, <1>2 DEF GrantsInvariant

LEMMA AnswerKeepsGrants ==
  ASSUME BridgeInvariant, GrantsInvariant, AnswerRequest
  PROVE  GrantsInvariant'
<1> USE DEF BridgeInvariant
<1> DEFINE asker == Head(requests)
<1>1. PICK status \in {0, 1} :
        /\ grants' = grants + status
        /\ answers' = Append(answers, status)
        /\ granted' = IF status = 1 THEN granted \cup {asker} ELSE granted
  <2>1. CASE authWaitCount + clientCount < MaxConnection
    BY <2>1 DEF AnswerRequest
  <2>2. CASE ~(authWaitCount + clientCount < MaxConnection)
    BY <2>2 DEF AnswerRequest, TypeOK
  <2> QED
    BY <2>1, <2>2
<1>2. /\ requests # <<>> /\ requests' = Tail(requests) /\ connected
      /\ UNCHANGED <<pc, connected, authResult, crossed, asked, tells>>
  BY DEF AnswerRequest
<1>3. Cardinality(Granting(answers')) = Cardinality(Granting(answers)) + status
      /\ Cardinality(Granting(answers)) \in Nat
  BY <1>1, GrantingProperties DEF TypeOK
<1>4. ASSUME NEW x \in Thread \ crossed
      PROVE  Alone(x)'
  <2>1. Alone(x)
    BY <1>2, <1>4 DEF GrantsInvariant
  <2>2. /\ 1 \in DOMAIN requests /\ requests[1] = asker
        /\ DOMAIN requests = 1 .. Len(requests) /\ Len(requests) \in Nat
        /\ DOMAIN requests' = 1 .. Len(requests) - 1
        /\ \A k \in 1 .. Len(requests) - 1 : requests'[k] = requests[k + 1]
    <3>1. requests \in Seq(Thread) /\ Len(requests) \in Nat \ {0}
      BY <1>2, EmptySeq DEF TypeOK
    <3> QED
      BY <1>2, <3>1, LenProperties, HeadTailProperties
  <2>3. CASE pc[x] = "recv"
    <3>1. answers = <<>> /\ asker = x /\ x \notin granted
      BY <1>2, <2>1, <2>3, SoleRequest DEF Alone
    <3>2. answers' = <<status>>
      BY <1>1, <3>1
    <3>3. answers' # <<>> /\ Head(answers') = status
      BY <3>2
    <3> QED
      BY <1>1, <1>2, <2>1, <2>3, <3>1, <3>3 DEF Alone
  <2>4. CASE pc[x] # "recv"
    <3>1. x # asker
      BY <2>1, <2>2, <2>4 DEF Alone
    <3>2. \A k \in DOMAIN requests' : requests'[k] # x
      BY <2>1, <2>2, <2>4 DEF Alone
    <3> QED
      BY <1>1, <1>2, <2>1, <2>4, <3>1, <3>2 DEF Alone
  <2> QED
    BY <2>3, <2>4
<1> QED
  BY <1>1, <1>2, <1>3, <1>4 DEF GrantsInvariant, TypeOK

LEMMA RecvKeepsGrants ==
  ASSUME BridgeInvariant, GrantsInvariant, NEW t \in Thread, RecvAnswer(t)
  PROVE  GrantsInvariant'
<1> USE DEF BridgeInvariant
<1>1. /\ pc[t] = "recv" /\ pc' = [pc EXCEPT ![t] = "reply"]
      /\ UNCHANGED <<requests, connected, granted, crossed, asked, grants>>
  BY DEF RecvAnswer
<1>2. pc'[t] = "reply" /\ \A x \in Thread \ {t} : pc'[x] = pc[x]
  BY <1>1 DEF TypeOK
<1>3. CASE connected
  <2>1. /\ answers # <<>> /\ answers' = Tail(answers)
        /\ tells' = tells + Head(answers)
        /\ authResult' = IF Head(answers) = 1 THEN authResult \cup {t} ELSE authResult
    BY <1>3 DEF RecvAnswer
  <2>2. /\ Cardinality(Granting(answers')) = Cardinality(Granting(answers)) - Head(answers)
        /\ Cardinality(Granting(answers)) \in Nat /\ Head(answers) \in {0, 1}
    BY <2>1, GrantingProperties, Queues DEF TypeOK
  <2>3. ASSUME NEW x \in Thread \ crossed
        PROVE  Alone(x)'
    <3>1. Alone(x)
      BY <1>3, <2>3 DEF GrantsInvariant
    <3>2. CASE x = t
      <4>1. requests = <<>> /\ (Head(answers) = 1 <=> t \in granted) /\ t \notin authResult
        BY <1>1, <1>3, <2>1, <3>1, <3>2, SoleRequest DEF Alone
      <4> QED
        BY <1>1, <1>2, <2>1, <3>2, <4>1 DEF Alone
    <3>3. CASE x # t
      <4>1. pc[x] # "recv"
        BY <1>1, <3>1, <3>3 DEF Alone
      <4> QED
        BY <1>1, <1>2, <2>1, <2>3, <3>1, <3>3, <4>1 DEF Alone
    <3> QED
      BY <3>2, <3>3
  <2> QED
    BY <1>1, <1>3, <2>1, <2>2, <2>3 DEF GrantsInvariant, TypeOK
<1>4. CASE ~connected
  <2>1. answers' = answers /\ tells' = tells + 0
    BY <1>4 DEF RecvAnswer
  <2> QED
    BY <1>1, <1>4, <2>1 DEF GrantsInvariant, TypeOK
<1> QED
  BY <1>3, <1>4

LEMMA OtherKeepsGrants ==
  ASSUME BridgeInvariant, GrantsInvariant, ServerStep \/ LoseFileServer \/ \E t \in Thread : Reply(t)
  PROVE  GrantsInvariant'
<1> USE DEF BridgeInvariant, network, counters
<1>1. CASE ServerStep
  <2>1. UNCHANGED <<pc, requests, answers, connected, granted, authResult, crossed, grants, tells>>
    BY <1>1 DEF ServerStep, Disconnect, Collect, Connect
  <2> QED
    BY <2>1 DEF GrantsInvariant, Alone
<1>2. CASE LoseFileServer
  <2>1. answers' = <<>> /\ answers' \in Seq({0, 1}) /\ connected' = FALSE
        /\ UNCHANGED <<tells, grants>>
    BY <1>2, EmptySeq DEF LoseFileServer
  <2>2. Cardinality(Granting(answers')) = 0 /\ Cardinality(Granting(answers)) \in Nat
    BY <2>1, GrantingProperties DEF TypeOK
  <2> QED
    BY <2>1, <2>2 DEF GrantsInvariant, TypeOK
<1>3. ASSUME NEW t \in Thread, Reply(t)
      PROVE  GrantsInvariant'
  <2>1. /\ pc[t] = "reply" /\ pc'[t] = "client" /\ \A x \in Thread \ {t} : pc'[x] = pc[x]
        /\ UNCHANGED <<network, granted, authResult, crossed, counters>>
    BY <1>3 DEF Reply, TypeOK
  <2>2. ASSUME connected, NEW x \in Thread \ crossed
        PROVE  Alone(x)'
    <3>1. Alone(x)
      BY <2>2 DEF GrantsInvariant
    <3> QED
      BY <2>1, <3>1 DEF Alone
  <2> QED
    BY <2>1, <2>2 DEF GrantsInvariant
<1> QED
  BY <1>1, <1>2, <1>3

LEMMA GrantsInvariantHolds == Spec => [](BridgeInvariant /\ GrantsInvariant)
<1>1. Init => BridgeInvariant /\ GrantsInvariant
  <2> SUFFICES ASSUME Init
               PROVE  GrantsInvariant
    BY InitInvariant
  <2>1. Cardinality(Granting(answers)) = 0
    BY EmptySeq, GrantingProperties DEF Init
  <2>2. DOMAIN requests = {}
    BY EmptySeq, LenProperties DEF Init
  <2> QED
    BY <2>1, <2>2 DEF Init, GrantsInvariant, Alone
<1>2. BridgeInvariant /\ GrantsInvariant /\ [Next]_vars => (BridgeInvariant /\ GrantsInvariant)'
  <2> SUFFICES ASSUME BridgeInvariant, GrantsInvariant, [Next]_vars
               PROVE  BridgeInvariant' /\ GrantsInvariant'
    OBVIOUS
  <2>1. CASE UNCHANGED vars
    BY <2>1 DEF vars, network, places, counters, BridgeInvariant, TypeOK, OneAnswerEach,
       RequestsAreCounted, Sending, Receiving, GrantsInvariant, Alone
  <2> QED
    BY <2>1, AskPreserves, SendPreserves, AnswerPreserves, RecvPreserves, ServerPreserves,
       OtherPreserves, AskKeepsGrants, SendKeepsGrants, AnswerKeepsGrants, RecvKeepsGrants,
       OtherKeepsGrants DEF Next, ServerStep
<1> QED
  BY <1>1, <1>2, PTL DEF Spec

(* For any number of threads and any maxConnection: the entries of           *)
(* authWaitList never fill it and the connections never exceed it, although  *)
(* a client that has connected is in both counts (userAuthManager.c:54,      *)
(* FileServer.c:196-203); and no request is granted, or told to be granted,  *)
(* twice.                                                                    *)
THEOREM TypeCorrect == Spec => []TypeOK
<1>1. BridgeInvariant => TypeOK
  BY DEF BridgeInvariant
<1> QED
  BY <1>1, BridgeInvariantHolds, PTL

(* Although all threads share hFileSrvSock without a lock, each that waits   *)
(* in recv has one request or answer on the way (userToFSBridge.c:108-130).  *)
THEOREM OneAnswerEachAlways == Spec => []OneAnswerEach
<1>1. BridgeInvariant => OneAnswerEach
  BY DEF BridgeInvariant
<1> QED
  BY <1>1, BridgeInvariantHolds, PTL

(* No more clients are told to connect than places were granted, no grant    *)
(* gets lost while the connection is up, and a thread that never shared      *)
(* hFileSrvSock is told what it was granted (userToFSBridge.c:118-130).      *)
THEOREM GrantsAreToldAlways == Spec => []GrantsAreTold
<1>1. GrantsInvariant => GrantsAreTold
  BY DEF GrantsInvariant, Alone, GrantsAreTold
<1> QED
  BY <1>1, GrantsInvariantHolds, PTL

==============================================================================
