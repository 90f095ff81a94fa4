------------------------ MODULE EventPipelineProofs ------------------------
(***************************************************************************)
(* Types, the order of messages (the inductive invariant OrderIInv of      *)
(* EventPipeline) and the refinement of EventDelivery, for every node      *)
(* table, every set of sources and requests and every bound.               *)
(***************************************************************************)
EXTENDS EventPipeline, BrokerProofs

LEMMA BrokerIdle == BrokerTypeOK /\ UNCHANGED brokerVars => BrokerTypeOK'
  BY DEF BrokerTypeOK, brokerVars

LEMMA TypeInit == Init => TypeOK
<1> SUFFICES ASSUME Init
             PROVE  TypeOK
  OBVIOUS
<1>1. BrokerTypeOK
  BY BrokerTypeInit DEF Init
<1>2. Types
  BY SourceTable, Bounds
     DEF Init, Types, MainPcs, ListenerPcs, CallPcs, Callers, Readable, None
<1>3. CallsReady
  BY DEF Init, CallsReady
<1>4. ListenersReady
  BY SourceTable DEF Init, ListenersReady
<1> QED
  BY <1>1, <1>2, <1>3, <1>4 DEF TypeOK

-----------------------------------------------------------------------------
(* main.                                                                    *)
LEMMA MainType ==
  ASSUME TypeOK,
         \/ StartListener \/ Serve \/ Exit
         \/ \E s \in Sources : Subscribe(s) \/ StartFails(s) \/ MapRace(s)
  PROVE  TypeOK'
<1> USE DEF TypeOK, Types, CallsReady, ListenersReady, MainPcs, listenerVars,
            callVars, Readable
<1>1. ASSUME NEW s \in Sources, Subscribe(s)
      PROVE  TypeOK'
  <2>1. s \in NatsNodes /\ SubscribeSync(s) /\ cur' = s /\ mainPc' = "write"
    BY <1>1 DEF Subscribe
  <2>2. BrokerTypeOK'
    BY <2>1, SubscribeType
  <2> QED
    BY <1>1, <2>1, <2>2 DEF Subscribe
<1>2. CASE StartListener
  <2>1. BrokerTypeOK'
    BY <1>2, BrokerIdle DEF StartListener
  <2> QED
    BY <1>2, <2>1 DEF StartListener, ListenerPcs
<1>3. CASE Serve \/ Exit \/ \E s \in Sources : StartFails(s) \/ MapRace(s)
  <2>1. BrokerTypeOK'
    BY <1>3, BrokerIdle DEF Serve, Exit, StartFails, MapRace
  <2> QED
    BY <1>3, <2>1 DEF Serve, Exit, StartFails, MapRace
<1> QED
  BY <1>1, <1>2, <1>3

-----------------------------------------------------------------------------
(* Service.Send.                                                            *)
LEMMA SendStepType ==
  ASSUME TypeOK, NEW c \in Callers, SendStep(c)
  PROVE  TypeOK'
<1> USE DEF TypeOK, Types, CallsReady, ListenersReady, CallPcs, listenerVars,
            mainVars, Goto, At
<1>1. CASE SendFails(c) \/ Post(c) \/ FlushOk(c) \/ FlushFails(c)
  <2>1. BrokerTypeOK'
    BY <1>1, BrokerIdle DEF SendFails, Post, FlushOk, FlushFails
  <2> QED
    BY <1>1, <2>1 DEF SendFails, Post, FlushOk, FlushFails
<1>2. CASE Publish(c)
  <2>1. cmsg[c] \in Messages /\ cdest[c] \in NatsNodes
    BY <1>2, Bounds DEF Publish, Messages
  <2>2. BrokerTypeOK'
    BY <1>2, <2>1, SendType DEF Publish
  <2> QED
    BY <1>2, <2>1, <2>2 DEF Publish
<1>3. CASE Flush(c)
  <2>1. cmsg[c] \in Messages /\ cdest[c] \in NatsNodes
    BY <1>3, Bounds DEF Flush, Messages
  <2>2. BrokerTypeOK'
    BY <1>3, <2>1, SendType DEF Flush
  <2> QED
    BY <1>3, <2>1, <2>2 DEF Flush
<1> QED
  BY <1>1, <1>2, <1>3 DEF SendStep

(* A call that starts gets the next message. *)
LEMMA CallType ==
  ASSUME TypeOK, NEW c \in Callers, NEW d \in Names, Call(c, d)
  PROVE  /\ cpc' \in [Callers -> CallPcs]
         /\ cdest' \in [Callers -> Names]
         /\ cmsg' \in [Callers -> 0 .. MaxMsgs]
         /\ nextMsg' \in 1 .. MaxMsgs + 1
         /\ CallsReady'
  BY Bounds DEF TypeOK, Types, CallsReady, CallPcs, Call

-----------------------------------------------------------------------------
(* Requests.                                                                *)
LEMMA RequestType ==
  ASSUME TypeOK, NEW r \in Requests,
         Request(r) \/ BadRequest(r) \/ RequestStep(r)
  PROVE  TypeOK'
<1>0. r \in Callers
  BY DEF Callers
<1> USE DEF TypeOK, Types, ListenersReady, listenerVars, callVars, mainVars
<1>1. CASE Request(r)
  <2>1. BrokerTypeOK'
    BY <1>1, BrokerIdle DEF Request
  <2> QED
    BY <1>0, <1>1, <2>1, CallType, SourceTable DEF Request
<1>2. CASE BadRequest(r)
  <2>1. BrokerTypeOK'
    BY <1>2, BrokerIdle DEF BadRequest
  <2> QED
    BY <1>2, <2>1 DEF BadRequest, CallsReady
<1>3. CASE Answer(r)
  <2>1. BrokerTypeOK'
    BY <1>3, BrokerIdle DEF Answer
  <2> QED
    BY <1>0, <1>3, <2>1 DEF Answer, CallsReady, CallPcs
<1>4. CASE SendStep(r)
  BY <1>0, <1>4, SendStepType
<1> QED
  BY <1>1, <1>2, <1>3, <1>4 DEF RequestStep

-----------------------------------------------------------------------------
(* Listeners.                                                               *)
LEMMA ListenerType ==
  ASSUME TypeOK, NEW s \in Sources, ListenerStep(s)
  PROVE  TypeOK'
<1>0. s \in Callers
  BY DEF Callers
<1> USE DEF TypeOK, Types, ListenersReady, ListenerPcs, mainVars, callVars,
            Listen, ListenerAt
<1>1. CASE ReceiveFails(s)
  <2>1. BrokerTypeOK'
    BY <1>1, BrokerIdle DEF ReceiveFails, ClearSlow, BrokerTypeOK
  <2> QED
    BY <1>1, <2>1 DEF ReceiveFails, CallsReady
<1>2. CASE Receive(s)
  <2>1. s \in NatsNodes
    BY <1>2 DEF Receive
  <2>2. BrokerTypeOK' /\ Head(pending[s]) \in Messages
    BY <1>2, <2>1, DequeueType DEF Receive
  <2>3. Append(taken[s], Head(pending[s])) \in Seq(Messages)
    BY <2>2, AppendIn
  <2>4. Head(pending[s]) \in 0 .. MaxMsgs
    BY <2>2, Bounds DEF Messages
  <2>5. taken' \in [Sources -> Seq(Messages)] /\ lmsg' \in [Sources -> 0 .. MaxMsgs]
    BY <1>2, <2>3, <2>4 DEF Receive, Got
  <2> QED
    BY <1>2, <2>1, <2>2, <2>5 DEF Receive, Got, CallsReady
<1>3. CASE StartWaiting(s) \/ WaitFails(s) \/ BadMessage(s) \/ TriggerFails(s)
  <2>1. BrokerTypeOK'
    BY <1>3, BrokerIdle DEF StartWaiting, WaitFails, BadMessage, TriggerFails
  <2> QED
    BY <1>3, <2>1 DEF StartWaiting, WaitFails, BadMessage, TriggerFails, CallsReady
<1>4. CASE Unmarshal(s) \/ TriggerDone(s)
  <2>1. BrokerTypeOK'
    BY <1>4, BrokerIdle DEF Unmarshal, TriggerDone
  <2>2. NumTriggers[s] \in Nat \ {0}
    BY SourceTable
  <2>3. ltrig[s] \in 1 .. NumTriggers[s] /\ s \in NatsNodes
    <3>1. lpc[s] = "decode" \/ lpc[s] = "trigger"
      BY <1>4 DEF Unmarshal, TriggerDone
    <3>2. lpc[s] # "off"
      BY <3>1
    <3>3. ltrig[s] \in 1 .. NumTriggers[s]
      BY Zenon
    <3> QED
      BY <3>2, <3>3
  <2>4. PICK i \in 1 .. NumTriggers[s] : ltrig' = [ltrig EXCEPT ![s] = i]
    <3>1. CASE Unmarshal(s)
      <4>1. 1 \in 1 .. NumTriggers[s] /\ ltrig' = [ltrig EXCEPT ![s] = 1]
        BY <2>2, <3>1 DEF Unmarshal
      <4> QED
        BY <4>1
    <3>2. CASE TriggerDone(s) /\ ltrig[s] < NumTriggers[s]
      <4>1. ltrig[s] + 1 \in 1 .. NumTriggers[s]
        BY <2>2, <2>3, <3>2
      <4> QED
        BY <3>2, <4>1 DEF TriggerDone
    <3>3. CASE TriggerDone(s) /\ ~(ltrig[s] < NumTriggers[s])
      BY <2>3, <3>3 DEF TriggerDone
    <3> QED
      BY <1>4, <3>1, <3>2, <3>3
  <2>5. ltrig' \in [Sources -> Nat] /\ \A t \in Sources : ltrig'[t] \in 1 .. NumTriggers[t]
    BY <2>2, <2>4
  <2>6. /\ lpc' \in [Sources -> ListenerPcs]
        /\ \A t \in Sources : lpc'[t] # "off" => t \in NatsNodes
    BY <1>4, <2>3 DEF Unmarshal, TriggerDone
  <2> QED
    BY <1>4, <2>1, <2>5, <2>6 DEF Unmarshal, TriggerDone, CallsReady
<1>5. CASE SendEvent(s)
  <2>1. BrokerTypeOK'
    BY <1>5, BrokerIdle DEF SendEvent
  <2> QED
    BY <1>0, <1>5, <2>1, CallType DEF SendEvent
<1>6. CASE EventSent(s)
  <2>1. BrokerTypeOK'
    BY <1>6, BrokerIdle DEF EventSent
  <2> QED
    BY <1>0, <1>6, <2>1 DEF EventSent, CallsReady, CallPcs
<1>7. CASE SendStep(s)
  BY <1>0, <1>7, SendStepType
<1> QED
  BY <1>1, <1>2, <1>3, <1>4, <1>5, <1>6, <1>7 DEF ListenerStep

-----------------------------------------------------------------------------
(* The broker and other programs.                                           *)
LEMMA WorldType ==
  ASSUME TypeOK,
         \/ \E p \in Conns : Serving(p) \/ Reading(p) \/ Failing(p)
         \/ \E p \in Conns, t \in Topics : Elsewhere(Url[p], t)
  PROVE  TypeOK'
<1> USE DEF TypeOK, Types, CallsReady, ListenersReady, mainVars, listenerVars,
            callVars
<1>1. ASSUME NEW p \in Conns, Serving(p) \/ Reading(p) \/ Failing(p)
      PROVE  TypeOK'
  <2>1. BrokerTypeOK'
    BY <1>1, ServerStepType, ClientStepType, BreakType
       DEF Serving, Reading, Failing
  <2> QED
    BY <1>1, <2>1 DEF Serving, Reading, Failing, Outside
<1>2. ASSUME NEW p \in Conns, NEW t \in Topics, Elsewhere(Url[p], t)
      PROVE  TypeOK'
  <2>1. nextMsg \in Messages /\ nextMsg' \in 1 .. MaxMsgs + 1
    BY <1>2, Bounds DEF Elsewhere, Messages
  <2>2. BrokerTypeOK'
    BY <1>2, <2>1, RouteType DEF Elsewhere, BrokerTypeOK
  <2> QED
    BY <1>2, <2>1, <2>2 DEF Elsewhere
<1> QED
  BY <1>1, <1>2

LEMMA TypeNext == TypeOK /\ [Next]_vars => TypeOK'
<1> SUFFICES ASSUME TypeOK, [Next]_vars
             PROVE  TypeOK'
  OBVIOUS
<1>1. CASE UNCHANGED vars
  BY <1>1, BrokerIdle
     DEF vars, TypeOK, Types, CallsReady, ListenersReady, mainVars,
         listenerVars, callVars
<1>2. CASE Next
  BY <1>2, MainType, RequestType, ListenerType, WorldType DEF Next, MainStep
<1> QED
  BY <1>1, <1>2

(* In every reachable state the variables hold values of their types. *)
THEOREM TypeCorrect == Spec => []TypeOK
  BY TypeInit, TypeNext, PTL DEF Spec

-----------------------------------------------------------------------------
(* The order of deliveries, node by node.                                   *)
Stream(n) ==
  /\ OfferedOnce(n) /\ WaitsInOrder(n) /\ ComesInOrder(n)
  /\ n \in Sources => TakenInOrder(n)

(* Queues have positions, and positions are numbers. *)
Queues ==
  \A n \in NatsNodes :
    /\ ProviderOf[n] \in Conns
    /\ inbox[ProviderOf[n]] \in Seq(ToClient)
    /\ offered[n] \in Seq(Messages) /\ pending[n] \in Seq(Messages)
    /\ n \in Sources => taken[n] \in Seq(Messages)
    /\ Batches(n) \subseteq 1 .. Len(inbox[ProviderOf[n]])
    /\ Batches(n) \subseteq Nat

LEMMA QueuesTyped == TypeOK => Queues
<1> SUFFICES ASSUME TypeOK, NEW n \in NatsNodes
             PROVE  Queues!(n)
  BY DEF Queues
<1>1. /\ ProviderOf[n] \in Conns
      /\ inbox[ProviderOf[n]] \in Seq(ToClient)
      /\ offered[n] \in Seq(Messages) /\ pending[n] \in Seq(Messages)
      /\ n \in Sources => taken[n] \in Seq(Messages)
  BY NodeConn DEF TypeOK, BrokerTypeOK, Types
<1>2. DOMAIN inbox[ProviderOf[n]] = 1 .. Len(inbox[ProviderOf[n]])
  BY <1>1
<1> QED BY <1>1, <1>2 DEF Batches

LEMMA QueuesTypedNext == TypeOK' => Queues'
  BY QueuesTyped, PTL

(* Nothing new is offered, comes back or waits: what comes back has moved   *)
(* up by d places.                                                          *)
LEMMA StreamKept ==
  ASSUME TypeOK, TypeOK', NEW n \in NatsNodes, Stream(n), NEW d \in Nat,
         offered'[n] = offered[n], pending'[n] = pending[n],
         n \in Sources => taken'[n] = taken[n],
         \A k \in Batches(n)' :
           k + d \in Batches(n) /\ Batched(n, k)' = Batched(n, k + d)
  PROVE  Stream(n)'
<1>1. \A a, b : Before(n, a, b)' <=> Before(n, a, b)
  BY DEF Before
<1>2. Batches(n)' \subseteq Nat
  BY QueuesTypedNext DEF Queues
<1>3. OfferedOnce(n)'
  BY DEF Stream, OfferedOnce
<1>4. WaitsInOrder(n)'
  BY <1>1 DEF Stream, WaitsInOrder
<1>5. ComesInOrder(n)'
  <2>1. ASSUME NEW k \in Batches(n)'
        PROVE  Batched(n, k)' \in Elements(offered'[n])
    BY <2>1 DEF Stream, ComesInOrder
  <2>2. ASSUME NEW k \in Batches(n)', NEW l \in Batches(n)', k < l
        PROVE  Before(n, Batched(n, k), Batched(n, l))'
    <3>1. k + d < l + d
      BY <1>2, <2>2
    <3>2. Before(n, Batched(n, k + d), Batched(n, l + d))
      BY <3>1 DEF Stream, ComesInOrder
    <3>3. Before(n, Batched(n, k)', Batched(n, l)')
      BY <3>2
    <3> QED BY <1>1, <3>3 DEF Before
  <2> QED BY <2>1, <2>2 DEF ComesInOrder
<1>6. n \in Sources => TakenInOrder(n)'
  BY <1>1 DEF Stream, TakenInOrder
<1> QED BY <1>3, <1>4, <1>5, <1>6 DEF Stream

(* The server hands out a message that nobody was offered before. *)
LEMMA OfferedMore ==
  ASSUME TypeOK, NEW n \in NatsNodes, OfferedOnce(n), NEW m \in Messages,
         Unsent(m), offered'[n] = Append(offered[n], m)
  PROVE  /\ OfferedOnce(n)'
         /\ Elements(offered'[n]) = Elements(offered[n]) \cup {m}
         /\ \A a, b : Before(n, a, b) => Before(n, a, b)'
         /\ \A a \in Elements(offered[n]) : Before(n, a, m)'
<1> DEFINE q == offered[n]
           k == Len(q) + 1
<1>1. q \in Seq(Messages)
  BY DEF TypeOK, BrokerTypeOK
<1>2. /\ Len(q) \in Nat /\ DOMAIN q = 1 .. Len(q)
      /\ DOMAIN offered'[n] = 1 .. k
      /\ \A i \in DOMAIN q : offered'[n][i] = q[i]
      /\ offered'[n][k] = m
  BY <1>1, AppendAt
<1>3. \A i \in DOMAIN q : q[i] # m
  BY DEF Unsent, Elements
<1>4. OfferedOnce(n)'
  <2>1. ASSUME NEW i \in 1 .. k, NEW j \in 1 .. k, offered'[n][i] = offered'[n][j]
        PROVE  i = j
    <3>1. (i \in DOMAIN q \/ i = k) /\ (j \in DOMAIN q \/ j = k)
      BY <1>2
    <3> QED BY <1>2, <1>3, <2>1, <3>1 DEF OfferedOnce
  <2> QED BY <1>2, <2>1 DEF OfferedOnce
<1>5. Elements(offered'[n]) = Elements(q) \cup {m}
  BY <1>1, ElementsAppended
<1>6. ASSUME NEW a, NEW b, Before(n, a, b)
      PROVE  Before(n, a, b)'
  <2>1. PICK i \in DOMAIN q, j \in DOMAIN q : i < j /\ q[i] = a /\ q[j] = b
    BY <1>6 DEF Before
  <2>2. i \in 1 .. k /\ j \in 1 .. k
    BY <1>2
  <2> QED BY <1>2, <2>1, <2>2 DEF Before
<1>7. ASSUME NEW a \in Elements(q)
      PROVE  Before(n, a, m)'
  <2>1. PICK i \in DOMAIN q : q[i] = a
    BY DEF Elements
  <2>2. i \in 1 .. k /\ k \in 1 .. k /\ i < k
    BY <1>2
  <2> QED BY <1>2, <2>1, <2>2 DEF Before
<1> QED BY <1>4, <1>5, <1>6, <1>7

LEMMA StreamRouted ==
  ASSUME TypeOK, TypeOK', NEW n \in NatsNodes, Stream(n),
         NEW u, NEW t, NEW m \in Messages, Unsent(m), Route(u, t, m),
         pending' = pending, taken' = taken
  PROVE  Stream(n)'
<1> DEFINE R == Receivers(u, t)
           q == inbox[ProviderOf[n]]
<1>1. ProviderOf[n] \in Conns /\ Batches(n) \subseteq 1 .. Len(q) /\ Len(q) \in Nat
  <2>1. Queues
    BY QueuesTyped
  <2> QED BY <2>1 DEF Queues
<1>2. ASSUME NEW k \in Batches(n)'
      PROVE  \/ k \in Batches(n) /\ Batched(n, k)' = Batched(n, k)
             \/ n \in R /\ k = Len(q) + 1 /\ Batched(n, k)' = m
  <2> DEFINE p == ProviderOf[n]
  <2>1. BrokerTypeOK /\ p \in Conns
    BY <1>1 DEF TypeOK
  <2> HIDE DEF p
  <2>2. \/ k \in DOMAIN inbox[p] /\ inbox'[p][k] = inbox[p][k]
        \/ /\ k = Len(inbox[p]) + 1 /\ inbox'[p][k].msg = m
           /\ \A x \in inbox'[p][k].to : x \in R
    BY <2>1, BatchesAt DEF p, Batches
  <2> QED BY <2>2 DEF p, Batches, Batched
<1>3. CASE n \notin R
  <2>1. offered'[n] = offered[n]
    BY <1>3 DEF Route
  <2>2. \A k \in Batches(n)' :
          k + 0 \in Batches(n) /\ Batched(n, k)' = Batched(n, k + 0)
    BY <1>1, <1>2, <1>3
  <2> QED BY <2>1, <2>2, StreamKept
<1>4. CASE n \in R
  <2>1. offered'[n] = Append(offered[n], m)
    BY <1>4 DEF Route
  <2>2. /\ OfferedOnce(n)'
        /\ Elements(offered'[n]) = Elements(offered[n]) \cup {m}
        /\ \A a, b : Before(n, a, b) => Before(n, a, b)'
        /\ \A a \in Elements(offered[n]) : Before(n, a, m)'
    BY <2>1, OfferedMore DEF Stream
  <2>3. WaitsInOrder(n)'
    <3>1. ASSUME NEW i \in DOMAIN pending[n]
          PROVE  pending[n][i] \in Elements(offered[n])
      BY DEF Stream, WaitsInOrder
    <3>2. ASSUME NEW i \in DOMAIN pending[n], NEW k \in Batches(n)'
          PROVE  Before(n, pending[n][i], Batched(n, k))'
      BY <1>2, <2>2, <3>1 DEF Stream, WaitsInOrder
    <3> QED BY <2>2, <3>1, <3>2 DEF Stream, WaitsInOrder
  <2>4. ComesInOrder(n)'
    <3>1. ASSUME NEW k \in Batches(n)'
          PROVE  Batched(n, k)' \in Elements(offered'[n])
      BY <1>2, <2>2 DEF Stream, ComesInOrder
    <3>2. ASSUME NEW k \in Batches(n)', NEW l \in Batches(n)', k < l
          PROVE  Before(n, Batched(n, k), Batched(n, l))'
      <4>1. k \in Batches(n) /\ Batched(n, k)' = Batched(n, k)
        BY <1>1, <1>2, <3>2
      <4>2. Batched(n, k) \in Elements(offered[n])
        BY <4>1 DEF Stream, ComesInOrder
      <4> QED BY <1>2, <2>2, <3>2, <4>1, <4>2 DEF Stream, ComesInOrder
    <3> QED BY <3>1, <3>2 DEF ComesInOrder
  <2>5. n \in Sources => TakenInOrder(n)'
    <3>1. ASSUME n \in Sources, NEW i \in DOMAIN taken[n]
          PROVE  taken[n][i] \in Elements(offered[n])
      BY <3>1 DEF Stream, TakenInOrder
    <3>2. ASSUME n \in Sources, NEW i \in DOMAIN taken[n], NEW k \in Batches(n)'
          PROVE  Before(n, taken[n][i], Batched(n, k))'
      BY <1>2, <2>2, <3>1, <3>2 DEF Stream, TakenInOrder
    <3> QED BY <2>2, <3>1, <3>2 DEF Stream, TakenInOrder
  <2> QED BY <2>2, <2>3, <2>4, <2>5 DEF Stream
<1> QED BY <1>3, <1>4

(* The library reads a batch: it moves from the connection to the channel. *)
LEMMA StreamRead ==
  ASSUME TypeOK, TypeOK', AddressedHere, NEW n \in NatsNodes, Stream(n),
         NEW p \in Conns, ClientStep(p), taken' = taken
  PROVE  Stream(n)'
<1> DEFINE it == Head(inbox[p])
<1>1. /\ inbox[p] \in Seq(ToClient) /\ inbox \in [Conns -> Seq(ToClient)]
      /\ pending \in [NatsNodes -> Seq(Messages)]
      /\ ProviderOf[n] \in Conns
  BY NodeConn DEF TypeOK, BrokerTypeOK
<1>2. /\ inbox[p] # <<>> /\ inbox' = [inbox EXCEPT ![p] = Tail(inbox[p])]
      /\ offered' = offered
  BY DEF ClientStep
<1>3. /\ Len(inbox[p]) \in Nat \ {0} /\ DOMAIN inbox[p] = 1 .. Len(inbox[p])
      /\ it = inbox[p][1]
      /\ inbox'[p] = Tail(inbox[p])
      /\ DOMAIN Tail(inbox[p]) = 1 .. Len(inbox[p]) - 1
      /\ \A i \in 1 .. Len(inbox[p]) - 1 : Tail(inbox[p])[i] = inbox[p][i + 1]
  BY <1>1, <1>2, TailAt
<1>4. 1 \in DOMAIN inbox[p] /\ it \in ToClient
  BY <1>1, <1>3
<1>5. CASE ProviderOf[n] # p
  <2>1. inbox'[ProviderOf[n]] = inbox[ProviderOf[n]]
    BY <1>1, <1>2, <1>5
  <2>2. \A k \in Batches(n)' : k \in Batches(n) /\ Batched(n, k)' = Batched(n, k)
    BY <2>1 DEF Batches, Batched
  <2>3. \A k \in Batches(n)' :
          k + 0 \in Batches(n) /\ Batched(n, k)' = Batched(n, k + 0)
    BY <2>2, QueuesTypedNext DEF Queues
  <2>4. it.kind = "batch" => n \notin it.to
    BY <1>3, <1>4, <1>5 DEF AddressedHere
  <2>5. pending'[n] = pending[n]
    BY <1>1, <2>4 DEF ClientStep
  <2> QED BY <1>2, <2>3, <2>5, StreamKept
<1>6. CASE ProviderOf[n] = p
  <2>1. \A k \in Batches(n)' :
          k + 1 \in Batches(n) /\ Batched(n, k)' = Batched(n, k + 1)
    <3>1. ASSUME NEW k \in Batches(n)'
          PROVE  k + 1 \in Batches(n) /\ Batched(n, k)' = Batched(n, k + 1)
      <4>1. k \in 1 .. Len(inbox[p]) - 1 /\ inbox'[p][k] = inbox[p][k + 1]
        BY <1>3, <1>6 DEF Batches
      <4>2. k + 1 \in DOMAIN inbox[p]
        BY <1>3, <4>1
      <4> QED BY <1>6, <4>1, <4>2 DEF Batches, Batched
    <3> QED BY <3>1
  <2>2. CASE pending'[n] = pending[n]
    BY <1>2, <2>1, <2>2, StreamKept
  <2>3. CASE pending'[n] # pending[n]
    <3> DEFINE m == it.msg
               q == pending[n]
    <3>1. it.kind = "batch" /\ n \in it.to /\ pending'[n] = Append(q, m)
      BY <1>1, <2>3 DEF ClientStep
    <3>2. 1 \in Batches(n) /\ Batched(n, 1) = m
      BY <1>3, <1>4, <1>6, <3>1 DEF Batches, Batched
    <3>3. m \in Messages /\ q \in Seq(Messages)
      BY <1>1, <1>4, <3>1, ReceivedKinds
    <3> HIDE DEF m
    <3>4. /\ Len(q) \in Nat /\ DOMAIN q = 1 .. Len(q)
          /\ DOMAIN pending'[n] = 1 .. Len(q) + 1
          /\ \A i \in 1 .. Len(q) : pending'[n][i] = q[i]
          /\ pending'[n][Len(q) + 1] = m
      BY <3>1, <3>3, AppendAt
    <3>5. \A a, b : Before(n, a, b) => Before(n, a, b)'
      BY <1>2 DEF Before
    <3>6. \A k \in Batches(n)' : k \in Nat \ {0} /\ 1 < k + 1
      BY <1>1, QueuesTypedNext DEF Queues
    <3>7. m \in Elements(offered[n])
      BY <3>2 DEF Stream, ComesInOrder
    <3>8. \A i \in DOMAIN q : Before(n, q[i], m)
      BY <3>2 DEF Stream, WaitsInOrder
    <3>9. \A k \in Batches(n)' : Before(n, m, Batched(n, k + 1))
      BY <2>1, <3>2, <3>6 DEF Stream, ComesInOrder
    <3>10. OfferedOnce(n)' /\ Elements(offered'[n]) = Elements(offered[n])
      BY <1>2 DEF Stream, OfferedOnce
    <3>11. WaitsInOrder(n)'
      <4>1. ASSUME NEW i \in DOMAIN pending'[n]
            PROVE  /\ pending'[n][i] \in Elements(offered[n])
                   /\ \A j \in DOMAIN pending'[n] :
                        i < j => Before(n, pending'[n][i], pending'[n][j])
                   /\ \A k \in Batches(n)' :
                        Before(n, pending'[n][i], Batched(n, k + 1))
        <5>1. CASE i \in DOMAIN q
          <6>1. pending'[n][i] = q[i]
            BY <3>4, <5>1
          <6>2. ASSUME NEW j \in DOMAIN pending'[n], i < j
                PROVE  Before(n, q[i], pending'[n][j])
            BY <3>4, <3>8, <5>1, <6>2 DEF Stream, WaitsInOrder
          <6> QED BY <2>1, <5>1, <6>1, <6>2 DEF Stream, WaitsInOrder
        <5>2. CASE i \notin DOMAIN q
          <6>1. i = Len(q) + 1 /\ pending'[n][i] = m
            BY <3>4, <5>2
          <6> QED BY <3>4, <3>7, <3>9, <6>1
        <5> QED BY <5>1, <5>2
      <4> QED BY <2>1, <3>5, <3>10, <4>1 DEF WaitsInOrder
    <3>12. ComesInOrder(n)'
      <4>1. ASSUME NEW k \in Batches(n)', NEW l \in Batches(n)', k < l
            PROVE  Before(n, Batched(n, k + 1), Batched(n, l + 1))
        <5>1. k + 1 < l + 1
          BY <3>6, <4>1
        <5> QED BY <2>1, <5>1 DEF Stream, ComesInOrder
      <4>2. \A k \in Batches(n)' : Batched(n, k + 1) \in Elements(offered[n])
        BY <2>1 DEF Stream, ComesInOrder
      <4> QED BY <2>1, <3>5, <3>10, <4>1, <4>2 DEF ComesInOrder
    <3>13. n \in Sources => TakenInOrder(n)'
      <4>1. ASSUME n \in Sources, NEW i \in DOMAIN taken[n]
            PROVE  /\ taken[n][i] \in Elements(offered[n])
                   /\ \A j \in DOMAIN taken[n] :
                        i < j => Before(n, taken[n][i], taken[n][j])
                   /\ \A j \in DOMAIN pending'[n] :
                        Before(n, taken[n][i], pending'[n][j])
                   /\ \A k \in Batches(n)' : Before(n, taken[n][i], Batched(n, k + 1))
        <5>1. /\ taken[n][i] \in Elements(offered[n])
              /\ \A j \in DOMAIN taken[n] :
                   i < j => Before(n, taken[n][i], taken[n][j])
              /\ \A j \in DOMAIN q : Before(n, taken[n][i], q[j])
              /\ \A k \in Batches(n) : Before(n, taken[n][i], Batched(n, k))
          BY <4>1 DEF Stream, TakenInOrder
        <5> QED BY <2>1, <3>2, <3>4, <5>1
      <4> QED BY <2>1, <3>5, <3>10, <4>1 DEF TakenInOrder
    <3> QED BY <3>10, <3>11, <3>12, <3>13 DEF Stream
  <2> QED BY <2>2, <2>3
<1> QED BY <1>5, <1>6

(* A listener takes the first message of its channel. *)
LEMMA StreamTaken ==
  ASSUME TypeOK, TypeOK', NEW n \in NatsNodes, Stream(n), NEW s \in Readable,
         Dequeue(s), taken' = [taken EXCEPT ![s] = Append(taken[s], Head(pending[s]))]
  PROVE  Stream(n)'
<1>1. /\ inbox' = inbox /\ offered' = offered
      /\ pending[s] # <<>> /\ pending' = [pending EXCEPT ![s] = Tail(pending[s])]
  BY DEF Dequeue
<1>2. \A k \in Batches(n)' :
        k \in Batches(n) /\ k + 0 \in Batches(n)
        /\ Batched(n, k)' = Batched(n, k) /\ Batched(n, k)' = Batched(n, k + 0)
  <2>1. \A k \in Batches(n)' : k \in Batches(n) /\ Batched(n, k)' = Batched(n, k)
    BY <1>1 DEF Batches, Batched
  <2> QED BY <2>1, QueuesTypedNext DEF Queues
<1>3. /\ pending \in [NatsNodes -> Seq(Messages)] /\ taken \in [Sources -> Seq(Messages)]
      /\ s \in Sources \cap NatsNodes
  BY DEF TypeOK, BrokerTypeOK, Types, Readable
<1>4. CASE n # s
  BY <1>1, <1>2, <1>3, <1>4, StreamKept
<1>5. CASE n = s
  <2> DEFINE q == pending[n]
             m == Head(q)
             t == taken[n]
  <2>1. /\ Len(q) \in Nat \ {0} /\ DOMAIN q = 1 .. Len(q)
        /\ m = q[1]
        /\ DOMAIN pending'[n] = 1 .. Len(q) - 1
        /\ \A i \in 1 .. Len(q) - 1 : pending'[n][i] = q[i + 1]
    BY <1>1, <1>3, <1>5, TailAt
  <2>2. m \in Messages /\ 1 \in DOMAIN q
    BY <1>3, <1>5, <2>1
  <2>3. /\ Len(t) \in Nat /\ DOMAIN t = 1 .. Len(t)
        /\ DOMAIN taken'[n] = 1 .. Len(t) + 1
        /\ \A i \in 1 .. Len(t) : taken'[n][i] = t[i]
        /\ taken'[n][Len(t) + 1] = m
    <3>1. taken'[n] = Append(t, m) /\ t \in Seq(Messages)
      BY <1>3, <1>5
    <3> HIDE DEF m, t
    <3> QED BY <2>2, <3>1, AppendAt
  <2> HIDE DEF m
  <2>4. \A a, b : Before(n, a, b) => Before(n, a, b)'
    BY <1>1 DEF Before
  <2>5. OfferedOnce(n)' /\ Elements(offered'[n]) = Elements(offered[n])
    BY <1>1 DEF Stream, OfferedOnce
  <2>6. \A j \in DOMAIN pending'[n] :
          j \in Nat /\ j + 1 \in DOMAIN q /\ pending'[n][j] = q[j + 1] /\ 1 < j + 1
    BY <2>1
  <2>7. WaitsInOrder(n)'
    <3>1. ASSUME NEW i \in DOMAIN pending'[n]
          PROVE  /\ q[i + 1] \in Elements(offered[n])
                 /\ \A j \in DOMAIN pending'[n] :
                      i < j => Before(n, q[i + 1], q[j + 1])
                 /\ \A k \in Batches(n) : Before(n, q[i + 1], Batched(n, k))
      <4>1. \A j \in DOMAIN pending'[n] : i < j => i + 1 < j + 1
        BY <2>6
      <4> QED BY <2>6, <4>1 DEF Stream, WaitsInOrder
    <3> QED BY <1>2, <2>4, <2>5, <2>6, <3>1 DEF WaitsInOrder
  <2>8. ComesInOrder(n)'
    BY <1>2, <2>4, <2>5 DEF Stream, ComesInOrder
  <2>9. TakenInOrder(n)'
    <3>1. ASSUME NEW i \in DOMAIN taken'[n]
          PROVE  /\ taken'[n][i] \in Elements(offered[n])
                 /\ \A j \in DOMAIN pending'[n] : Before(n, taken'[n][i], q[j + 1])
                 /\ \A k \in Batches(n) : Before(n, taken'[n][i], Batched(n, k))
      <4>1. CASE i \in DOMAIN t
        <5>1. taken'[n][i] = t[i]
          BY <2>3, <4>1
        <5> QED BY <1>3, <1>5, <2>6, <4>1, <5>1 DEF Stream, TakenInOrder
      <4>2. CASE i \notin DOMAIN t
        <5>1. taken'[n][i] = q[1]
          BY <2>1, <2>3, <4>2
        <5> QED BY <2>2, <2>6, <5>1 DEF Stream, WaitsInOrder
      <4> QED BY <4>1, <4>2
    <3>2. ASSUME NEW i \in DOMAIN taken'[n], NEW j \in DOMAIN taken'[n], i < j
          PROVE  Before(n, taken'[n][i], taken'[n][j])
      <4>1. i \in DOMAIN t /\ taken'[n][i] = t[i]
        BY <2>3, <3>2
      <4>2. CASE j \in DOMAIN t
        BY <1>3, <1>5, <2>3, <3>2, <4>1, <4>2 DEF Stream, TakenInOrder
      <4>3. CASE j \notin DOMAIN t
        <5>1. taken'[n][j] = q[1]
          BY <2>1, <2>3, <4>3
        <5> QED BY <1>3, <1>5, <2>2, <4>1, <5>1 DEF Stream, TakenInOrder
      <4> QED BY <4>2, <4>3
    <3> QED BY <1>2, <2>4, <2>5, <2>6, <3>1, <3>2 DEF TakenInOrder
  <2> QED BY <2>5, <2>7, <2>8, <2>9 DEF Stream
<1> QED BY <1>4, <1>5

(* The server answers a ping: what comes back grows, but not by a batch. *)
LEMMA PongAt ==
  ASSUME TypeOK, NEW p \in Conns, NEW m \in Messages,
         inbox' = [inbox EXCEPT ![p] = Append(inbox[p], PongItem(m))], NEW q \in Conns
  PROVE  \A k \in DOMAIN inbox'[q] :
           \/ k \in DOMAIN inbox[q] /\ inbox'[q][k] = inbox[q][k]
           \/ q = p /\ k = Len(inbox[p]) + 1 /\ inbox'[q][k] = PongItem(m)
<1>1. inbox[p] \in Seq(ToClient) /\ inbox \in [Conns -> Seq(ToClient)]
  BY DEF TypeOK, BrokerTypeOK
<1>2. PongItem(m) \in ToClient
  BY DEF ToClient
<1>3. CASE q = p
  <2>1. inbox'[p] = Append(inbox[p], PongItem(m))
    BY <1>1
  <2>2. /\ DOMAIN inbox[p] = 1 .. Len(inbox[p]) /\ Len(inbox[p]) \in Nat
        /\ DOMAIN inbox'[p] = 1 .. Len(inbox[p]) + 1
        /\ \A i \in 1 .. Len(inbox[p]) : inbox'[p][i] = inbox[p][i]
        /\ inbox'[p][Len(inbox[p]) + 1] = PongItem(m)
    BY <1>1, <1>2, <2>1, AppendAt
  <2> QED BY <1>3, <2>2
<1>4. CASE q # p
  BY <1>1, <1>4
<1> QED BY <1>3, <1>4

(* A step of the server. *)
LEMMA StreamServed ==
  ASSUME TypeOK, TypeOK', PublishedOnce, NEW n \in NatsNodes, Stream(n),
         NEW p \in Conns, ServerStep(p), taken' = taken
  PROVE  Stream(n)'
<1> DEFINE it == Head(outbox[p])
<1>1. /\ outbox[p] \in Seq(ToServer) /\ outbox[p] # <<>> /\ pending' = pending
  BY DEF ServerStep, TypeOK, BrokerTypeOK
<1>2. it \in ToServer /\ it = outbox[p][1] /\ 1 \in DOMAIN outbox[p]
  BY <1>1
<1>3. CASE it.kind = "sub" /\ UNCHANGED <<inbox, offered>>
  <2>1. \A k \in Batches(n)' : k \in Batches(n) /\ Batched(n, k)' = Batched(n, k)
    BY <1>3 DEF Batches, Batched
  <2>2. \A k \in Batches(n)' :
          k + 0 \in Batches(n) /\ Batched(n, k)' = Batched(n, k + 0)
    BY <2>1, QueuesTypedNext DEF Queues
  <2> QED BY <1>1, <1>3, <2>2, StreamKept
<1>4. CASE it.kind = "msg" /\ Route(Url[p], it.topic, it.msg)
  <2>1. it.msg \in Messages /\ Unsent(it.msg)
    BY <1>2, <1>4, SentKinds DEF PublishedOnce, Msgs
  <2> QED BY <1>1, <1>4, <2>1, StreamRouted
<1>5. CASE /\ it.kind = "ping" /\ offered' = offered
           /\ inbox' = [inbox EXCEPT ![p] = Append(inbox[p], PongItem(it.msg))]
  <2>1. it.msg \in Messages /\ ProviderOf[n] \in Conns
    BY <1>2, <1>5, SentKinds, NodeConn
  <2>2. ASSUME NEW k \in Batches(n)'
        PROVE  k \in Batches(n) /\ Batched(n, k)' = Batched(n, k)
    <3> DEFINE q == ProviderOf[n]
    <3> HIDE DEF it, q
    <3>1. \A i \in DOMAIN inbox'[q] :
            \/ i \in DOMAIN inbox[q] /\ inbox'[q][i] = inbox[q][i]
            \/ inbox'[q][i] = PongItem(it.msg)
      <4>1. q \in Conns
        BY <2>1 DEF q
      <4> QED BY <1>5, <2>1, <4>1, PongAt
    <3> QED BY <3>1 DEF q, Batches, Batched, PongItem
  <2>3. \A k \in Batches(n)' :
          k + 0 \in Batches(n) /\ Batched(n, k)' = Batched(n, k + 0)
    BY <2>2, QueuesTypedNext DEF Queues
  <2> QED BY <1>1, <1>5, <2>3, StreamKept
<1> QED BY <1>3, <1>4, <1>5 DEF ServerStep

(* A connection that breaks brings back nothing. *)
LEMMA StreamBroken ==
  ASSUME TypeOK, TypeOK', NEW n \in NatsNodes, Stream(n),
         NEW p \in Conns, Break(p), taken' = taken
  PROVE  Stream(n)'
<1>1. /\ pending' = pending /\ offered' = offered
      /\ inbox' = [inbox EXCEPT ![p] = <<>>]
  BY DEF Break
<1>2. inbox \in [Conns -> Seq(ToClient)] /\ ProviderOf[n] \in Conns
  BY NodeConn DEF TypeOK, BrokerTypeOK
<1>3. ASSUME NEW k \in Batches(n)'
      PROVE  k \in Batches(n) /\ Batched(n, k)' = Batched(n, k)
  <2>1. ProviderOf[n] # p
    BY <1>1, <1>2, EmptyAt DEF Batches
  <2> QED BY <1>1, <1>2, <2>1 DEF Batches, Batched
<1>4. \A k \in Batches(n)' :
        k + 0 \in Batches(n) /\ Batched(n, k)' = Batched(n, k + 0)
  BY <1>3, QueuesTypedNext DEF Queues
<1> QED BY <1>1, <1>4, StreamKept

(* Nothing of this changes in any other step. *)
LEMMA StreamIdle ==
  ASSUME TypeOK, TypeOK', NEW n \in NatsNodes, Stream(n),
         UNCHANGED <<inbox, pending, offered, taken>>
  PROVE  Stream(n)'
<1>1. \A k \in Batches(n)' : k \in Batches(n) /\ Batched(n, k)' = Batched(n, k)
  BY DEF Batches, Batched
<1>2. \A k \in Batches(n)' :
        k + 0 \in Batches(n) /\ Batched(n, k)' = Batched(n, k + 0)
  BY <1>1, QueuesTypedNext DEF Queues
<1> QED BY <1>2, StreamKept

(* The steps that touch neither a channel nor what leads to it. *)
QuietStep ==
  \/ MainStep \/ Exit
  \/ \E s \in Sources : MapRace(s) \/ (ListenerStep(s) /\ ~Receive(s))
  \/ \E r \in Requests : Request(r) \/ BadRequest(r) \/ RequestStep(r)

LEMMA Quiet == QuietStep => UNCHANGED <<inbox, pending, offered, taken>>
<1> USE DEF brokerVars, listenerVars, Goto, Listen
<1>1. ASSUME NEW c \in Callers, SendStep(c)
      PROVE  UNCHANGED <<inbox, pending, offered, taken>>
  BY <1>1 DEF SendStep, SendFails, Post, Publish, Flush, FlushOk, FlushFails,
              PublishMsg, SendPing
<1>2. CASE MainStep \/ Exit \/ \E s \in Sources : MapRace(s)
  BY <1>2 DEF MainStep, StartListener, Serve, Subscribe, StartFails, Exit, MapRace,
              SubscribeSync
<1>3. ASSUME NEW r \in Requests, Request(r) \/ BadRequest(r) \/ RequestStep(r)
      PROVE  UNCHANGED <<inbox, pending, offered, taken>>
  BY <1>1, <1>3 DEF Callers, Request, BadRequest, RequestStep, Answer
<1>4. ASSUME NEW s \in Sources, ListenerStep(s), ~Receive(s)
      PROVE  UNCHANGED <<inbox, pending, offered, taken>>
  BY <1>1, <1>4 DEF Callers, ListenerStep, ReceiveFails, ClearSlow, StartWaiting,
              WaitFails, Unmarshal, BadMessage, TriggerDone, TriggerFails, SendEvent,
              EventSent
<1> QED BY <1>2, <1>3, <1>4 DEF QuietStep

LEMMA StreamNext ==
  ASSUME TypeOK, TypeOK', PublishedOnce, AddressedHere,
         NEW n \in NatsNodes, Stream(n), Next
  PROVE  Stream(n)'
<1>1. CASE QuietStep
  BY <1>1, Quiet, StreamIdle
<1>2. ASSUME NEW s \in Sources, Receive(s)
      PROVE  Stream(n)'
  <2>1. s \in Readable
    BY <1>2 DEF Receive, ListenerAt, TypeOK, ListenersReady, Readable
  <2> QED BY <1>2, <2>1, StreamTaken DEF Receive, Got
<1>3. ASSUME NEW p \in Conns, Serving(p)
      PROVE  Stream(n)'
  BY <1>3, StreamServed DEF Serving, Outside, listenerVars
<1>4. ASSUME NEW p \in Conns, Reading(p)
      PROVE  Stream(n)'
  BY <1>4, StreamRead DEF Reading, Outside, listenerVars
<1>5. ASSUME NEW p \in Conns, Failing(p)
      PROVE  Stream(n)'
  BY <1>5, StreamBroken DEF Failing, Reconnect, GiveUp, Outside, listenerVars
<1>6. ASSUME NEW p \in Conns, NEW t \in Topics, Elsewhere(Url[p], t)
      PROVE  Stream(n)'
  <2>1. nextMsg \in Messages /\ nextMsg >= nextMsg
    BY <1>6, Bounds DEF Elsewhere, Messages, TypeOK, Types
  <2>2. Unsent(nextMsg)
    BY <2>1 DEF PublishedOnce
  <2> QED BY <1>6, <2>1, <2>2, StreamRouted DEF Elsewhere, listenerVars
<1> QED BY <1>1, <1>2, <1>3, <1>4, <1>5, <1>6 DEF Next, QuietStep

-----------------------------------------------------------------------------
(* The other parts of the invariant.                                        *)

(* What the server writes for a message is addressed to whom it goes to.    *)
LEMMA AddressedRouted ==
  ASSUME TypeOK, AddressedHere, NEW u, NEW t, NEW m \in Messages, Route(u, t, m)
  PROVE  AddressedHere'
<1> SUFFICES ASSUME NEW p \in Conns, NEW k \in DOMAIN inbox'[p],
                    inbox'[p][k].kind = "batch", NEW n \in inbox'[p][k].to
             PROVE  ProviderOf[n] = p
  BY DEF AddressedHere
<1>1. BrokerTypeOK
  BY DEF TypeOK
<1>2. \/ k \in DOMAIN inbox[p] /\ inbox'[p][k] = inbox[p][k]
      \/ \A x \in inbox'[p][k].to : ProviderOf[x] = p
  BY <1>1, BatchesAt
<1> QED BY <1>2 DEF AddressedHere

LEMMA AddressedNext == ASSUME TypeOK, AddressedHere, Next PROVE AddressedHere'
<1>1. CASE UNCHANGED inbox
  BY <1>1 DEF AddressedHere
<1>2. CASE QuietStep \/ \E s \in Sources : Receive(s)
  BY <1>1, <1>2, Quiet DEF Receive, Dequeue
<1>3. ASSUME NEW p \in Conns, Serving(p)
      PROVE  AddressedHere'
  <2> DEFINE it == Head(outbox[p])
  <2>1. it \in ToServer
    BY <1>3, TailIn DEF Serving, ServerStep, TypeOK, BrokerTypeOK
  <2>2. CASE it.kind = "msg" /\ Route(Url[p], it.topic, it.msg)
    BY <2>1, <2>2, SentKinds, AddressedRouted
  <2>3. CASE /\ it.kind = "ping"
             /\ inbox' = [inbox EXCEPT ![p] = Append(inbox[p], PongItem(it.msg))]
    <3>1. it.msg \in Messages
      BY <2>1, <2>3, SentKinds
    <3> HIDE DEF it
    <3>2. ASSUME NEW q \in Conns, NEW k \in DOMAIN inbox'[q],
                 inbox'[q][k].kind = "batch"
          PROVE  k \in DOMAIN inbox[q] /\ inbox'[q][k] = inbox[q][k]
      BY <2>3, <3>1, <3>2, PongAt DEF PongItem
    <3> QED BY <3>2 DEF AddressedHere
  <2> QED BY <1>1, <1>3, <2>2, <2>3 DEF Serving, ServerStep
<1>4. ASSUME NEW p \in Conns, Reading(p)
      PROVE  AddressedHere'
  <2>1. /\ inbox[p] \in Seq(ToClient) /\ inbox[p] # <<>>
        /\ inbox \in [Conns -> Seq(ToClient)]
        /\ inbox' = [inbox EXCEPT ![p] = Tail(inbox[p])]
    BY <1>4 DEF Reading, ClientStep, TypeOK, BrokerTypeOK
  <2>2. ASSUME NEW q \in Conns, NEW k \in DOMAIN inbox'[q]
        PROVE  \E i \in DOMAIN inbox[q] : inbox'[q][k] = inbox[q][i]
    <3>1. CASE q = p
      <4>1. k + 1 \in DOMAIN inbox[q] /\ inbox'[q][k] = inbox[q][k + 1]
        BY <2>1, <2>2, <3>1, TailAt
      <4> QED BY <4>1
    <3>2. CASE q # p
      BY <2>1, <3>2
    <3> QED BY <3>1, <3>2
  <2> QED BY <2>2 DEF AddressedHere
<1>5. ASSUME NEW p \in Conns, Failing(p)
      PROVE  AddressedHere'
  <2>1. inbox' = [inbox EXCEPT ![p] = <<>>] /\ inbox \in [Conns -> Seq(ToClient)]
    BY <1>5 DEF Failing, Reconnect, GiveUp, Break, TypeOK, BrokerTypeOK
  <2>2. ASSUME NEW q \in Conns, NEW k \in DOMAIN inbox'[q]
        PROVE  k \in DOMAIN inbox[q] /\ inbox'[q][k] = inbox[q][k]
    BY <2>1, <2>2, EmptyAt
  <2> QED BY <2>2 DEF AddressedHere
<1>6. ASSUME NEW p \in Conns, NEW t \in Topics, Elsewhere(Url[p], t)
      PROVE  AddressedHere'
  <2>1. nextMsg \in Messages
    BY <1>6, Bounds DEF Elsewhere, Messages, TypeOK, Types
  <2> QED BY <1>6, <2>1, AddressedRouted DEF Elsewhere
<1> QED BY <1>2, <1>3, <1>4, <1>5, <1>6 DEF Next, QuietStep

LEMMA NotStartedNext == ASSUME TypeOK, NotStarted, Next PROVE NotStarted'
<1> USE DEF NotStarted, TypeOK, Types, mainVars, listenerVars, Goto, Listen, ListenerAt
<1>1. ASSUME NEW c \in Callers, SendStep(c)
      PROVE  NotStarted'
  BY <1>1 DEF SendStep, SendFails, Post, Publish, Flush, FlushOk, FlushFails
<1>2. CASE MainStep \/ Exit \/ \E s \in Sources : MapRace(s)
  <2>1. ASSUME NEW s \in Sources, Subscribe(s)
        PROVE  NotStarted'
    BY <2>1 DEF Subscribe
  <2>2. CASE StartListener
    BY <2>2 DEF StartListener
  <2> QED BY <1>2, <2>1, <2>2 DEF MainStep, Serve, StartFails, Exit, MapRace
<1>3. ASSUME NEW r \in Requests, Request(r) \/ BadRequest(r) \/ RequestStep(r)
      PROVE  NotStarted'
  BY <1>1, <1>3 DEF Callers, Request, BadRequest, RequestStep, Answer
<1>4. ASSUME NEW s \in Sources, ListenerStep(s)
      PROVE  NotStarted'
  <2>1. CASE \/ ReceiveFails(s) \/ StartWaiting(s) \/ WaitFails(s)
             \/ Unmarshal(s) \/ BadMessage(s) \/ TriggerDone(s) \/ TriggerFails(s)
    BY <2>1 DEF ReceiveFails, StartWaiting, WaitFails, Unmarshal, BadMessage,
                TriggerDone, TriggerFails
  <2>2. CASE Receive(s) \/ SendEvent(s) \/ EventSent(s)
    BY <2>2 DEF Receive, Got, SendEvent, EventSent
  <2> QED BY <1>1, <1>4, <2>1, <2>2 DEF Callers, ListenerStep
<1>5. CASE \E p \in Conns : Serving(p) \/ Reading(p) \/ Failing(p)
  BY <1>5 DEF Serving, Reading, Failing, Outside
<1>6. CASE \E p \in Conns, t \in Topics : Elsewhere(Url[p], t)
  BY <1>6 DEF Elsewhere
<1> QED BY <1>2, <1>3, <1>4, <1>5, <1>6 DEF Next

(* What waits for the server has positions, and its messages are messages. *)
Outboxes ==
  \A p \in Conns :
    /\ outbox[p] \in Seq(ToServer)
    /\ Len(outbox[p]) \in Nat /\ DOMAIN outbox[p] = 1 .. Len(outbox[p])
    /\ \A i \in DOMAIN outbox[p] : outbox[p][i] \in ToServer
    /\ \A i \in Msgs(p) : i \in Nat \ {0} /\ outbox[p][i].msg \in Messages

LEMMA OutboxesTyped == TypeOK => Outboxes
<1> SUFFICES ASSUME TypeOK, NEW p \in Conns
             PROVE  Outboxes!(p)
  BY DEF Outboxes
<1>1. /\ outbox[p] \in Seq(ToServer)
      /\ Len(outbox[p]) \in Nat /\ DOMAIN outbox[p] = 1 .. Len(outbox[p])
  BY DEF TypeOK, BrokerTypeOK
<1>2. \A i \in DOMAIN outbox[p] : outbox[p][i] \in ToServer
  BY <1>1
<1>3. \A i \in Msgs(p) : i \in Nat \ {0} /\ outbox[p][i].msg \in Messages
  BY <1>1, <1>2, SentKinds DEF Msgs
<1> QED BY <1>1, <1>2, <1>3

LEMMA OutboxesTypedNext == TypeOK' => Outboxes'
  BY OutboxesTyped, PTL

(* No call starts to publish, what waits for the server has moved up by d   *)
(* places, and what is offered now, X, is neither there nor to come.        *)
LEMMA PublishedKept ==
  ASSUME TypeOK, TypeOK', PublishedOnce, cmsg' = cmsg, nextMsg' >= nextMsg,
         \A c \in Callers : cpc'[c] = "publish" => cpc[c] = "publish",
         NEW d \in [Conns -> Nat],
         \A p \in Conns : \A i \in Msgs(p)' :
           i + d[p] \in Msgs(p) /\ outbox'[p][i].msg = outbox[p][i + d[p]].msg,
         NEW X,
         \A m \in Messages \ X : Unsent(m) => Unsent(m)',
         \A m \in Messages : m >= nextMsg' => m \notin X,
         \A c \in Callers : cpc'[c] = "publish" => cmsg[c] \notin X,
         \A p \in Conns : \A i \in Msgs(p)' : outbox'[p][i].msg \notin X
  PROVE  PublishedOnce'
<1>1. nextMsg \in Nat /\ nextMsg' \in Nat /\ Messages \subseteq Nat
  BY Bounds DEF TypeOK, Types, Messages
<1>2. ASSUME NEW m \in Messages, m >= nextMsg'
      PROVE  Unsent(m)'
  <2>1. m >= nextMsg
    BY <1>1, <1>2
  <2> QED BY <1>2, <2>1 DEF PublishedOnce
<1>3. ASSUME NEW c \in Callers, cpc'[c] = "publish"
      PROVE  Unsent(cmsg[c])'
  <2>1. cmsg[c] \in Messages
    BY <1>3, Bounds DEF TypeOK, Types, CallsReady, Messages
  <2> QED BY <1>3, <2>1 DEF PublishedOnce
<1>4. ASSUME NEW p \in Conns, NEW i \in Msgs(p)'
      PROVE  /\ outbox'[p][i].msg < nextMsg' /\ Unsent(outbox[p][i].msg)'
             /\ \A c \in Callers : cpc'[c] = "publish" => outbox'[p][i].msg # cmsg[c]
             /\ \A q \in Conns : \A j \in Msgs(q)' :
                  outbox'[q][j].msg = outbox'[p][i].msg => q = p /\ j = i
  <2>1. i + d[p] \in Msgs(p) /\ outbox'[p][i].msg = outbox[p][i + d[p]].msg
    OBVIOUS
  <2>2. PICK m \in Messages : m = outbox[p][i + d[p]].msg
    BY <2>1, OutboxesTyped DEF Outboxes
  <2>3. m < nextMsg /\ Unsent(m) /\ m \notin X
    BY <2>1, <2>2 DEF PublishedOnce
  <2>4. m < nextMsg' /\ Unsent(m)'
    BY <1>1, <2>3
  <2>5. \A c \in Callers : cpc'[c] = "publish" => m # cmsg[c]
    BY <2>1, <2>2 DEF PublishedOnce
  <2>6. ASSUME NEW q \in Conns, NEW j \in Msgs(q)', outbox'[q][j].msg = m
        PROVE  q = p /\ j = i
    <3>1. j + d[q] \in Msgs(q) /\ outbox[q][j + d[q]].msg = m
      BY <2>6
    <3>2. q = p /\ j + d[q] = i + d[p]
      BY <2>1, <2>2, <3>1 DEF PublishedOnce
    <3>3. i \in Nat /\ j \in Nat /\ d[p] \in Nat
      BY <2>6, OutboxesTypedNext DEF Outboxes
    <3> QED BY <3>2, <3>3
  <2> QED BY <2>1, <2>2, <2>4, <2>5, <2>6 DEF Unsent
<1> QED BY <1>2, <1>3, <1>4 DEF PublishedOnce

(* The same, with nothing new offered and nothing moved. *)
LEMMA PublishedIdle ==
  ASSUME TypeOK, TypeOK', PublishedOnce, cmsg' = cmsg, nextMsg' = nextMsg,
         offered' = offered,
         \A c \in Callers : cpc'[c] = "publish" => cpc[c] = "publish",
         \A p \in Conns : \A i \in Msgs(p)' :
           i \in Msgs(p) /\ outbox'[p][i].msg = outbox[p][i].msg
  PROVE  PublishedOnce'
<1> DEFINE d == [p \in Conns |-> 0]
<1>1. d \in [Conns -> Nat]
  OBVIOUS
<1>2. \A p \in Conns : \A i \in Msgs(p)' :
        i + d[p] \in Msgs(p) /\ outbox'[p][i].msg = outbox[p][i + d[p]].msg
  BY OutboxesTypedNext DEF Outboxes
<1>3. \A m : Unsent(m) => Unsent(m)'
  BY DEF Unsent
<1>4. nextMsg' >= nextMsg
  BY DEF TypeOK, Types
<1> HIDE DEF d
<1> DEFINE X == {}
<1>5. \A m \in Messages \ X : Unsent(m) => Unsent(m)'
  BY <1>3
<1>6. /\ \A m \in Messages : m >= nextMsg' => m \notin X
      /\ \A c \in Callers : cpc'[c] = "publish" => cmsg[c] \notin X
      /\ \A p \in Conns : \A i \in Msgs(p)' : outbox'[p][i].msg \notin X
  OBVIOUS
<1> HIDE DEF X
<1> QED BY <1>1, <1>2, <1>4, <1>5, <1>6, PublishedKept


(* What a call of the library puts on a connection is behind the rest.      *)
LEMMA SentAt ==
  ASSUME TypeOK, NEW p \in Conns, NEW e \in ToServer,
         outbox' = [outbox EXCEPT ![p] = Append(outbox[p], e)], NEW q \in Conns
  PROVE  /\ \A k \in DOMAIN outbox[q] :
              k \in DOMAIN outbox'[q] /\ outbox'[q][k] = outbox[q][k]
         /\ \A k \in DOMAIN outbox'[q] :
              \/ k \in DOMAIN outbox[q] /\ outbox'[q][k] = outbox[q][k]
              \/ q = p /\ k = Len(outbox[p]) + 1 /\ outbox'[q][k] = e
<1>1. outbox[p] \in Seq(ToServer) /\ outbox \in [Conns -> Seq(ToServer)]
  BY DEF TypeOK, BrokerTypeOK
<1>2. CASE q = p
  <2>1. outbox'[q] = Append(outbox[p], e)
    BY <1>1, <1>2
  <2>2. /\ Len(outbox[p]) \in Nat /\ DOMAIN outbox[p] = 1 .. Len(outbox[p])
        /\ DOMAIN outbox'[q] = 1 .. Len(outbox[p]) + 1
        /\ \A i \in 1 .. Len(outbox[p]) : outbox'[q][i] = outbox[p][i]
        /\ outbox'[q][Len(outbox[p]) + 1] = e
    BY <1>1, <2>1, AppendAt
  <2> QED BY <1>2, <2>2
<1>3. CASE q # p
  BY <1>1, <1>3
<1> QED BY <1>2, <1>3

(* The server takes the first thing. *)
LEMMA ServedAt ==
  ASSUME TypeOK, NEW p \in Conns, ServerStep(p), NEW q \in Conns, q = p
  PROVE  /\ 1 \in DOMAIN outbox[q] /\ Head(outbox[q]) = outbox[q][1]
         /\ \A k \in DOMAIN outbox'[q] :
              k + 1 \in DOMAIN outbox[q] /\ outbox'[q][k] = outbox[q][k + 1]
<1>1. /\ outbox[p] \in Seq(ToServer) /\ outbox \in [Conns -> Seq(ToServer)]
      /\ outbox[p] # <<>> /\ outbox'[p] = Tail(outbox[p])
  BY DEF TypeOK, BrokerTypeOK, ServerStep
<1>2. /\ Len(outbox[p]) \in Nat \ {0} /\ DOMAIN outbox[p] = 1 .. Len(outbox[p])
      /\ Head(outbox[p]) = outbox[p][1]
      /\ DOMAIN outbox'[p] = 1 .. Len(outbox[p]) - 1
      /\ \A i \in 1 .. Len(outbox[p]) - 1 : outbox'[p][i] = outbox[p][i + 1]
  BY <1>1, TailAt
<1> QED BY <1>2

(* A connection that breaks carries nothing but the subscriptions repeated. *)
LEMMA BrokenAt ==
  ASSUME TypeOK, NEW p \in Conns, Reconnect(p) \/ GiveUp(p)
  PROVE  /\ \A i \in DOMAIN outbox'[p] : outbox'[p][i].kind = "sub"
         /\ \A q \in Conns : q # p => outbox'[q] = outbox[q]
<1>1. outbox \in [Conns -> Seq(ToServer)]
  BY DEF TypeOK, BrokerTypeOK
<1>2. CASE GiveUp(p)
  BY <1>1, <1>2, EmptyAt DEF GiveUp
<1>3. CASE Reconnect(p)
  <2>1. PICK again :
          outbox' = [outbox EXCEPT ![p] = [i \in DOMAIN again |-> SubItem(again[i])]]
    BY <1>3 DEF Reconnect
  <2> QED BY <1>1, <2>1 DEF SubItem
<1> QED BY <1>2, <1>3

LEMMA CallPublished ==
  ASSUME TypeOK, TypeOK', PublishedOnce, NEW c \in Callers, NEW to \in Names,
         Call(c, to), outbox' = outbox, offered' = offered
  PROVE  PublishedOnce'
<1>1. nextMsg \in Messages /\ nextMsg' = nextMsg + 1 /\ Messages \subseteq Nat
  BY Bounds DEF Call, TypeOK, Types, Messages
<1>2. \A m : Unsent(m) => Unsent(m)'
  BY DEF Unsent
<1>3. \A p \in Conns : Msgs(p)' = Msgs(p)
  BY DEF Msgs
<1>4. Unsent(nextMsg)
  BY <1>1 DEF PublishedOnce
<1>5. ASSUME NEW m \in Messages, m >= nextMsg'
      PROVE  Unsent(m)'
  <2>1. m >= nextMsg
    BY <1>1, <1>5
  <2> QED BY <1>2, <2>1 DEF PublishedOnce
<1>6. ASSUME NEW b \in Callers, cpc'[b] = "publish"
      PROVE  cmsg'[b] = nextMsg \/ (cpc[b] = "publish" /\ cmsg'[b] = cmsg[b])
  BY <1>6 DEF Call, TypeOK, Types
<1>7. ASSUME NEW b \in Callers, cpc'[b] = "publish"
      PROVE  Unsent(cmsg[b])'
  <2>1. PICK m : m = cmsg'[b]
    OBVIOUS
  <2>2. Unsent(m)
    BY <1>4, <1>6, <1>7, <2>1 DEF PublishedOnce
  <2>3. Unsent(m)'
    BY <1>2, <2>2
  <2> QED BY <2>1, <2>3 DEF Unsent
<1>8. ASSUME NEW p \in Conns, NEW i \in Msgs(p)
      PROVE  /\ outbox[p][i].msg < nextMsg' /\ Unsent(outbox[p][i].msg)'
             /\ \A b \in Callers : cpc'[b] = "publish" => outbox[p][i].msg # cmsg'[b]
  <2>1. PICK m \in Messages : m = outbox[p][i].msg
    BY OutboxesTyped DEF Outboxes
  <2>2. m < nextMsg /\ Unsent(m) /\ \A b \in Callers : cpc[b] = "publish" => m # cmsg[b]
    BY <2>1 DEF PublishedOnce
  <2>3. m < nextMsg' /\ m # nextMsg /\ Unsent(m)'
    BY <1>1, <1>2, <2>2
  <2> QED BY <1>6, <2>1, <2>2, <2>3 DEF Unsent
<1> QED BY <1>3, <1>5, <1>7, <1>8 DEF PublishedOnce

LEMMA SendPublished ==
  ASSUME TypeOK, TypeOK', OwnMessages, PublishedOnce, NEW c \in Callers, Publish(c)
  PROVE  PublishedOnce'
<1> DEFINE o == ProviderOf[cdest[c]]
           e == MsgItem(Topic[cdest[c]], cmsg[c])
<1>1. cmsg' = cmsg /\ nextMsg' = nextMsg /\ offered' = offered
  BY DEF Publish, PublishMsg, Goto
<1>2. cmsg[c] \in Messages /\ cmsg[c] # 0 /\ cmsg[c] < nextMsg /\ Unsent(cmsg[c])
  BY Bounds
     DEF Publish, At, TypeOK, Types, CallsReady, Messages, OwnMessages, PublishedOnce
<1>3. \A b \in Callers : cpc'[b] = "publish" => cpc[b] = "publish" /\ b # c
  BY DEF Publish, Goto, TypeOK, Types
<1>4. o \in Conns /\ e \in ToServer
  BY <1>2, NodeConn DEF Publish, ToServer, Topics, NatsNodes
<1>5. outbox' = [outbox EXCEPT ![o] = Append(outbox[o], e)]
  BY DEF Publish, PublishMsg
<1>6. e.kind = "msg" /\ e.msg = cmsg[c]
  BY DEF MsgItem
<1> HIDE DEF o, e
<1>7. ASSUME NEW p \in Conns, NEW i \in Msgs(p)'
      PROVE  \/ i \in Msgs(p) /\ outbox'[p][i] = outbox[p][i]
             \/ p = o /\ i = Len(outbox[o]) + 1 /\ outbox'[p][i].msg = cmsg[c]
  <2>1. \/ i \in DOMAIN outbox[p] /\ outbox'[p][i] = outbox[p][i]
        \/ p = o /\ i = Len(outbox[o]) + 1 /\ outbox'[p][i] = e
    BY <1>4, <1>5, <1>7, SentAt DEF Msgs
  <2> QED BY <1>6, <1>7, <2>1 DEF Msgs
<1>8. \A m : Unsent(m) => Unsent(m)'
  BY <1>1 DEF Unsent
<1>9. \A m \in Messages : m >= nextMsg' => Unsent(m)'
  BY <1>1, <1>8 DEF PublishedOnce
<1>10. ASSUME NEW b \in Callers, cpc'[b] = "publish"
       PROVE  Unsent(cmsg[b])'
  BY <1>1, <1>3, <1>10 DEF PublishedOnce, Unsent
<1>11. \A p \in Conns : \A i \in Msgs(p) : outbox[p][i].msg # cmsg[c]
  BY DEF Publish, At, PublishedOnce
<1>12. \A b \in Callers : cpc'[b] = "publish" => cmsg[b] # cmsg[c]
  BY <1>2, <1>3 DEF OwnMessages
<1>13. ASSUME NEW p \in Conns, NEW i \in Msgs(p)'
       PROVE  /\ outbox'[p][i].msg < nextMsg' /\ Unsent(outbox[p][i].msg)'
              /\ \A b \in Callers : cpc'[b] = "publish" => outbox'[p][i].msg # cmsg'[b]
              /\ \A q \in Conns : \A j \in Msgs(q)' :
                   outbox'[q][j].msg = outbox'[p][i].msg => q = p /\ j = i
  <2>1. outbox'[p][i].msg < nextMsg' /\ Unsent(outbox[p][i].msg)'
    BY <1>1, <1>2, <1>7 DEF PublishedOnce, Unsent
  <2>2. \A b \in Callers : cpc'[b] = "publish" => outbox'[p][i].msg # cmsg'[b]
    BY <1>1, <1>3, <1>7, <1>12 DEF PublishedOnce
  <2>3. ASSUME NEW q \in Conns, NEW j \in Msgs(q)', outbox'[q][j].msg = outbox'[p][i].msg
        PROVE  q = p /\ j = i
    <3>1. CASE i \in Msgs(p) /\ outbox'[p][i] = outbox[p][i]
      BY <1>7, <1>11, <2>3, <3>1 DEF PublishedOnce
    <3>2. CASE p = o /\ i = Len(outbox[o]) + 1 /\ outbox'[p][i].msg = cmsg[c]
      BY <1>7, <1>11, <2>3, <3>2
    <3> QED BY <1>7, <3>1, <3>2
  <2> QED BY <2>1, <2>2, <2>3
<1> QED BY <1>9, <1>10, <1>13 DEF PublishedOnce

(* Only the receivers of m are offered anything, and they only m. *)
LEMMA UnsentRouted ==
  ASSUME TypeOK, NEW u, NEW t, NEW m \in Messages, Route(u, t, m),
         NEW x, x # m, Unsent(x)
  PROVE  Unsent(x)'
<1> SUFFICES ASSUME NEW n \in NatsNodes
             PROVE  x \notin Elements(offered'[n])
  BY DEF Unsent
<1>1. offered[n] \in Seq(Messages) /\ x \notin Elements(offered[n])
  BY DEF TypeOK, BrokerTypeOK, Unsent
<1>2. offered'[n] = Append(offered[n], m) \/ offered'[n] = offered[n]
  BY DEF Route
<1>3. Elements(Append(offered[n], m)) = Elements(offered[n]) \cup {m}
  BY <1>1, ElementsAppended
<1> QED BY <1>1, <1>2, <1>3

LEMMA ServedPublished ==
  ASSUME TypeOK, TypeOK', PublishedOnce, NEW p \in Conns, Serving(p)
  PROVE  PublishedOnce'
<1> DEFINE it == Head(outbox[p])
           d == [q \in Conns |-> IF q = p THEN 1 ELSE 0]
<1>1. ServerStep(p) /\ cmsg' = cmsg /\ cpc' = cpc /\ nextMsg' = nextMsg
  BY DEF Serving, Outside, callVars
<1>2. d \in [Conns -> Nat] /\ d[p] = 1 /\ \A q \in Conns : q # p => d[q] = 0
  OBVIOUS
<1>3. /\ outbox[p] \in Seq(ToServer) /\ outbox[p] # <<>>
      /\ outbox' = [outbox EXCEPT ![p] = Tail(outbox[p])]
      /\ outbox \in [Conns -> Seq(ToServer)]
  BY <1>1 DEF ServerStep, TypeOK, BrokerTypeOK
<1>4. 1 \in DOMAIN outbox[p] /\ it = outbox[p][1] /\ it \in ToServer
  BY <1>1, <1>3, ServedAt, TailIn
<1> HIDE DEF d, it
<1>5. ASSUME NEW q \in Conns, NEW k \in DOMAIN outbox'[q]
      PROVE  k + d[q] \in DOMAIN outbox[q] /\ outbox'[q][k] = outbox[q][k + d[q]]
  <2>1. CASE q = p
    BY <1>1, <1>2, <2>1, ServedAt
  <2>2. CASE q # p
    <3>1. k \in Nat /\ outbox'[q] = outbox[q]
      BY <1>3, <2>2, OutboxesTypedNext DEF Outboxes
    <3> QED BY <1>2, <2>2, <3>1
  <2> QED BY <2>1, <2>2
<1>6. \A q \in Conns : \A i \in Msgs(q)' :
        i + d[q] \in Msgs(q) /\ outbox'[q][i].msg = outbox[q][i + d[q]].msg
  BY <1>5 DEF Msgs
<1>7. nextMsg' >= nextMsg
  BY <1>1 DEF TypeOK, Types
<1>8. CASE it.kind # "msg"
  <2> DEFINE X == {}
  <2>1. offered' = offered
    BY <1>1, <1>8 DEF ServerStep, it
  <2>2. \A m \in Messages \ X : Unsent(m) => Unsent(m)'
    BY <2>1 DEF Unsent
  <2>3. /\ \A m \in Messages : m >= nextMsg' => m \notin X
        /\ \A c \in Callers : cpc'[c] = "publish" => cmsg[c] \notin X
        /\ \A q \in Conns : \A i \in Msgs(q)' : outbox'[q][i].msg \notin X
    OBVIOUS
  <2> HIDE DEF X
  <2> QED BY <1>1, <1>2, <1>6, <1>7, <2>2, <2>3, PublishedKept
<1>9. CASE it.kind = "msg"
  <2> DEFINE X == {it.msg}
  <2>1. Route(Url[p], it.topic, it.msg) /\ it.msg \in Messages
    BY <1>1, <1>4, <1>9, SentKinds DEF ServerStep, it
  <2>2. \A m \in Messages \ X : Unsent(m) => Unsent(m)'
    BY <2>1, UnsentRouted
  <2>3. 1 \in Msgs(p) /\ outbox[p][1].msg = it.msg
    BY <1>4, <1>9 DEF Msgs
  <2>4. it.msg < nextMsg /\ \A c \in Callers : cpc[c] = "publish" => it.msg # cmsg[c]
    BY <2>3 DEF PublishedOnce
  <2>5. \A m \in Messages : m >= nextMsg' => m \notin X
    BY <1>1, <2>1, <2>4, Bounds DEF Messages, TypeOK, Types
  <2>6. \A c \in Callers : cpc'[c] = "publish" => cmsg[c] \notin X
    BY <1>1, <2>4
  <2>7. ASSUME NEW q \in Conns, NEW i \in Msgs(q)'
        PROVE  outbox'[q][i].msg \notin X
    <3>1. SUFFICES ASSUME outbox[q][i + d[q]].msg = outbox[p][1].msg
                   PROVE  FALSE
      BY <1>6, <2>3
    <3>2. q = p /\ i + d[q] = 1
      BY <1>6, <2>3, <3>1 DEF PublishedOnce
    <3>3. i \in Nat \ {0}
      BY OutboxesTypedNext DEF Outboxes
    <3> QED BY <1>2, <3>2, <3>3
  <2> HIDE DEF X
  <2> QED BY <1>1, <1>2, <1>6, <1>7, <2>2, <2>5, <2>6, <2>7, PublishedKept
<1> QED BY <1>8, <1>9

LEMMA ElsewherePublished ==
  ASSUME TypeOK, TypeOK', OwnMessages, PublishedOnce,
         NEW u, NEW t, Elsewhere(u, t)
  PROVE  PublishedOnce'
<1> DEFINE d == [p \in Conns |-> 0]
           X == {nextMsg}
<1>1. /\ cmsg' = cmsg /\ cpc' = cpc /\ outbox' = outbox
      /\ nextMsg \in Messages /\ nextMsg' = nextMsg + 1 /\ Route(u, t, nextMsg)
  BY Bounds DEF Elsewhere, TypeOK, Types, Messages
<1>2. nextMsg \in Nat /\ Messages \subseteq Nat
  BY <1>1 DEF Messages
<1>3. d \in [Conns -> Nat] /\ \A p \in Conns : d[p] = 0
  OBVIOUS
<1> HIDE DEF d
<1>4. \A p \in Conns : \A i \in Msgs(p)' :
        i + d[p] \in Msgs(p) /\ outbox'[p][i].msg = outbox[p][i + d[p]].msg
  BY <1>1, <1>3, OutboxesTypedNext DEF Outboxes, Msgs
<1>5. \A m \in Messages \ X : Unsent(m) => Unsent(m)'
  BY <1>1, UnsentRouted
<1>6. \A m \in Messages : m >= nextMsg' => m \notin X
  BY <1>1, <1>2
<1>7. \A c \in Callers : cpc'[c] = "publish" => cmsg[c] \notin X
  BY <1>2 DEF OwnMessages
<1>8. \A p \in Conns : \A i \in Msgs(p)' : outbox'[p][i].msg \notin X
  BY <1>1, <1>2 DEF PublishedOnce, Msgs
<1>9. nextMsg' >= nextMsg
  BY <1>1, <1>2
<1> HIDE DEF X
<1> QED BY <1>1, <1>3, <1>4, <1>5, <1>6, <1>7, <1>8, <1>9, PublishedKept

(* Steps that neither publish nor take what was published. *)
LEMMA NothingPublished ==
  ASSUME TypeOK,
         \/ UNCHANGED outbox
         \/ \E n \in NatsNodes : SubscribeSync(n)
         \/ \E n \in NatsNodes, m \in Messages : SendPing(n, m)
         \/ \E p \in Conns : Reconnect(p) \/ GiveUp(p),
         NEW q \in Conns, NEW i \in Msgs(q)'
  PROVE  i \in Msgs(q) /\ outbox'[q][i] = outbox[q][i]
<1>1. CASE UNCHANGED outbox
  BY <1>1 DEF Msgs
<1>2. ASSUME NEW p \in Conns, NEW e \in ToServer, e.kind # "msg",
             outbox' = [outbox EXCEPT ![p] = Append(outbox[p], e)]
      PROVE  i \in Msgs(q) /\ outbox'[q][i] = outbox[q][i]
  BY <1>2, SentAt DEF Msgs
<1>3. ASSUME NEW n \in NatsNodes, SubscribeSync(n)
      PROVE  i \in Msgs(q) /\ outbox'[q][i] = outbox[q][i]
  <2> DEFINE p == ProviderOf[n]
             e == SubItem(n)
  <2>1. /\ p \in Conns /\ e \in ToServer /\ e.kind # "msg"
        /\ outbox' = [outbox EXCEPT ![p] = Append(outbox[p], e)]
    BY <1>3, NodeConn DEF SubscribeSync, ToServer, SubItem
  <2> HIDE DEF p, e
  <2> QED BY <1>2, <2>1
<1>4. ASSUME NEW n \in NatsNodes, NEW m \in Messages, SendPing(n, m)
      PROVE  i \in Msgs(q) /\ outbox'[q][i] = outbox[q][i]
  <2> DEFINE p == ProviderOf[n]
             e == PingItem(m)
  <2>1. /\ p \in Conns /\ e \in ToServer /\ e.kind # "msg"
        /\ outbox' = [outbox EXCEPT ![p] = Append(outbox[p], e)]
    BY <1>4, NodeConn DEF SendPing, ToServer, PingItem
  <2> HIDE DEF p, e
  <2> QED BY <1>2, <2>1
<1>5. ASSUME NEW p \in Conns, Reconnect(p) \/ GiveUp(p)
      PROVE  i \in Msgs(q) /\ outbox'[q][i] = outbox[q][i]
  BY <1>5, BrokenAt DEF Msgs
<1> QED BY <1>1, <1>3, <1>4, <1>5

LEMMA SendStepPublished ==
  ASSUME TypeOK, TypeOK', OwnMessages, PublishedOnce, NEW c \in Callers, SendStep(c)
  PROVE  PublishedOnce'
<1>1. CASE Publish(c)
  BY <1>1, SendPublished
<1>2. CASE SendStep(c) /\ ~Publish(c)
  <2>1. /\ cmsg' = cmsg /\ nextMsg' = nextMsg /\ offered' = offered
        /\ \A b \in Callers : cpc'[b] = "publish" => cpc[b] = "publish"
    BY <1>2 DEF SendStep, SendFails, Post, Flush, FlushOk, FlushFails, SendPing, Goto,
                brokerVars, TypeOK, Types
  <2>2. \/ UNCHANGED outbox
        \/ \E n \in NatsNodes, m \in Messages : SendPing(n, m)
    <3>1. CASE Flush(c)
      BY <3>1, Bounds
         DEF Flush, At, TypeOK, Types, CallsReady, Messages
    <3>2. CASE ~Flush(c)
      BY <1>2, <3>2 DEF SendStep, SendFails, Post, FlushOk, FlushFails, brokerVars
    <3> QED BY <3>1, <3>2
  <2>3. \A q \in Conns : \A i \in Msgs(q)' :
          i \in Msgs(q) /\ outbox'[q][i] = outbox[q][i]
    BY <2>2, NothingPublished
  <2> QED BY <2>1, <2>3, PublishedIdle
<1> QED BY <1>1, <1>2

LEMMA PublishedNext ==
  ASSUME TypeOK, TypeOK', OwnMessages, PublishedOnce, Next
  PROVE  PublishedOnce'
<1>1. ASSUME UNCHANGED <<cmsg, cpc, nextMsg, offered, outbox>>
      PROVE  PublishedOnce'
  <2>1. \A q \in Conns : \A i \in Msgs(q)' :
          i \in Msgs(q) /\ outbox'[q][i] = outbox[q][i]
    BY <1>1, NothingPublished
  <2> QED BY <1>1, <2>1, PublishedIdle
<1>2. CASE MainStep \/ Exit \/ \E s \in Sources : MapRace(s)
  <2>1. ASSUME NEW s \in Sources, Subscribe(s)
        PROVE  PublishedOnce'
    <3>1. \A q \in Conns : \A i \in Msgs(q)' :
            i \in Msgs(q) /\ outbox'[q][i] = outbox[q][i]
      BY <2>1, NothingPublished DEF Subscribe
    <3> QED BY <2>1, <3>1, PublishedIdle DEF Subscribe, SubscribeSync, callVars
  <2> QED BY <1>1, <1>2, <2>1
          DEF MainStep, StartListener, Serve, StartFails, Exit, MapRace, brokerVars, callVars
<1>3. ASSUME NEW r \in Requests, Request(r) \/ BadRequest(r) \/ RequestStep(r)
      PROVE  PublishedOnce'
  <2>0. r \in Callers /\ Webhook \in Names
    BY SourceTable DEF Callers
  <2>1. CASE Request(r)
    BY <2>0, <2>1, CallPublished DEF Request, brokerVars
  <2>2. CASE BadRequest(r)
    BY <1>1, <2>2 DEF BadRequest, brokerVars, callVars
  <2>3. CASE Answer(r)
    <3>1. \A q \in Conns : \A i \in Msgs(q)' :
            i \in Msgs(q) /\ outbox'[q][i] = outbox[q][i]
      BY <2>3, NothingPublished DEF Answer, brokerVars
    <3> QED BY <2>3, <3>1, PublishedIdle DEF Answer, brokerVars, TypeOK, Types
  <2> QED BY <1>3, <2>0, <2>1, <2>2, <2>3, SendStepPublished DEF RequestStep
<1>4. ASSUME NEW s \in Sources, ListenerStep(s)
      PROVE  PublishedOnce'
  <2>0. s \in Callers
    BY DEF Callers
  <2>1. CASE SendEvent(s)
    BY <2>0, <2>1, CallPublished DEF SendEvent, brokerVars
  <2>2. CASE EventSent(s)
    <3>1. \A q \in Conns : \A i \in Msgs(q)' :
            i \in Msgs(q) /\ outbox'[q][i] = outbox[q][i]
      BY <2>2, NothingPublished DEF EventSent, brokerVars
    <3> QED BY <2>2, <3>1, PublishedIdle DEF EventSent, brokerVars, TypeOK, Types
  <2>3. CASE SendStep(s)
    BY <2>0, <2>3, SendStepPublished
  <2> QED BY <1>1, <1>4, <2>1, <2>2, <2>3
          DEF ListenerStep, ReceiveFails, ClearSlow, Receive, Dequeue, StartWaiting,
              WaitFails, Unmarshal, BadMessage, TriggerDone, TriggerFails,
              brokerVars, callVars
<1>5. ASSUME NEW p \in Conns, Serving(p)
      PROVE  PublishedOnce'
  BY <1>5, ServedPublished
<1>6. ASSUME NEW p \in Conns, Reading(p)
      PROVE  PublishedOnce'
  BY <1>1, <1>6 DEF Reading, ClientStep, Outside, callVars
<1>7. ASSUME NEW p \in Conns, Failing(p)
      PROVE  PublishedOnce'
  <2>1. \A q \in Conns : \A i \in Msgs(q)' :
          i \in Msgs(q) /\ outbox'[q][i] = outbox[q][i]
    BY <1>7, NothingPublished DEF Failing
  <2> QED BY <1>7, <2>1, PublishedIdle
          DEF Failing, Reconnect, GiveUp, Break, Outside, callVars
<1>8. ASSUME NEW p \in Conns, NEW t \in Topics, Elsewhere(Url[p], t)
      PROVE  PublishedOnce'
  BY <1>8, ElsewherePublished
<1> QED BY <1>2, <1>3, <1>4, <1>5, <1>6, <1>7, <1>8 DEF Next

LEMMA OwnMessagesNext == ASSUME TypeOK, TypeOK', OwnMessages, Next PROVE OwnMessages'
<1>0. nextMsg \in Nat /\ \A c \in Callers : cmsg[c] \in Nat
  BY Bounds DEF TypeOK, Types
<1>1. CASE cmsg' = cmsg /\ (nextMsg' = nextMsg \/ nextMsg' = nextMsg + 1)
  BY <1>0, <1>1 DEF OwnMessages
<1>2. ASSUME NEW c \in Callers, NEW d, Call(c, d)
      PROVE  OwnMessages'
  <2>1. /\ nextMsg' = nextMsg + 1
        /\ \A b \in Callers : cmsg'[b] = IF b = c THEN nextMsg ELSE cmsg[b]
    BY <1>2 DEF Call, TypeOK, Types
  <2> QED BY <1>0, <2>1 DEF OwnMessages
<1>3. CASE MainStep \/ Exit \/ \E s \in Sources : MapRace(s)
  BY <1>1, <1>3 DEF MainStep, StartListener, Serve, Subscribe, StartFails, Exit, MapRace, callVars
<1>4. ASSUME NEW r \in Requests, Request(r) \/ BadRequest(r) \/ RequestStep(r)
      PROVE  OwnMessages'
  BY <1>1, <1>2, <1>4
     DEF Callers, Request, BadRequest, RequestStep, Answer, SendStep, SendFails, Post,
         Publish, Flush, FlushOk, FlushFails, Goto, callVars
<1>5. ASSUME NEW s \in Sources, ListenerStep(s)
      PROVE  OwnMessages'
  BY <1>1, <1>2, <1>5
     DEF Callers, ListenerStep, ReceiveFails, Receive, StartWaiting, WaitFails, Unmarshal,
         BadMessage, TriggerDone, TriggerFails, SendEvent, EventSent, SendStep, SendFails,
         Post, Publish, Flush, FlushOk, FlushFails, Goto, callVars
<1>6. CASE \E p \in Conns : Serving(p) \/ Reading(p) \/ Failing(p)
  BY <1>1, <1>6 DEF Serving, Reading, Failing, Outside, callVars
<1>7. CASE \E p \in Conns, t \in Topics : Elsewhere(Url[p], t)
  BY <1>1, <1>7 DEF Elsewhere
<1> QED BY <1>3, <1>4, <1>5, <1>6, <1>7 DEF Next


LEMMA OrderInit == Init => OrderIInv
<1> SUFFICES ASSUME Init
             PROVE  OrderIInv
  OBVIOUS
<1>1. TypeOK
  BY TypeInit
<1>2. OwnMessages
  BY DEF Init, OwnMessages
<1>3. PublishedOnce
  <2>1. \A m : Unsent(m)
    BY EmptyAt DEF Init, BrokerInit, Unsent, Elements
  <2>2. \A p \in Conns : Msgs(p) = {}
    BY EmptyAt DEF Init, BrokerInit, Msgs
  <2> QED BY <2>1, <2>2 DEF PublishedOnce, Init
<1>4. AddressedHere
  BY EmptyAt DEF Init, BrokerInit, AddressedHere
<1>5. NotStarted
  BY DEF Init, NotStarted
<1>6. ASSUME NEW n \in NatsNodes
      PROVE  OfferedOnce(n) /\ WaitsInOrder(n) /\ ComesInOrder(n)
  <2>1. Batches(n) = {} /\ DOMAIN offered[n] = {} /\ DOMAIN pending[n] = {}
    BY EmptyAt, NodeConn DEF Init, BrokerInit, Batches
  <2> QED BY <2>1 DEF OfferedOnce, WaitsInOrder, ComesInOrder
<1>7. ASSUME NEW s \in Readable
      PROVE  TakenInOrder(s)
  BY EmptyAt DEF Init, TakenInOrder, Readable
<1> QED BY <1>1, <1>2, <1>3, <1>4, <1>5, <1>6, <1>7 DEF OrderIInv

LEMMA OrderNext == OrderIInv /\ [Next]_vars => OrderIInv'
<1> SUFFICES ASSUME OrderIInv, [Next]_vars
             PROVE  OrderIInv'
  OBVIOUS
<1>0. /\ TypeOK /\ OwnMessages /\ PublishedOnce /\ AddressedHere /\ NotStarted
      /\ \A n \in NatsNodes : Stream(n)
  BY DEF OrderIInv, Stream, Readable
<1>1. TypeOK'
  BY <1>0, TypeNext
<1>2. CASE Next
  <2>1. OwnMessages' /\ PublishedOnce' /\ AddressedHere' /\ NotStarted'
    BY <1>0, <1>1, <1>2, OwnMessagesNext, PublishedNext, AddressedNext, NotStartedNext
  <2>2. \A n \in NatsNodes : Stream(n)'
    BY <1>0, <1>1, <1>2, StreamNext
  <2> QED BY <1>1, <2>1, <2>2 DEF OrderIInv, Stream, Readable
<1>3. CASE UNCHANGED vars
  <2>1. OwnMessages' /\ AddressedHere' /\ NotStarted'
    BY <1>0, <1>3 DEF vars, brokerVars, mainVars, listenerVars, callVars, OwnMessages,
                      AddressedHere, NotStarted
  <2>2. PublishedOnce'
    <3>1. \A q \in Conns : \A i \in Msgs(q)' :
            i \in Msgs(q) /\ outbox'[q][i] = outbox[q][i]
      BY <1>0, <1>3, NothingPublished DEF vars, brokerVars
    <3> QED BY <1>0, <1>1, <1>3, <3>1, PublishedIdle DEF vars, brokerVars, callVars
  <2>3. \A n \in NatsNodes : Stream(n)'
    BY <1>0, <1>1, <1>3, StreamIdle DEF vars, brokerVars, listenerVars
  <2> QED BY <1>1, <2>1, <2>2, <2>3 DEF OrderIInv, Stream, Readable
<1> QED BY <1>2, <1>3

(* In every reachable state what a listener took, what waits for it and     *)
(* what is coming back to it were offered to it in this order, each message *)
(* once.                                                                    *)
THEOREM Ordered == Spec => []OrderIInv
  BY OrderInit, OrderNext, PTL DEF Spec

-----------------------------------------------------------------------------
(* EventPipeline implements EventDelivery.                                  *)
Status(s) ==
  IF ~Alive \/ lpc[s] = "gone" THEN "gone" ELSE IF lpc[s] = "off" THEN "off" ELSE "on"

LEMMA DeliveryInit == Init => Delivery!Init
<1> SUFFICES ASSUME Init
             PROVE  Delivery!Init
  OBVIOUS
<1>1. \A s \in Readable : offered[s] = <<>> /\ taken[s] = <<>> /\ Status(s) = "off"
  BY DEF Init, BrokerInit, Readable, Status, Alive
<1> QED BY <1>1 DEF Delivery!Init, Status

(* The steps of the abstract specification, as they look from here. *)
LEMMA DeliveryStutters ==
  ASSUME \A s \in Readable :
           offered'[s] = offered[s] /\ taken'[s] = taken[s] /\ Status(s)' = Status(s)
  PROVE  UNCHANGED Delivery!vars
  BY DEF Delivery!vars, Status

LEMMA DeliveryCloses ==
  ASSUME NEW S \in SUBSET Readable,
         \A s \in Readable : offered'[s] = offered[s] /\ taken'[s] = taken[s],
         \A s \in S : Status(s)' = "gone",
         \A s \in Readable \ S : Status(s)' = Status(s)
  PROVE  Delivery!Next
<1>1. Delivery!Close(S)
  BY DEF Delivery!Close, Status
<1> QED BY <1>1 DEF Delivery!Next

LEMMA DeliveryOpens ==
  ASSUME NEW s \in Readable, Status(s) = "off", Status(s)' = "on",
         \A x \in Readable : offered'[x] = offered[x] /\ taken'[x] = taken[x],
         \A x \in Readable \ {s} : Status(x)' = Status(x)
  PROVE  Delivery!Next
<1>1. Delivery!Open(s)
  BY DEF Delivery!Open, Status
<1> QED BY <1>1 DEF Delivery!Next

LEMMA DeliveryOffers ==
  ASSUME TypeOK, NEW u, NEW t, NEW m \in Messages, Unsent(m), Route(u, t, m),
         \A s \in Readable : taken'[s] = taken[s] /\ Status(s)' = Status(s)
  PROVE  Delivery!Next
<1> DEFINE S == Receivers(u, t) \cap Readable
<1>1. \A s \in S : m \notin Elements(offered[s])
  BY DEF Unsent, Readable
<1>2. \A s \in Readable :
        offered'[s] = IF s \in S THEN Append(offered[s], m) ELSE offered[s]
  BY DEF Route, Readable
<1>3. S \in SUBSET Readable
  OBVIOUS
<1> HIDE DEF S
<1>4. Delivery!Offer(S, m)
  BY <1>1, <1>2, <1>3 DEF Delivery!Offer, Delivery!Elements, Elements, Status
<1> QED BY <1>3, <1>4 DEF Delivery!Next

LEMMA DeliveryTakes ==
  ASSUME OrderIInv, NEW s \in Readable, Receive(s)
  PROVE  Delivery!Next
<1> DEFINE m == Head(pending[s])
<1>1. /\ offered' = offered /\ mainPc' = mainPc
      /\ taken' = [taken EXCEPT ![s] = Append(taken[s], m)]
      /\ lpc' = [lpc EXCEPT ![s] = "decode"]
      /\ Status(s) = "on" /\ pending[s] # <<>>
  BY DEF Receive, Dequeue, Got, ListenerAt, Status, mainVars
<1>2. /\ taken \in [Sources -> Seq(Messages)] /\ s \in Sources /\ s \in NatsNodes
      /\ lpc \in [Sources -> ListenerPcs] /\ pending[s] \in Seq(Messages)
  BY DEF OrderIInv, TypeOK, Types, BrokerTypeOK, Readable
<1>3. 1 \in DOMAIN pending[s] /\ m = pending[s][1]
  BY <1>1, <1>2
<1>4. OfferedOnce(s) /\ WaitsInOrder(s) /\ TakenInOrder(s)
  BY <1>2 DEF OrderIInv
<1>5. PICK k \in DOMAIN offered[s] : offered[s][k] = m
  BY <1>3, <1>4 DEF WaitsInOrder, Elements
<1>6. ASSUME NEW j \in DOMAIN offered[s], offered[s][j] \in Elements(taken[s])
      PROVE  j < k
  <2>1. PICK i \in DOMAIN taken[s] : taken[s][i] = offered[s][j]
    BY <1>6 DEF Elements
  <2>2. Before(s, taken[s][i], m)
    BY <1>3, <1>4 DEF TakenInOrder
  <2>3. PICK a \in DOMAIN offered[s], b \in DOMAIN offered[s] :
          a < b /\ offered[s][a] = taken[s][i] /\ offered[s][b] = m
    BY <2>2 DEF Before
  <2>4. a = j /\ b = k
    BY <1>4, <1>5, <2>1, <2>3 DEF OfferedOnce
  <2> QED BY <2>3, <2>4
<1>7. /\ \A x \in Readable : offered'[x] = offered[x] /\ Status(x)' = Status(x)
      /\ \A x \in Readable :
           taken'[x] = IF x = s THEN Append(taken[s], m) ELSE taken[x]
  BY <1>1, <1>2 DEF Status, Alive, Readable
<1> HIDE DEF m
<1>8. Delivery!Ahead(s, k)
  BY <1>6 DEF Delivery!Ahead, Delivery!Elements, Elements
<1>9. Delivery!Take(s)
  <2> DEFINE o == [x \in Readable |-> offered[x]]
             t == [x \in Readable |-> taken[x]]
             st == [x \in Readable |-> Status(x)]
  <2>1. o' = o /\ st' = st /\ st[s] = "on" /\ o[s] = offered[s]
    BY <1>1, <1>7
  <2>2. t' = [t EXCEPT ![s] = Append(t[s], o[s][k])]
    BY <1>5, <1>7
  <2>3. k \in DOMAIN o[s]
    BY <1>5
  <2> QED BY <1>8, <2>1, <2>2, <2>3, Zenon DEF Delivery!Take, Status
<1> QED BY <1>9 DEF Delivery!Next


(* Every step is a step or a stutter of the abstract specification. *)
LEMMA DeliveryNext == OrderIInv /\ [Next]_vars => [Delivery!Next]_(Delivery!vars)
<1> SUFFICES ASSUME OrderIInv, [Next]_vars
             PROVE  Delivery!Next \/ UNCHANGED Delivery!vars
  OBVIOUS
<1> DEFINE Quietly == \A s \in Readable : offered'[s] = offered[s] /\ taken'[s] = taken[s]
           Stutters == Quietly /\ \A s \in Readable : Status(s)' = Status(s)
<1>0. /\ TypeOK /\ PublishedOnce /\ NotStarted
      /\ lpc \in [Sources -> ListenerPcs] /\ todo \subseteq Sources
  BY DEF OrderIInv, TypeOK, Types
<1>1. Stutters => UNCHANGED Delivery!vars
  BY DeliveryStutters
<1>2. CASE UNCHANGED vars
  BY <1>1, <1>2 DEF vars, brokerVars, mainVars, listenerVars, Status, Alive
<1>3. CASE StartListener
  <2>1. Quietly
    BY <1>3 DEF StartListener, brokerVars
  <2>2. cur \in Readable /\ lpc[cur] = "off"
    BY <1>0, <1>3 DEF StartListener, NotStarted, TypeOK, ListenersReady
  <2>3. \A x \in Readable \ {cur} : Status(x)' = Status(x)
    BY <1>0, <1>3 DEF StartListener, Status, Alive, Readable
  <2>4. PICK s \in Readable : s = cur
    BY <2>2
  <2>5. Status(s) = "off" /\ Status(s)' = "on"
    BY <1>0, <1>3, <2>2, <2>4 DEF StartListener, Status, Alive, Readable
  <2> QED BY <2>1, <2>3, <2>4, <2>5, DeliveryOpens
<1>4. CASE Exit \/ \E s \in Sources : StartFails(s) \/ MapRace(s)
  <2>1. Quietly /\ \A s \in Readable : Status(s)' = "gone"
    BY <1>4 DEF Exit, StartFails, MapRace, brokerVars, listenerVars, Status, Alive
  <2> QED BY <2>1, DeliveryCloses
<1>5. CASE Serve \/ \E s \in Sources : Subscribe(s)
  <2>1. Stutters
    BY <1>5 DEF Serve, Subscribe, SubscribeSync, brokerVars, listenerVars, Status, Alive
  <2> QED BY <1>1, <2>1
<1>6. ASSUME NEW c \in Callers, SendStep(c)
      PROVE  Stutters
  BY <1>6 DEF SendStep, SendFails, Post, Publish, Flush, FlushOk, FlushFails, PublishMsg,
              SendPing, Goto, brokerVars, mainVars, listenerVars, Status, Alive
<1>7. ASSUME NEW r \in Requests, Request(r) \/ BadRequest(r) \/ RequestStep(r)
      PROVE  Stutters
  BY <1>6, <1>7 DEF Callers, Request, BadRequest, RequestStep, Answer, brokerVars, mainVars,
                    listenerVars, Status, Alive
<1>8. ASSUME NEW s \in Sources, ListenerStep(s)
      PROVE  Delivery!Next \/ UNCHANGED Delivery!vars
  <2>1. CASE Receive(s)
    <3>1. s \in Readable
      BY <1>0, <2>1 DEF Receive, ListenerAt, TypeOK, ListenersReady, Readable
    <3> QED BY <2>1, <3>1, DeliveryTakes
  <2>2. CASE ReceiveFails(s) \/ WaitFails(s)
    <3>1. s \in Readable
      BY <1>0, <2>2 DEF ReceiveFails, WaitFails, ListenerAt, TypeOK, ListenersReady, Readable
    <3>2. Quietly
      BY <2>2 DEF ReceiveFails, WaitFails, ClearSlow, Listen, brokerVars
    <3>3. /\ mainPc' = mainPc /\ lpc' = [lpc EXCEPT ![s] = "gone"]
      BY <2>2 DEF ReceiveFails, WaitFails, Listen, mainVars
    <3>4. Status(s)' = "gone"
      BY <1>0, <3>3 DEF Status
    <3>5. \A x \in Readable \ {s} : lpc'[x] = lpc[x]
      BY <1>0, <3>3 DEF Readable
    <3>6. \A x \in Readable \ {s} : Status(x)' = Status(x)
      BY <3>3, <3>5 DEF Status, Alive
    <3> DEFINE S == {s}
    <3>7. S \in SUBSET Readable /\ \A x \in S : Status(x)' = "gone"
      BY <3>1, <3>4
    <3> HIDE DEF S
    <3>8. \A x \in Readable \ S : Status(x)' = Status(x)
      BY <3>6 DEF S
    <3> QED BY <3>2, <3>7, <3>8, DeliveryCloses
  <2>3. CASE StartWaiting(s) \/ Unmarshal(s) \/ BadMessage(s) \/ TriggerDone(s)
             \/ TriggerFails(s) \/ SendEvent(s) \/ EventSent(s)
    <3>1. Quietly /\ mainPc' = mainPc
      BY <2>3 DEF StartWaiting, Unmarshal, BadMessage, TriggerDone, TriggerFails, SendEvent,
                  EventSent, Listen, brokerVars, mainVars
    <3>2. lpc[s] \notin {"off", "gone"}
      BY <2>3 DEF StartWaiting, Unmarshal, BadMessage, TriggerDone, TriggerFails, SendEvent,
                  EventSent, ListenerAt
    <3>3. /\ lpc'[s] \notin {"off", "gone"}
          /\ \A x \in Sources : x # s => lpc'[x] = lpc[x]
      BY <1>0, <2>3, <3>2
         DEF StartWaiting, Unmarshal, BadMessage, TriggerDone, TriggerFails, SendEvent,
             EventSent, Listen
    <3>4. Stutters
      BY <3>1, <3>2, <3>3 DEF Status, Alive, Readable
    <3> QED BY <1>1, <3>4
  <2> QED BY <1>1, <1>6, <1>8, <2>1, <2>2, <2>3 DEF ListenerStep, Callers
<1>9. ASSUME NEW p \in Conns, Serving(p)
      PROVE  Delivery!Next \/ UNCHANGED Delivery!vars
  <2> DEFINE it == Head(outbox[p])
  <2>1. \A s \in Readable : taken'[s] = taken[s] /\ Status(s)' = Status(s)
    BY <1>9 DEF Serving, Outside, mainVars, listenerVars, Status, Alive
  <2>2. CASE it.kind = "msg"
    <3>1. outbox[p] \in Seq(ToServer) /\ outbox[p] # <<>> /\ Route(Url[p], it.topic, it.msg)
      BY <1>0, <1>9, <2>2 DEF Serving, ServerStep, TypeOK, BrokerTypeOK
    <3>2. it \in ToServer /\ it = outbox[p][1] /\ 1 \in DOMAIN outbox[p]
      BY <3>1
    <3>3. it.msg \in Messages /\ Unsent(it.msg)
      BY <1>0, <2>2, <3>2, SentKinds DEF PublishedOnce, Msgs
    <3> QED BY <1>0, <2>1, <3>1, <3>3, DeliveryOffers
  <2>3. CASE it.kind # "msg"
    <3>1. offered' = offered
      BY <1>9, <2>3 DEF Serving, ServerStep
    <3> QED BY <1>1, <2>1, <3>1
  <2> QED BY <2>2, <2>3
<1>10. ASSUME NEW p \in Conns, Reading(p) \/ Failing(p)
       PROVE  Stutters
  BY <1>10 DEF Reading, Failing, ClientStep, Reconnect, GiveUp, Break, Outside, mainVars,
               listenerVars, Status, Alive
<1>11. ASSUME NEW p \in Conns, NEW t \in Topics, Elsewhere(Url[p], t)
       PROVE  Delivery!Next
  <2>1. nextMsg \in Messages /\ nextMsg >= nextMsg
    BY <1>0, <1>11, Bounds DEF Elsewhere, Messages, TypeOK, Types
  <2>2. Unsent(nextMsg)
    BY <1>0, <2>1 DEF PublishedOnce
  <2>3. \A s \in Readable : taken'[s] = taken[s] /\ Status(s)' = Status(s)
    BY <1>11 DEF Elsewhere, mainVars, listenerVars, Status, Alive
  <2> QED BY <1>0, <1>11, <2>1, <2>2, <2>3, DeliveryOffers DEF Elsewhere
<1> HIDE DEF Stutters
<1> QED
  BY <1>1, <1>2, <1>3, <1>4, <1>5, <1>7, <1>8, <1>9, <1>10, <1>11 DEF Next, MainStep

(* Whatever the goroutines, the broker and the connections do, each         *)
(* listener receives what was published for its source in order and each    *)
(* message at most once: EventPipeline implements EventDelivery.            *)
THEOREM Implements == Spec => DeliversInOrder
  BY Ordered, DeliveryInit, DeliveryNext, PTL DEF Spec, DeliversInOrder, Delivery!Spec
=============================================================================
