---------------------------- MODULE BrokerProofs ----------------------------
(***************************************************************************)
(* The type invariant of Broker, for every node table and every bound:     *)
(* each of its steps keeps BrokerTypeOK.  EventPipelineProofs uses it.     *)
(***************************************************************************)
EXTENDS Broker, FiniteSetTheorems, TLAPS

(* Two general facts about sequences. *)
LEMMA AppendIn ==
  ASSUME NEW S, NEW q \in Seq(S), NEW e \in S
  PROVE  Append(q, e) \in Seq(S)
  OBVIOUS

LEMMA TailIn ==
  ASSUME NEW S, NEW q \in Seq(S), q # <<>>
  PROVE  Head(q) \in S /\ Tail(q) \in Seq(S)
  OBVIOUS

LEMMA ConcatIn ==
  ASSUME NEW S, NEW q \in Seq(S), NEW r \in Seq(S)
  PROVE  q \o r \in Seq(S)
  OBVIOUS

LEMMA FunctionIn ==
  ASSUME NEW S, NEW k \in Nat, NEW f \in [1 .. k -> S]
  PROVE  f \in Seq(S)
  OBVIOUS

(* A node served by NATS has a connection. *)
LEMMA NodeConn == \A n \in NatsNodes : ProviderOf[n] \in Conns
  BY DEF NatsNodes, Conns

(* Items are told apart by their kind. *)
LEMMA SentKinds ==
  ASSUME NEW it \in ToServer
  PROVE  /\ it.kind = "sub" => it.node \in NatsNodes
         /\ it.kind = "msg" => it.topic \in Topics /\ it.msg \in Messages
         /\ it.kind = "ping" => it.msg \in Messages
  BY DEF ToServer, SubItem, MsgItem, PingItem

LEMMA ReceivedKinds ==
  ASSUME NEW it \in ToClient
  PROVE  /\ it.kind = "batch" => it.to \subseteq NatsNodes /\ it.msg \in Messages
         /\ it.kind = "pong" => it.msg \in Messages
  BY DEF ToClient, BatchItem, PongItem

LEMMA BrokerTypeInit == BrokerInit => BrokerTypeOK
  BY Bounds DEF BrokerInit, BrokerTypeOK

(* Routing appends to what comes back and to what was offered. *)
LEMMA RouteType ==
  ASSUME BrokerTypeOK, NEW u, NEW t, NEW m \in Messages, Route(u, t, m)
  PROVE  inbox' \in [Conns -> Seq(ToClient)] /\ offered' \in [NatsNodes -> Seq(Messages)]
<1> DEFINE R == Receivers(u, t)
<1>1. R \subseteq NatsNodes
  BY DEF Receivers, BrokerTypeOK
<1>2. ASSUME NEW p \in Conns
      PROVE  Batch(p, R, m) \in Seq(ToClient)
  <2>1. BatchItem({n \in R : ProviderOf[n] = p}, m) \in ToClient
    <3>1. \A N \in SUBSET NatsNodes : BatchItem(N, m) \in ToClient
      BY DEF ToClient
    <3>2. {n \in R : ProviderOf[n] = p} \in SUBSET NatsNodes
      BY <1>1
    <3> HIDE DEF R
    <3> QED
      BY <3>1, <3>2
  <2> QED
    BY <2>1 DEF Batch
<1>3. ASSUME NEW p \in Conns
      PROVE  inbox[p] \o Batch(p, R, m) \in Seq(ToClient)
  BY <1>2, ConcatIn DEF BrokerTypeOK
<1>4. ASSUME NEW n \in NatsNodes
      PROVE  Append(offered[n], m) \in Seq(Messages)
  BY AppendIn DEF BrokerTypeOK
<1> QED
  BY <1>3, <1>4 DEF Route, BrokerTypeOK

LEMMA ServerStepType ==
  ASSUME BrokerTypeOK, NEW p \in Conns, ServerStep(p)
  PROVE  BrokerTypeOK'
<1> USE DEF BrokerTypeOK
<1> DEFINE it == Head(outbox[p])
<1>1. it \in ToServer /\ Tail(outbox[p]) \in Seq(ToServer)
  BY TailIn DEF ServerStep
<1>2. outbox' \in [Conns -> Seq(ToServer)]
  BY <1>1 DEF ServerStep
<1>3. CASE it.kind = "sub" /\ active' = active \cup {it.node} /\ UNCHANGED <<inbox, offered>>
  BY <1>1, <1>2, <1>3, SentKinds DEF ServerStep
<1>4. CASE it.kind = "msg" /\ Route(Url[p], it.topic, it.msg) /\ UNCHANGED active
  BY <1>1, <1>2, <1>4, SentKinds, RouteType DEF ServerStep
<1>5. CASE /\ it.kind = "ping"
           /\ inbox' = [inbox EXCEPT ![p] = Append(@, PongItem(it.msg))]
           /\ UNCHANGED <<active, offered>>
  <2>1. PongItem(it.msg) \in ToClient
    BY <1>1, <1>5, SentKinds DEF ToClient
  <2>2. Append(inbox[p], PongItem(it.msg)) \in Seq(ToClient)
    BY <2>1, AppendIn
  <2> QED
    BY <1>2, <1>5, <2>2 DEF ServerStep
<1> QED
  BY <1>3, <1>4, <1>5 DEF ServerStep

LEMMA ClientStepType ==
  ASSUME BrokerTypeOK, NEW p \in Conns, ClientStep(p)
  PROVE  BrokerTypeOK'
<1> USE DEF BrokerTypeOK
<1> DEFINE it == Head(inbox[p])
           room == {n \in it.to : Len(pending[n]) < MaxPending}
<1>1. it \in ToClient /\ Tail(inbox[p]) \in Seq(ToClient)
  BY TailIn DEF ClientStep
<1>2. inbox' \in [Conns -> Seq(ToClient)]
  BY <1>1 DEF ClientStep
<1>3. CASE it.kind = "batch"
  <2>1. it.to \subseteq NatsNodes /\ it.msg \in Messages
    BY <1>1, <1>3, ReceivedKinds
  <2>2. /\ pending' = [n \in NatsNodes |->
                        IF n \in room THEN Append(pending[n], it.msg) ELSE pending[n]]
        /\ dropped' = [n \in NatsNodes |->
                        IF n \in it.to \ room THEN dropped[n] \cup {it.msg}
                                              ELSE dropped[n]]
        /\ slow' = (slow \ room) \cup (it.to \ room)
        /\ UNCHANGED <<outbox, open, subs, active, lost, offered, bounces, flush>>
    BY <1>3 DEF ClientStep
  <2>3. \A n \in NatsNodes : Append(pending[n], it.msg) \in Seq(Messages)
    BY <2>1, AppendIn
  <2>4. slow' \subseteq NatsNodes
    BY <2>1, <2>2
  <2>5. pending' \in [NatsNodes -> Seq(Messages)]
    BY <2>2, <2>3
  <2>6. dropped' \in [NatsNodes -> SUBSET Messages]
    BY <2>1, <2>2
  <2> QED
    BY <1>2, <2>2, <2>4, <2>5, <2>6
<1>4. CASE it.kind = "pong"
  BY <1>1, <1>2, <1>4, ReceivedKinds DEF ClientStep
<1> QED
  BY <1>3, <1>4 DEF ClientStep

(* The calls of the library that put something on a connection. *)
LEMMA SubscribeType ==
  ASSUME BrokerTypeOK, NEW n \in NatsNodes, SubscribeSync(n)
  PROVE  BrokerTypeOK'
<1>1. SubItem(n) \in ToServer /\ ProviderOf[n] \in Conns
  BY NodeConn DEF ToServer
<1>2. Append(outbox[ProviderOf[n]], SubItem(n)) \in Seq(ToServer)
  BY <1>1, AppendIn DEF BrokerTypeOK
<1> QED
  BY <1>1, <1>2 DEF SubscribeSync, BrokerTypeOK

LEMMA SendType ==
  ASSUME BrokerTypeOK, NEW n \in NatsNodes, NEW m \in Messages,
         PublishMsg(n, m) \/ SendPing(n, m)
  PROVE  BrokerTypeOK'
<1>1. /\ MsgItem(Topic[n], m) \in ToServer
      /\ PingItem(m) \in ToServer
      /\ ProviderOf[n] \in Conns
  BY NodeConn DEF ToServer, Topics, NatsNodes
<1>2. \A e \in ToServer : Append(outbox[ProviderOf[n]], e) \in Seq(ToServer)
  BY <1>1, AppendIn DEF BrokerTypeOK
<1>3. CASE PublishMsg(n, m)
  BY <1>1, <1>2, <1>3 DEF PublishMsg, BrokerTypeOK
<1>4. CASE SendPing(n, m)
  BY <1>1, <1>2, <1>4 DEF SendPing, BrokerTypeOK
<1> QED
  BY <1>3, <1>4

LEMMA DequeueType ==
  ASSUME BrokerTypeOK, NEW n \in NatsNodes, Dequeue(n)
  PROVE  BrokerTypeOK' /\ Head(pending[n]) \in Messages
<1>1. Head(pending[n]) \in Messages /\ Tail(pending[n]) \in Seq(Messages)
  BY TailIn DEF Dequeue, BrokerTypeOK
<1> QED
  BY <1>1 DEF Dequeue, BrokerTypeOK

(* A connection that breaks. *)
LEMMA BreakType ==
  ASSUME BrokerTypeOK, NEW p \in Conns, Reconnect(p) \/ GiveUp(p)
  PROVE  BrokerTypeOK'
<1> USE DEF BrokerTypeOK
<1>1. Break(p)
  BY DEF Reconnect, GiveUp
<1>2. Carried(p) \subseteq Messages
  <2>1. ASSUME NEW e \in Elements(outbox[p]), e.kind = "msg"
        PROVE  e.msg \in Messages
    BY <2>1, SentKinds DEF Elements
  <2>2. ASSUME NEW e \in Elements(inbox[p]), e.kind = "batch"
        PROVE  e.msg \in Messages
    BY <2>2, ReceivedKinds DEF Elements
  <2> QED
    BY <2>1, <2>2 DEF Carried
<1>3. /\ inbox' \in [Conns -> Seq(ToClient)]
      /\ active' \subseteq NatsNodes
      /\ lost' \subseteq Messages
      /\ bounces' \in 0 .. MaxBounces
      /\ UNCHANGED <<subs, pending, slow, dropped, offered>>
  BY <1>1, <1>2, Bounds DEF Break
<1>4. flush' \in [Messages -> {"none", "wait", "ok", "err"}]
  BY <1>1 DEF Break
<1>5. outbox' \in [Conns -> Seq(ToServer)] /\ open' \subseteq Conns
  <2>1. CASE GiveUp(p)
    BY <2>1 DEF GiveUp
  <2>2. CASE Reconnect(p)
    <3>1. IsFiniteSet({n \in subs : ProviderOf[n] = p})
      BY NodeTable, FS_Subset DEF NatsNodes
    <3>2. Cardinality({n \in subs : ProviderOf[n] = p}) \in Nat
      BY <3>1, FS_CardinalityType
    <3>3. PICK again \in [1 .. Cardinality({n \in subs : ProviderOf[n] = p}) -> subs] :
            outbox' = [outbox EXCEPT ![p] = [i \in DOMAIN again |-> SubItem(again[i])]]
      BY <2>2 DEF Reconnect
    <3>4. \A i \in DOMAIN again : SubItem(again[i]) \in ToServer
      BY <3>3 DEF ToServer
    <3>5. [i \in DOMAIN again |-> SubItem(again[i])] \in Seq(ToServer)
      <4> DEFINE k == Cardinality({n \in subs : ProviderOf[n] = p})
                 f == [i \in DOMAIN again |-> SubItem(again[i])]
      <4>1. f \in [1 .. k -> ToServer]
        BY <3>3, <3>4
      <4> HIDE DEF k, f
      <4> QED
        BY <3>2, <4>1, FunctionIn DEF k, f
    <3> QED
      BY <2>2, <3>3, <3>5 DEF Reconnect
  <2> QED
    BY <2>1, <2>2
<1> QED
  BY <1>3, <1>4, <1>5

-----------------------------------------------------------------------------
(* Queues, position by position.                                            *)
LEMMA AppendAt ==
  ASSUME NEW S, NEW q \in Seq(S), NEW e \in S
  PROVE  /\ Len(q) \in Nat /\ DOMAIN q = 1 .. Len(q)
         /\ Len(Append(q, e)) = Len(q) + 1
         /\ DOMAIN Append(q, e) = 1 .. Len(q) + 1
         /\ \A i \in 1 .. Len(q) : Append(q, e)[i] = q[i]
         /\ Append(q, e)[Len(q) + 1] = e
  OBVIOUS

LEMMA TailAt ==
  ASSUME NEW S, NEW q \in Seq(S), q # <<>>
  PROVE  /\ Len(q) \in Nat \ {0} /\ DOMAIN q = 1 .. Len(q)
         /\ Head(q) = q[1]
         /\ Len(Tail(q)) = Len(q) - 1
         /\ DOMAIN Tail(q) = 1 .. Len(q) - 1
         /\ \A i \in 1 .. Len(q) - 1 : Tail(q)[i] = q[i + 1]
  OBVIOUS

LEMMA EmptyAt == DOMAIN <<>> = {} /\ Len(<<>>) = 0
<1>1. DOMAIN <<>> = {}
  OBVIOUS
<1>2. Len(<<>>) = 0
  OBVIOUS
<1> QED BY <1>1, <1>2

(* Appending one element to a sequence or none. *)
LEMMA ElementsAppended ==
  ASSUME NEW S, NEW q \in Seq(S), NEW e \in S
  PROVE  Elements(Append(q, e)) = Elements(q) \cup {e}
<1>1. ASSUME NEW x \in Elements(Append(q, e)) PROVE x \in Elements(q) \cup {e}
  <2>1. PICK i \in DOMAIN Append(q, e) : x = Append(q, e)[i]
    BY DEF Elements
  <2>2. i \in 1 .. Len(q) \/ i = Len(q) + 1
    BY <2>1, AppendAt
  <2> QED BY <2>1, <2>2, AppendAt DEF Elements
<1>2. ASSUME NEW x \in Elements(q) \cup {e} PROVE x \in Elements(Append(q, e))
  <2>1. CASE x = e
    <3>1. Len(q) + 1 \in DOMAIN Append(q, e) /\ Append(q, e)[Len(q) + 1] = e
      BY AppendAt
    <3> QED BY <2>1, <3>1 DEF Elements
  <2>2. CASE x \in Elements(q)
    <3>1. PICK i \in DOMAIN q : x = q[i]
      BY <2>2 DEF Elements
    <3>2. i \in DOMAIN Append(q, e) /\ Append(q, e)[i] = x
      BY <3>1, AppendAt
    <3> QED BY <3>2 DEF Elements
  <2> QED BY <1>2, <2>1, <2>2
<1> QED BY <1>1, <1>2

LEMMA ElementsTail ==
  ASSUME NEW S, NEW q \in Seq(S), q # <<>>
  PROVE  Elements(q) = {Head(q)} \cup Elements(Tail(q))
<1>1. ASSUME NEW x \in Elements(q) PROVE x \in {Head(q)} \cup Elements(Tail(q))
  <2>1. PICK i \in DOMAIN q : x = q[i]
    BY DEF Elements
  <2>2. CASE i = 1
    BY <2>1, <2>2, TailAt
  <2>3. CASE i # 1
    <3>1. i - 1 \in DOMAIN Tail(q) /\ Tail(q)[i - 1] = x
      BY <2>1, <2>3, TailAt
    <3> QED BY <3>1 DEF Elements
  <2> QED BY <2>2, <2>3
<1>2. Head(q) \in Elements(q)
  BY TailAt DEF Elements
<1>3. ASSUME NEW x \in Elements(Tail(q)) PROVE x \in Elements(q)
  <2>1. PICK i \in DOMAIN Tail(q) : x = Tail(q)[i]
    BY DEF Elements
  <2>2. i + 1 \in DOMAIN q /\ q[i + 1] = x
    BY <2>1, TailAt
  <2> QED BY <2>2 DEF Elements
<1> QED BY <1>1, <1>2, <1>3

(* What comes back on connection p after the server has routed m: what came *)
(* before, and behind it m for the receivers on p, if there are any.        *)
LEMMA BatchAt ==
  ASSUME BrokerTypeOK, NEW u, NEW t, NEW m \in Messages, NEW p \in Conns,
         Route(u, t, m)
  PROVE  /\ DOMAIN inbox[p] = 1 .. Len(inbox[p]) /\ Len(inbox[p]) \in Nat
         /\ \A i \in DOMAIN inbox[p] :
              i \in DOMAIN inbox'[p] /\ inbox'[p][i] = inbox[p][i]
         /\ \/ /\ \A n \in Receivers(u, t) : ProviderOf[n] # p
               /\ DOMAIN inbox'[p] = DOMAIN inbox[p]
            \/ /\ DOMAIN inbox'[p] = 1 .. Len(inbox[p]) + 1
               /\ inbox'[p][Len(inbox[p]) + 1] =
                    BatchItem({n \in Receivers(u, t) : ProviderOf[n] = p}, m)
<1> DEFINE R == Receivers(u, t)
           N == {n \in R : ProviderOf[n] = p}
           q == inbox[p]
<1>1. q \in Seq(ToClient)
  BY DEF BrokerTypeOK
<1>2. inbox'[p] = q \o Batch(p, R, m)
  BY DEF Route
<1>3. CASE N = {}
  <2>1. Batch(p, R, m) = <<>>
    BY <1>3 DEF Batch
  <2>2. inbox'[p] = q
    BY <1>1, <1>2, <2>1
  <2> QED BY <1>1, <1>3, <2>2
<1>4. CASE N # {}
  <2> DEFINE b == BatchItem(N, m)
  <2>0. N \in SUBSET NatsNodes
    BY DEF Receivers, BrokerTypeOK
  <2>1. b \in ToClient
    <3> HIDE DEF N
    <3> QED BY <2>0 DEF ToClient
  <2>2. Batch(p, R, m) = <<b>>
    BY <1>4 DEF Batch
  <2> HIDE DEF b
  <2>3. inbox'[p] = Append(q, b)
    BY <1>1, <1>2, <2>1, <2>2
  <2>4. /\ Len(q) \in Nat /\ DOMAIN q = 1 .. Len(q)
        /\ DOMAIN Append(q, b) = 1 .. Len(q) + 1
        /\ \A i \in 1 .. Len(q) : Append(q, b)[i] = q[i]
        /\ Append(q, b)[Len(q) + 1] = b
    BY <1>1, <2>1, AppendAt
  <2> QED BY <1>4, <2>3, <2>4 DEF b
<1> QED BY <1>3, <1>4

(* The same, thing by thing. *)
LEMMA BatchesAt ==
  ASSUME BrokerTypeOK, NEW u, NEW t, NEW m \in Messages, NEW p \in Conns,
         Route(u, t, m)
  PROVE  \A k \in DOMAIN inbox'[p] :
           \/ k \in DOMAIN inbox[p] /\ inbox'[p][k] = inbox[p][k]
           \/ /\ k = Len(inbox[p]) + 1
              /\ inbox'[p][k].kind = "batch" /\ inbox'[p][k].msg = m
              /\ \A x \in inbox'[p][k].to : x \in Receivers(u, t) /\ ProviderOf[x] = p
<1>0. \A i \in DOMAIN inbox[p] : inbox'[p][i] = inbox[p][i]
  BY BatchAt
<1> SUFFICES ASSUME NEW k \in DOMAIN inbox'[p], k \notin DOMAIN inbox[p]
             PROVE  /\ k = Len(inbox[p]) + 1
                    /\ inbox'[p][k].kind = "batch" /\ inbox'[p][k].msg = m
                    /\ \A x \in inbox'[p][k].to :
                         x \in Receivers(u, t) /\ ProviderOf[x] = p
  BY <1>0
<1> DEFINE N == {n \in Receivers(u, t) : ProviderOf[n] = p}
<1>1. DOMAIN inbox[p] = 1 .. Len(inbox[p]) /\ Len(inbox[p]) \in Nat
  BY BatchAt
<1>2. /\ DOMAIN inbox'[p] = 1 .. Len(inbox[p]) + 1
      /\ inbox'[p][Len(inbox[p]) + 1] = BatchItem(N, m)
  BY BatchAt
<1>3. k = Len(inbox[p]) + 1 /\ inbox'[p][k] = BatchItem(N, m)
  BY <1>1, <1>2
<1> QED BY <1>3 DEF BatchItem

(* A receiver gets its batch behind everything else. *)
LEMMA BatchFor ==
  ASSUME BrokerTypeOK, NEW u, NEW t, NEW m \in Messages, NEW p \in Conns,
         Route(u, t, m), NEW x \in Receivers(u, t), ProviderOf[x] = p
  PROVE  /\ Len(inbox[p]) \in Nat
         /\ DOMAIN inbox'[p] = 1 .. Len(inbox[p]) + 1
         /\ inbox'[p][Len(inbox[p]) + 1].kind = "batch"
         /\ inbox'[p][Len(inbox[p]) + 1].msg = m
         /\ x \in inbox'[p][Len(inbox[p]) + 1].to
<1> DEFINE N == {n \in Receivers(u, t) : ProviderOf[n] = p}
<1>1. /\ Len(inbox[p]) \in Nat
      /\ DOMAIN inbox'[p] = 1 .. Len(inbox[p]) + 1
      /\ inbox'[p][Len(inbox[p]) + 1] = BatchItem(N, m)
  BY BatchAt
<1> QED BY <1>1 DEF BatchItem
=============================================================================
