----------------------- MODULE AcknowledgementProofs -----------------------
(***************************************************************************)
(* What an answer 202 says, for every node table, every set of sources and *)
(* requests and every bound: the inductive invariant AckIInv of            *)
(* EventPipeline, which stands on the order EventPipelineProofs proves.    *)
(***************************************************************************)
EXTENDS EventPipelineProofs

(* What the request waits for goes over the connection of Webhook. *)
LEMMA HomeTyped ==
  ASSUME TypeOK, Webhook \in Readable
  PROVE  /\ Webhook \in NatsNodes /\ Webhook \in Sources /\ Home \in Conns
         /\ outbox \in [Conns -> Seq(ToServer)] /\ inbox \in [Conns -> Seq(ToClient)]
         /\ Len(outbox[Home]) \in Nat /\ DOMAIN outbox[Home] = 1 .. Len(outbox[Home])
         /\ Len(inbox[Home]) \in Nat /\ DOMAIN inbox[Home] = 1 .. Len(inbox[Home])
         /\ pending[Webhook] \in Seq(Messages) /\ taken[Webhook] \in Seq(Messages)
<1>1. Webhook \in NatsNodes /\ Webhook \in Sources /\ Home \in Conns
  BY NodeConn DEF Readable, Home
<1>2. outbox \in [Conns -> Seq(ToServer)] /\ inbox \in [Conns -> Seq(ToClient)]
  BY DEF TypeOK, BrokerTypeOK
<1>3. outbox[Home] \in Seq(ToServer) /\ inbox[Home] \in Seq(ToClient)
  BY <1>1, <1>2
<1>4. pending[Webhook] \in Seq(Messages) /\ taken[Webhook] \in Seq(Messages)
  BY <1>1 DEF TypeOK, BrokerTypeOK, Types
<1> QED BY <1>1, <1>2, <1>3, <1>4

LEMMA Inboxes ==
  ASSUME TypeOK, NEW p \in Conns
  PROVE  /\ inbox[p] \in Seq(ToClient)
         /\ Len(inbox[p]) \in Nat /\ DOMAIN inbox[p] = 1 .. Len(inbox[p])
<1>1. inbox[p] \in Seq(ToClient)
  BY DEF TypeOK, BrokerTypeOK
<1> QED BY <1>1

(* Who is accounted for stays accounted for. *)
Accounts == UNCHANGED <<pending, taken, dropped, lost>>

LEMMA AccountsKept ==
  ASSUME Accounts, NEW m, AccountedFor(m)
  PROVE  AccountedFor(m)'
  BY DEF Accounts, AccountedFor

LEMMA AccountedTaken ==
  ASSUME TypeOK, Webhook \in Readable, NEW s \in Readable, Receive(s), NEW m,
         AccountedFor(m)
  PROVE  AccountedFor(m)'
<1>1. /\ dropped' = dropped /\ lost' = lost /\ pending[s] # <<>>
      /\ pending' = [pending EXCEPT ![s] = Tail(pending[s])]
      /\ taken' = [taken EXCEPT ![s] = Append(taken[s], Head(pending[s]))]
  BY DEF Receive, Dequeue, Got
<1>2. /\ pending \in [NatsNodes -> Seq(Messages)] /\ taken \in [Sources -> Seq(Messages)]
      /\ Webhook \in NatsNodes /\ Webhook \in Sources
  BY HomeTyped DEF TypeOK, BrokerTypeOK, Types
<1>3. CASE s # Webhook
  BY <1>1, <1>2, <1>3 DEF AccountedFor
<1>4. CASE s = Webhook
  <2> DEFINE q == pending[Webhook]
  <2>1. q \in Seq(Messages) /\ q # <<>> /\ taken[Webhook] \in Seq(Messages)
    BY <1>1, <1>2, <1>4
  <2>2. Head(q) \in Messages
    BY <2>1
  <2>3. pending'[Webhook] = Tail(q) /\ taken'[Webhook] = Append(taken[Webhook], Head(q))
    BY <1>1, <1>2, <1>4
  <2>4. Elements(q) = {Head(q)} \cup Elements(Tail(q))
    BY <2>1, ElementsTail
  <2>5. Elements(taken'[Webhook]) = Elements(taken[Webhook]) \cup {Head(q)}
    BY <2>1, <2>2, <2>3, ElementsAppended
  <2> QED BY <1>1, <2>3, <2>4, <2>5 DEF AccountedFor
<1> QED BY <1>3, <1>4

(* What comes back for Webhook enters the channel or is refused by it. *)
LEMMA AccountedRead ==
  ASSUME TypeOK, Webhook \in Readable, NEW p \in Conns, ClientStep(p),
         taken' = taken, NEW m
  PROVE  /\ AccountedFor(m) => AccountedFor(m)'
         /\ (p = Home /\ 1 \in Batches(Webhook) /\ Batched(Webhook, 1) = m)
               => AccountedFor(m)'
<1> DEFINE it == Head(inbox[p])
<1>1. /\ Webhook \in NatsNodes /\ inbox[p] \in Seq(ToClient) /\ inbox[p] # <<>>
      /\ pending[Webhook] \in Seq(Messages) /\ lost' = lost
      /\ dropped \in [NatsNodes -> SUBSET Messages]
  BY HomeTyped, Inboxes DEF ClientStep, TypeOK, BrokerTypeOK
<1>2. it \in ToClient /\ it = inbox[p][1]
  BY <1>1
<1>3. CASE it.kind = "pong"
  <2>1. pending' = pending /\ dropped' = dropped
    BY <1>2, <1>3 DEF ClientStep
  <2>2. ~(p = Home /\ 1 \in Batches(Webhook))
    BY <1>2, <1>3 DEF Batches, Home
  <2> QED BY <1>1, <2>1, <2>2 DEF AccountedFor
<1>4. CASE it.kind = "batch"
  <2> DEFINE b == it.msg
             fits == Webhook \in it.to /\ Len(pending[Webhook]) < MaxPending
             full == Webhook \in it.to /\ ~(Len(pending[Webhook]) < MaxPending)
  <2>0. b \in Messages
    BY <1>2, <1>4, ReceivedKinds
  <2>1. /\ pending'[Webhook] = IF fits THEN Append(pending[Webhook], b)
                                       ELSE pending[Webhook]
        /\ dropped'[Webhook] = IF full THEN dropped[Webhook] \cup {b}
                                       ELSE dropped[Webhook]
    BY <1>1, <1>4 DEF ClientStep
  <2>2. Elements(Append(pending[Webhook], b)) = Elements(pending[Webhook]) \cup {b}
    BY <1>1, <2>0, ElementsAppended
  <2>3. AccountedFor(m) => AccountedFor(m)'
    BY <1>1, <2>1, <2>2 DEF AccountedFor
  <2>4. ASSUME p = Home, 1 \in Batches(Webhook), Batched(Webhook, 1) = m
        PROVE  AccountedFor(m)'
    <3>1. Webhook \in it.to /\ b = m
      BY <1>2, <2>4 DEF Batches, Batched, Home
    <3>2. fits \/ full
      BY <3>1
    <3> QED BY <2>1, <2>2, <3>1, <3>2 DEF AccountedFor
  <2> QED BY <2>3, <2>4
<1> QED BY <1>3, <1>4 DEF ClientStep


(* A connection that breaks loses what it carried. *)
LEMMA AccountedBroken ==
  ASSUME TypeOK, Webhook \in Readable, NEW p \in Conns, Break(p), taken' = taken, NEW m
  PROVE  /\ AccountedFor(m) => AccountedFor(m)'
         /\ p = Home /\ OnItsWay(m) => AccountedFor(m)'
         /\ \A j \in DOMAIN outbox[p] : p = Home /\ SentWithin(m, j) => AccountedFor(m)'
<1>1. /\ pending' = pending /\ dropped' = dropped /\ lost' = lost \cup Carried(p)
  BY DEF Break
<1>2. AccountedFor(m) => AccountedFor(m)'
  BY <1>1 DEF AccountedFor
<1>3. ASSUME p = Home, NEW i \in DOMAIN outbox[p], outbox[p][i] = MsgItem(Topic[Webhook], m)
      PROVE  AccountedFor(m)'
  <2>1. outbox[p][i] \in Elements(outbox[p]) /\ outbox[p][i].kind = "msg"
        /\ outbox[p][i].msg = m
    BY <1>3 DEF Elements, MsgItem
  <2>2. m \in Carried(p)
    BY <2>1 DEF Carried
  <2> QED BY <1>1, <2>2 DEF AccountedFor
<1>4. ASSUME p = Home, NEW k \in Batches(Webhook), Batched(Webhook, k) = m
      PROVE  AccountedFor(m)'
  <2>1. inbox[p][k] \in Elements(inbox[p]) /\ inbox[p][k].kind = "batch"
        /\ inbox[p][k].msg = m
    BY <1>4 DEF Batches, Batched, Elements, Home
  <2>2. m \in Carried(p)
    BY <2>1 DEF Carried
  <2> QED BY <1>1, <2>2 DEF AccountedFor
<1>5. ASSUME p = Home, NEW j \in DOMAIN outbox[p], SentWithin(m, j)
      PROVE  AccountedFor(m)'
  <2>1. PICK i \in 1 .. j : outbox[Home][i] = MsgItem(Topic[Webhook], m)
    BY <1>5 DEF SentWithin
  <2>2. i \in DOMAIN outbox[p]
    BY <1>5, <2>1, HomeTyped
  <2> QED BY <1>3, <1>5, <2>1, <2>2
<1>6. ASSUME p = Home, OnItsWay(m)
      PROVE  AccountedFor(m)'
  <2>1. CASE SentWithin(m, Len(outbox[Home]))
    <3>1. PICK i \in DOMAIN outbox[p] : outbox[p][i] = MsgItem(Topic[Webhook], m)
      BY <1>6, <2>1, HomeTyped DEF SentWithin
    <3> QED BY <1>3, <1>6, <3>1
  <2>2. CASE BackWithin(m, Len(inbox[Home]))
    <3>1. PICK i : i \in Batches(Webhook) /\ Batched(Webhook, i) = m
      BY <2>2 DEF BackWithin
    <3> QED BY <1>4, <1>6, <3>1
  <2> QED BY <1>2, <1>6, <2>1, <2>2 DEF OnItsWay, Back
<1> QED BY <1>2, <1>5, <1>6

-----------------------------------------------------------------------------
(* A Flush stays behind its message.                                        *)
Trail(m) == FlushBehind(m)' /\ (OnItsWay(m) => OnItsWay(m)')

(* Nothing moves. *)
LEMMA TrailKept ==
  ASSUME Accounts, UNCHANGED <<outbox, inbox, flush>>, NEW m, FlushBehind(m)
  PROVE  Trail(m)
<1>1. AccountedFor(m)' <=> AccountedFor(m)
  BY DEF Accounts, AccountedFor
<1>2. Back(m)' <=> Back(m)
  BY <1>1 DEF Back, BackWithin, Batches, Batched
<1>3. \A k : SentWithin(m, k)' <=> SentWithin(m, k)
  BY DEF SentWithin
<1>4. \A k : BackWithin(m, k)' <=> BackWithin(m, k)
  BY DEF BackWithin, Batches, Batched
<1>5. OnItsWay(m)' <=> OnItsWay(m)
  BY <1>2, <1>3 DEF OnItsWay
<1>6. FlushBehind(m)'
  BY <1>1, <1>2, <1>3, <1>4 DEF FlushBehind
<1> QED BY <1>5, <1>6 DEF Trail

(* What is put on a connection is behind what is there. *)
LEMMA TrailSent ==
  ASSUME TypeOK, TypeOK', Webhook \in Readable, Accounts, inbox' = inbox,
         NEW p \in Conns, NEW e \in ToServer,
         outbox' = [outbox EXCEPT ![p] = Append(outbox[p], e)],
         NEW m \in Messages, FlushBehind(m), flush'[m] = "ok" => flush[m] = "ok",
         e = PingItem(m) => p = Home /\ OnItsWay(m)
  PROVE  Trail(m)
<1>1. AccountedFor(m)' <=> AccountedFor(m)
  BY DEF Accounts, AccountedFor
<1>2. Back(m)' <=> Back(m)
  BY <1>1 DEF Back, BackWithin, Batches, Batched
<1>3. /\ Home \in Conns /\ DOMAIN outbox[Home] = 1 .. Len(outbox[Home])
      /\ DOMAIN outbox'[Home] = 1 .. Len(outbox'[Home])
      /\ Len(outbox[Home]) \in Nat /\ Len(outbox'[Home]) \in Nat
  BY HomeTyped, OutboxesTypedNext DEF Outboxes
<1>4. \A i \in DOMAIN outbox[Home] :
        i \in DOMAIN outbox'[Home] /\ outbox'[Home][i] = outbox[Home][i]
  BY <1>3, SentAt
<1>5. ASSUME NEW j \in DOMAIN outbox[Home], SentWithin(m, j)
      PROVE  SentWithin(m, j)'
  <2>1. PICK i \in 1 .. j : outbox[Home][i] = MsgItem(Topic[Webhook], m)
    BY <1>5 DEF SentWithin
  <2>2. i \in DOMAIN outbox[Home]
    BY <1>3, <2>1
  <2>3. outbox'[Home][i] = MsgItem(Topic[Webhook], m)
    BY <1>4, <2>1, <2>2
  <2> QED BY <2>1, <2>3 DEF SentWithin
<1>6. ASSUME SentWithin(m, Len(outbox[Home]))
      PROVE  SentWithin(m, Len(outbox[Home]))'
  <2>1. PICK i \in 1 .. Len(outbox[Home]) : outbox[Home][i] = MsgItem(Topic[Webhook], m)
    BY <1>6 DEF SentWithin
  <2>2. i \in 1 .. Len(outbox'[Home]) /\ outbox'[Home][i] = MsgItem(Topic[Webhook], m)
    BY <1>3, <1>4, <2>1
  <2> QED BY <2>2 DEF SentWithin
<1>7. OnItsWay(m) => OnItsWay(m)'
  BY <1>2, <1>6 DEF OnItsWay
<1>8. ASSUME NEW q \in Conns, NEW j \in DOMAIN outbox'[q], outbox'[q][j] = PingItem(m)
      PROVE  q = Home /\ (SentWithin(m, j)' \/ Back(m)')
  <2>1. CASE j \in DOMAIN outbox[q] /\ outbox'[q][j] = outbox[q][j]
    <3>1. q = Home /\ (SentWithin(m, j) \/ Back(m))
      BY <1>8, <2>1 DEF FlushBehind
    <3> QED BY <1>2, <1>5, <2>1, <3>1
  <2>2. CASE q = p /\ j = Len(outbox[p]) + 1 /\ outbox'[q][j] = e
    <3>1. q = Home /\ OnItsWay(m)
      BY <1>8, <2>2
    <3>2. CASE SentWithin(m, Len(outbox[Home]))
      <4>1. PICK i \in 1 .. Len(outbox[Home]) :
              outbox[Home][i] = MsgItem(Topic[Webhook], m)
        BY <3>2 DEF SentWithin
      <4>2. i \in 1 .. j /\ outbox'[Home][i] = MsgItem(Topic[Webhook], m)
        BY <1>3, <1>4, <2>2, <3>1, <4>1
      <4> QED BY <3>1, <4>2 DEF SentWithin
    <3> QED BY <1>2, <3>1, <3>2 DEF OnItsWay
  <2> QED BY <1>8, <2>1, <2>2, SentAt
<1>9. ASSUME NEW q \in Conns, NEW j \in DOMAIN inbox'[q], inbox'[q][j] = PongItem(m)
      PROVE  q = Home /\ (BackWithin(m, j)' \/ AccountedFor(m)')
  <2>1. q = Home /\ (BackWithin(m, j) \/ AccountedFor(m))
    BY <1>9 DEF FlushBehind
  <2>2. BackWithin(m, j)' <=> BackWithin(m, j)
    BY DEF BackWithin, Batches, Batched
  <2> QED BY <1>1, <2>1, <2>2
<1>10. flush'[m] = "ok" => AccountedFor(m)'
  BY <1>1 DEF FlushBehind
<1>11. FlushBehind(m)'
  BY <1>8, <1>9, <1>10 DEF FlushBehind
<1> QED BY <1>7, <1>11 DEF Trail

LEMMA TrailTaken ==
  ASSUME TypeOK, Webhook \in Readable, NEW s \in Readable, Receive(s),
         NEW m, FlushBehind(m)
  PROVE  Trail(m)
<1>1. outbox' = outbox /\ inbox' = inbox /\ flush' = flush
  BY DEF Receive, Dequeue
<1>2. AccountedFor(m) => AccountedFor(m)'
  BY AccountedTaken
<1>3. \A k : SentWithin(m, k)' <=> SentWithin(m, k)
  BY <1>1 DEF SentWithin
<1>4. \A k : BackWithin(m, k)' <=> BackWithin(m, k)
  BY <1>1 DEF BackWithin, Batches, Batched
<1>5. Back(m) => Back(m)'
  BY <1>1, <1>2, <1>4 DEF Back
<1>6. OnItsWay(m) => OnItsWay(m)'
  BY <1>1, <1>3, <1>5 DEF OnItsWay
<1>7. FlushBehind(m)'
  BY <1>1, <1>2, <1>3, <1>4, <1>5 DEF FlushBehind
<1> QED BY <1>6, <1>7 DEF Trail


(* More may come back. *)
LEMMA BackGrows ==
  ASSUME TypeOK, TypeOK', Webhook \in Readable, NEW m,
         \A i \in DOMAIN inbox[Home] :
           i \in DOMAIN inbox'[Home] /\ inbox'[Home][i] = inbox[Home][i],
         AccountedFor(m) => AccountedFor(m)'
  PROVE  /\ \A k : BackWithin(m, k) => BackWithin(m, k)'
         /\ Back(m) => Back(m)'
<1>1. /\ Home \in Conns /\ DOMAIN inbox[Home] = 1 .. Len(inbox[Home])
      /\ DOMAIN inbox'[Home] = 1 .. Len(inbox'[Home])
      /\ Len(inbox[Home]) \in Nat /\ Len(inbox'[Home]) \in Nat
  <2>1. \A p \in Conns : inbox'[p] \in Seq(ToClient)
    BY DEF TypeOK, BrokerTypeOK
  <2>2. Home \in Conns
    BY HomeTyped
  <2>3. inbox'[Home] \in Seq(ToClient)
    BY <2>1, <2>2
  <2> QED BY <2>2, <2>3, HomeTyped
<1>2. ASSUME NEW i, i \in Batches(Webhook), Batched(Webhook, i) = m
      PROVE  i \in Batches(Webhook)' /\ Batched(Webhook, i)' = m
  BY <1>2 DEF Batches, Batched, Home
<1>3. ASSUME NEW k, BackWithin(m, k)
      PROVE  BackWithin(m, k)'
  <2>1. PICK i \in 1 .. k : i \in Batches(Webhook) /\ Batched(Webhook, i) = m
    BY <1>3 DEF BackWithin
  <2>2. i \in Batches(Webhook)' /\ Batched(Webhook, i)' = m
    BY <1>2, <2>1
  <2> QED BY <2>1, <2>2 DEF BackWithin
<1>4. ASSUME BackWithin(m, Len(inbox[Home]))
      PROVE  BackWithin(m, Len(inbox[Home]))'
  <2>1. PICK i \in 1 .. Len(inbox[Home]) : i \in Batches(Webhook) /\ Batched(Webhook, i) = m
    BY <1>4 DEF BackWithin
  <2>2. i \in Batches(Webhook)' /\ Batched(Webhook, i)' = m
    BY <1>2, <2>1
  <2>3. i \in 1 .. Len(inbox'[Home])
    BY <1>1, <2>1
  <2> QED BY <2>2, <2>3 DEF BackWithin
<1> QED BY <1>3, <1>4 DEF Back

(* Routing a message answers no Flush. *)
LEMMA RoutedAt ==
  ASSUME BrokerTypeOK, NEW u, NEW t, NEW x \in Messages, Route(u, t, x), NEW q \in Conns
  PROVE  /\ \A i \in DOMAIN inbox[q] :
              i \in DOMAIN inbox'[q] /\ inbox'[q][i] = inbox[q][i]
         /\ \A k \in DOMAIN inbox'[q] : inbox'[q][k].kind # "batch" =>
              k \in DOMAIN inbox[q] /\ inbox'[q][k] = inbox[q][k]
<1>1. \A i \in DOMAIN inbox[q] : i \in DOMAIN inbox'[q] /\ inbox'[q][i] = inbox[q][i]
  BY BatchAt
<1>2. \A k \in DOMAIN inbox'[q] :
        \/ k \in DOMAIN inbox[q] /\ inbox'[q][k] = inbox[q][k]
        \/ inbox'[q][k].kind = "batch"
  BY BatchesAt
<1> QED BY <1>1, <1>2

LEMMA TrailElsewhere ==
  ASSUME TypeOK, TypeOK', Webhook \in Readable, NEW u, NEW t, Elsewhere(u, t),
         NEW m, FlushBehind(m)
  PROVE  Trail(m)
<1>1. /\ outbox' = outbox /\ flush' = flush /\ Accounts
      /\ nextMsg \in Messages /\ Route(u, t, nextMsg) /\ BrokerTypeOK
  BY Bounds DEF Elsewhere, TypeOK, Types, Messages, listenerVars, Accounts
<1>2. AccountedFor(m) => AccountedFor(m)'
  BY <1>1, AccountsKept
<1>3. \A q \in Conns :
        /\ \A i \in DOMAIN inbox[q] : i \in DOMAIN inbox'[q] /\ inbox'[q][i] = inbox[q][i]
        /\ \A k \in DOMAIN inbox'[q] :
             inbox'[q][k].kind # "batch" => k \in DOMAIN inbox[q] /\ inbox'[q][k] = inbox[q][k]
  BY <1>1, RoutedAt
<1>4. (\A k : BackWithin(m, k) => BackWithin(m, k)') /\ (Back(m) => Back(m)')
  BY <1>2, <1>3, HomeTyped, BackGrows
<1>5. \A k : SentWithin(m, k)' <=> SentWithin(m, k)
  BY <1>1 DEF SentWithin
<1>6. OnItsWay(m) => OnItsWay(m)'
  BY <1>1, <1>4, <1>5 DEF OnItsWay
<1>7. ASSUME NEW q \in Conns, NEW j \in DOMAIN inbox'[q], inbox'[q][j] = PongItem(m)
      PROVE  q = Home /\ (BackWithin(m, j)' \/ AccountedFor(m)')
  <2>1. j \in DOMAIN inbox[q] /\ inbox'[q][j] = inbox[q][j]
    BY <1>3, <1>7 DEF PongItem
  <2> QED BY <1>2, <1>4, <1>7, <2>1 DEF FlushBehind
<1>8. FlushBehind(m)'
  BY <1>1, <1>2, <1>4, <1>5, <1>7 DEF FlushBehind
<1> QED BY <1>6, <1>8 DEF Trail

(* The server knows the subscription of Webhook when it takes a request. *)
LEMMA RequestReceived ==
  ASSUME TypeOK, RequestsServed, SubscribedFirst, Webhook \in Readable,
         Serving(Home), NEW r \in Requests, cmsg[r] # 0,
         Head(outbox[Home]) = MsgItem(Topic[Webhook], cmsg[r])
  PROVE  Webhook \in Receivers(Url[Home], Topic[Webhook])
<1>1. mainPc = "serve" /\ todo = {}
  BY DEF Serving, Alive, RequestsServed, TypeOK, Types, MainPcs
<1>2. outbox[Home] # <<>> /\ Home \in Conns /\ outbox[Home] \in Seq(ToServer)
  BY HomeTyped DEF Serving, ServerStep
<1>3. Webhook \in subs /\ Home \in open
  BY <1>1, <1>2 DEF SubscribedFirst
<1>4. KnownInTime(Webhook)
  BY <1>3 DEF SubscribedFirst, Home
<1>5. 1 \in Msgs(Home) /\ outbox[Home][1].msg = cmsg[r]
  BY <1>2 DEF Msgs, MsgItem
<1>6. \A j \in DOMAIN outbox[Home] : ~(j < 1)
  BY <1>2
<1>7. Webhook \in active
  BY <1>4, <1>5, <1>6 DEF KnownInTime, Home
<1> QED BY <1>7 DEF Receivers, Home


(* The server takes something from the connection of Webhook: what was      *)
(* within j + 1 is within j, or has been handed out.                        *)
LEMMA SentServed ==
  ASSUME TypeOK, TypeOK', Webhook \in Readable, ServerStep(Home), NEW m,
         Back(m) => Back(m)',
         Head(outbox[Home]) = MsgItem(Topic[Webhook], m) => Back(m)'
  PROVE  /\ OnItsWay(m) => OnItsWay(m)'
         /\ \A j \in Nat : SentWithin(m, j + 1) /\ j + 1 \in DOMAIN outbox[Home]
              => SentWithin(m, j)' \/ Back(m)'
<1>1. /\ Home \in Conns /\ DOMAIN outbox[Home] = 1 .. Len(outbox[Home])
      /\ Len(outbox[Home]) \in Nat
      /\ outbox[Home] \in Seq(ToServer) /\ outbox[Home] # <<>>
      /\ outbox'[Home] = Tail(outbox[Home]) /\ Head(outbox[Home]) = outbox[Home][1]
  BY HomeTyped DEF ServerStep
<1>2. /\ Len(outbox'[Home]) = Len(outbox[Home]) - 1
      /\ \A i \in 1 .. Len(outbox[Home]) - 1 : outbox'[Home][i] = outbox[Home][i + 1]
  BY <1>1, TailAt
<1>3. ASSUME NEW j \in Nat, j + 1 \in DOMAIN outbox[Home], SentWithin(m, j + 1)
      PROVE  SentWithin(m, j)' \/ Back(m)'
  <2>1. PICK i \in 1 .. j + 1 : outbox[Home][i] = MsgItem(Topic[Webhook], m)
    BY <1>3 DEF SentWithin
  <2>2. CASE i = 1
    BY <1>1, <2>1, <2>2
  <2>3. CASE i # 1
    <3>1. i - 1 \in 1 .. j /\ i - 1 \in 1 .. Len(outbox[Home]) - 1 /\ (i - 1) + 1 = i
      BY <1>1, <1>3, <2>3
    <3>2. outbox'[Home][i - 1] = MsgItem(Topic[Webhook], m)
      BY <1>2, <2>1, <3>1
    <3> QED BY <3>1, <3>2 DEF SentWithin
  <2> QED BY <2>2, <2>3
<1>4. ASSUME SentWithin(m, Len(outbox[Home]))
      PROVE  OnItsWay(m)'
  <2>1. PICK i \in 1 .. Len(outbox[Home]) : outbox[Home][i] = MsgItem(Topic[Webhook], m)
    BY <1>4 DEF SentWithin
  <2>2. CASE i = 1
    BY <1>1, <2>1, <2>2 DEF OnItsWay
  <2>3. CASE i # 1
    <3>1. i - 1 \in 1 .. Len(outbox[Home]) - 1 /\ (i - 1) + 1 = i
      BY <1>1, <2>3
    <3>2. i - 1 \in 1 .. Len(outbox'[Home]) /\ outbox'[Home][i - 1] = MsgItem(Topic[Webhook], m)
      BY <1>2, <2>1, <3>1
    <3> QED BY <3>2 DEF OnItsWay, SentWithin
  <2> QED BY <2>2, <2>3
<1> QED BY <1>3, <1>4 DEF OnItsWay

LEMMA TrailServed ==
  ASSUME TypeOK, TypeOK', RequestsServed, SubscribedFirst, Webhook \in Readable,
         NEW p \in Conns, Serving(p), NEW r \in Requests, NEW m \in Messages,
         m = cmsg[r], FlushBehind(m)
  PROVE  Trail(m)
<1> DEFINE it == Head(outbox[p])
<1>1. /\ ServerStep(p) /\ Accounts /\ flush' = flush /\ BrokerTypeOK
      /\ m # 0 /\ Home \in Conns
  BY HomeTyped
     DEF Serving, ServerStep, Outside, listenerVars, Accounts, TypeOK, Messages
<1>2. AccountedFor(m) => AccountedFor(m)'
  BY <1>1, AccountsKept
<1>3. /\ outbox[p] \in Seq(ToServer) /\ outbox[p] # <<>>
      /\ outbox' = [outbox EXCEPT ![p] = Tail(outbox[p])]
      /\ outbox \in [Conns -> Seq(ToServer)]
  BY <1>1 DEF ServerStep, BrokerTypeOK
<1>4. it \in ToServer /\ it = outbox[p][1] /\ 1 \in DOMAIN outbox[p]
  BY <1>3
\* What comes back: what came, and behind it a batch or one answer.
<1>5. ASSUME NEW q \in Conns
      PROVE  /\ \A i \in DOMAIN inbox[q] : i \in DOMAIN inbox'[q] /\ inbox'[q][i] = inbox[q][i]
             /\ \A k \in DOMAIN inbox'[q] : inbox'[q][k] = PongItem(m) =>
                  \/ k \in DOMAIN inbox[q] /\ inbox'[q][k] = inbox[q][k]
                  \/ q = p /\ k = Len(inbox[p]) + 1 /\ it = PingItem(m)
  <2>1. CASE inbox' = inbox
    BY <2>1
  <2>2. CASE it.kind = "msg" /\ Route(Url[p], it.topic, it.msg)
    <3>1. it.msg \in Messages
      BY <1>4, <2>2, SentKinds
    <3> HIDE DEF it
    <3> QED BY <1>1, <2>2, <3>1, RoutedAt DEF PongItem
  <2>3. CASE /\ it.kind = "ping"
             /\ inbox' = [inbox EXCEPT ![p] = Append(inbox[p], PongItem(it.msg))]
    <3>1. it.msg \in Messages /\ it = PingItem(it.msg)
      BY <1>4, <2>3 DEF ToServer, SubItem, MsgItem, PingItem
    <3> HIDE DEF it
    <3>2. inbox[p] \in Seq(ToClient) /\ PongItem(it.msg) \in ToClient
          /\ inbox \in [Conns -> Seq(ToClient)]
      <4>1. PongItem(it.msg) \in ToClient
        BY <3>1 DEF ToClient
      <4> QED BY <4>1 DEF TypeOK, BrokerTypeOK
    <3>3. \A k \in DOMAIN inbox'[q] :
            \/ k \in DOMAIN inbox[q] /\ inbox'[q][k] = inbox[q][k]
            \/ q = p /\ k = Len(inbox[p]) + 1 /\ inbox'[q][k] = PongItem(it.msg)
      BY <2>3, <3>1, PongAt
    <3>4. \A i \in DOMAIN inbox[q] : i \in DOMAIN inbox'[q] /\ inbox'[q][i] = inbox[q][i]
      <4>1. CASE q = p
        <5>1. inbox'[q] = Append(inbox[p], PongItem(it.msg))
          BY <2>3, <3>2, <4>1
        <5> QED BY <3>2, <4>1, <5>1, AppendAt
      <4>2. CASE q # p
        BY <2>3, <3>2, <4>2
      <4> QED BY <4>1, <4>2
    <3>5. \A x : PongItem(x) = PongItem(m) => x = m
      BY DEF PongItem
    <3> QED BY <3>1, <3>3, <3>4, <3>5
  <2> QED BY <1>1, <2>1, <2>2, <2>3 DEF ServerStep
<1>6. (\A k : BackWithin(m, k) => BackWithin(m, k)') /\ (Back(m) => Back(m)')
  BY <1>1, <1>2, <1>5, BackGrows
\* The message of a request meets the subscription.
<1>7. p = Home /\ it = MsgItem(Topic[Webhook], m) => Back(m)'
  <2>1. SUFFICES ASSUME p = Home, it = MsgItem(Topic[Webhook], m)
                 PROVE  Back(m)'
    OBVIOUS
  <2>2. Webhook \in Receivers(Url[Home], Topic[Webhook])
    BY <1>1, <2>1, RequestReceived
  <2>3. Route(Url[Home], Topic[Webhook], m)
    BY <1>1, <2>1 DEF ServerStep, MsgItem
  <2>4. PICK l \in Nat \ {0} : l = Len(inbox[Home]) + 1
    BY HomeTyped
  <2>5. /\ DOMAIN inbox'[Home] = 1 .. l
        /\ inbox'[Home][l].kind = "batch" /\ inbox'[Home][l].msg = m
        /\ Webhook \in inbox'[Home][l].to
    BY <1>1, <2>2, <2>3, <2>4, BatchFor DEF Home
  <2>6. l \in Batches(Webhook)' /\ Batched(Webhook, l)' = m
    BY <2>5 DEF Batches, Batched, Home
  <2>7. inbox'[Home] \in Seq(ToClient)
    BY <1>1 DEF TypeOK, BrokerTypeOK
  <2>8. Len(inbox'[Home]) = l
    BY <2>5, <2>7
  <2>9. BackWithin(m, Len(inbox[Home]))'
    BY <2>6, <2>8 DEF BackWithin
  <2> QED BY <2>9 DEF Back
<1>8. CASE p # Home
  <2>1. outbox'[Home] = outbox[Home]
    BY <1>1, <1>3, <1>8
  <2>2. \A k : SentWithin(m, k)' <=> SentWithin(m, k)
    BY <2>1 DEF SentWithin
  <2>3. OnItsWay(m) => OnItsWay(m)'
    BY <1>6, <2>1, <2>2 DEF OnItsWay
  <2>4. ASSUME NEW q \in Conns, NEW j \in DOMAIN outbox'[q], outbox'[q][j] = PingItem(m)
        PROVE  q = Home /\ (SentWithin(m, j)' \/ Back(m)')
    <3>1. CASE q = p
      <4>1. j + 1 \in DOMAIN outbox[q] /\ outbox[q][j + 1] = PingItem(m)
        BY <1>1, <2>4, <3>1, ServedAt
      <4> QED BY <1>8, <3>1, <4>1 DEF FlushBehind
    <3>2. CASE q # p
      BY <1>3, <1>6, <2>2, <2>4, <3>2 DEF FlushBehind
    <3> QED BY <3>1, <3>2
  <2>5. ASSUME NEW q \in Conns, NEW j \in DOMAIN inbox'[q], inbox'[q][j] = PongItem(m)
        PROVE  q = Home /\ (BackWithin(m, j)' \/ AccountedFor(m)')
    <3>1. it # PingItem(m)
      BY <1>4, <1>8 DEF FlushBehind
    <3>2. j \in DOMAIN inbox[q] /\ inbox[q][j] = PongItem(m)
      BY <1>5, <2>5, <3>1
    <3> QED BY <1>2, <1>6, <3>2 DEF FlushBehind
  <2>6. FlushBehind(m)'
    BY <1>1, <1>2, <2>4, <2>5 DEF FlushBehind
  <2> QED BY <2>3, <2>6 DEF Trail
<1>9. CASE p = Home
  <2>1. /\ OnItsWay(m) => OnItsWay(m)'
        /\ \A j \in Nat : SentWithin(m, j + 1) /\ j + 1 \in DOMAIN outbox[Home]
             => SentWithin(m, j)' \/ Back(m)'
    BY <1>1, <1>6, <1>7, <1>9, SentServed
  <2>2. ASSUME NEW q \in Conns, NEW j \in DOMAIN outbox'[q], outbox'[q][j] = PingItem(m)
        PROVE  q = Home /\ (SentWithin(m, j)' \/ Back(m)')
    <3>1. j \in Nat
      BY OutboxesTypedNext DEF Outboxes
    <3>2. CASE q = p
      <4>1. j + 1 \in DOMAIN outbox[q] /\ outbox[q][j + 1] = PingItem(m)
        BY <1>1, <2>2, <3>2, ServedAt
      <4>2. SentWithin(m, j + 1) \/ Back(m)
        BY <4>1 DEF FlushBehind
      <4> QED BY <1>6, <1>9, <2>1, <3>1, <3>2, <4>1, <4>2
    <3>3. CASE q # p
      BY <1>3, <1>9, <2>2, <3>3 DEF FlushBehind
    <3> QED BY <3>2, <3>3
  <2>3. ASSUME it = PingItem(m)
        PROVE  BackWithin(m, Len(inbox[Home])) \/ AccountedFor(m)
    <3>1. SentWithin(m, 1) \/ Back(m)
      BY <1>4, <2>3 DEF FlushBehind
    <3>2. ~SentWithin(m, 1)
      BY <1>4, <1>9, <2>3 DEF SentWithin, PingItem, MsgItem
    <3> QED BY <3>1, <3>2 DEF Back
  <2>4. ASSUME NEW q \in Conns, NEW j \in DOMAIN inbox'[q], inbox'[q][j] = PongItem(m)
        PROVE  q = Home /\ (BackWithin(m, j)' \/ AccountedFor(m)')
    <3>1. CASE j \in DOMAIN inbox[q] /\ inbox'[q][j] = inbox[q][j]
      BY <1>2, <1>6, <2>4, <3>1 DEF FlushBehind
    <3>2. CASE q = p /\ j = Len(inbox[p]) + 1 /\ it = PingItem(m)
      <4>1. CASE BackWithin(m, Len(inbox[Home]))
        <5>1. PICK i \in 1 .. Len(inbox[Home]) :
                i \in Batches(Webhook) /\ Batched(Webhook, i) = m
          BY <4>1 DEF BackWithin
        <5>2. i \in 1 .. j
          BY <1>9, <3>2, <5>1, HomeTyped
        <5>3. BackWithin(m, j)
          BY <5>1, <5>2 DEF BackWithin
        <5> QED BY <1>6, <1>9, <3>2, <5>3
      <4> QED BY <1>2, <1>9, <2>3, <3>2, <4>1
    <3> QED BY <1>5, <2>4, <3>1, <3>2
  <2>5. FlushBehind(m)'
    BY <1>1, <1>2, <2>2, <2>4 DEF FlushBehind
  <2> QED BY <2>1, <2>5 DEF Trail
<1> QED BY <1>8, <1>9


(* The library takes something from the connection of Webhook: what came    *)
(* back within j + 1 is within j, or is accounted for.                      *)
LEMMA BackRead ==
  ASSUME TypeOK, TypeOK', Webhook \in Readable, ClientStep(Home), NEW m,
         AccountedFor(m) => AccountedFor(m)',
         1 \in Batches(Webhook) /\ Batched(Webhook, 1) = m => AccountedFor(m)'
  PROVE  /\ Back(m) => Back(m)'
         /\ \A j \in Nat : BackWithin(m, j + 1) => BackWithin(m, j)' \/ AccountedFor(m)'
<1>1. /\ Home \in Conns /\ DOMAIN inbox[Home] = 1 .. Len(inbox[Home])
      /\ Len(inbox[Home]) \in Nat
      /\ inbox[Home] \in Seq(ToClient) /\ inbox[Home] # <<>>
      /\ inbox'[Home] = Tail(inbox[Home])
  BY HomeTyped DEF ClientStep
<1>2. /\ Len(inbox'[Home]) = Len(inbox[Home]) - 1
      /\ DOMAIN inbox'[Home] = 1 .. Len(inbox[Home]) - 1
      /\ \A i \in 1 .. Len(inbox[Home]) - 1 : inbox'[Home][i] = inbox[Home][i + 1]
  BY <1>1, TailAt
<1>3. ASSUME NEW i, i \in Batches(Webhook), Batched(Webhook, i) = m, i # 1
      PROVE  /\ i \in Nat /\ i - 1 \in 1 .. Len(inbox'[Home])
             /\ i - 1 \in Batches(Webhook)' /\ Batched(Webhook, i - 1)' = m
  <2>1. i \in 1 .. Len(inbox[Home])
    BY <1>1, <1>3 DEF Batches, Home
  <2>2. PICK k \in Nat : k = i - 1 /\ k \in 1 .. Len(inbox[Home]) - 1 /\ k + 1 = i
    BY <1>1, <1>3, <2>1
  <2>3. inbox'[Home][k] = inbox[Home][i] /\ k \in DOMAIN inbox'[Home]
    BY <1>2, <2>2
  <2>4. k \in Batches(Webhook)' /\ Batched(Webhook, k)' = m
    BY <1>3, <2>3 DEF Batches, Batched, Home
  <2> QED BY <1>2, <2>1, <2>2, <2>4
<1>4. ASSUME NEW j \in Nat, BackWithin(m, j + 1)
      PROVE  BackWithin(m, j)' \/ AccountedFor(m)'
  <2>1. PICK i \in 1 .. j + 1 : i \in Batches(Webhook) /\ Batched(Webhook, i) = m
    BY <1>4 DEF BackWithin
  <2>2. CASE i = 1
    BY <2>1, <2>2
  <2>3. CASE i # 1
    <3>1. i - 1 \in Batches(Webhook)' /\ Batched(Webhook, i - 1)' = m
      BY <1>3, <2>1, <2>3
    <3>2. i - 1 \in 1 .. j
      BY <2>1, <2>3
    <3> QED BY <3>1, <3>2 DEF BackWithin
  <2> QED BY <2>2, <2>3
<1>5. ASSUME BackWithin(m, Len(inbox[Home]))
      PROVE  Back(m)'
  <2>1. PICK i : i \in Batches(Webhook) /\ Batched(Webhook, i) = m
    BY <1>5 DEF BackWithin
  <2>2. CASE i = 1
    BY <2>1, <2>2 DEF Back
  <2>3. CASE i # 1
    <3>1. /\ i - 1 \in 1 .. Len(inbox'[Home])
          /\ i - 1 \in Batches(Webhook)' /\ Batched(Webhook, i - 1)' = m
      BY <1>3, <2>1, <2>3
    <3> QED BY <3>1 DEF Back, BackWithin
  <2> QED BY <2>2, <2>3
<1> QED BY <1>4, <1>5 DEF Back

LEMMA TrailRead ==
  ASSUME TypeOK, TypeOK', Webhook \in Readable, NEW p \in Conns, ClientStep(p),
         taken' = taken, NEW m \in Messages, FlushBehind(m)
  PROVE  Trail(m)
<1> DEFINE it == Head(inbox[p])
<1>1. /\ Home \in Conns /\ outbox' = outbox
      /\ inbox[p] \in Seq(ToClient) /\ inbox[p] # <<>>
      /\ inbox' = [inbox EXCEPT ![p] = Tail(inbox[p])]
      /\ inbox \in [Conns -> Seq(ToClient)]
  BY HomeTyped, Inboxes DEF ClientStep
<1>2. /\ AccountedFor(m) => AccountedFor(m)'
      /\ (p = Home /\ 1 \in Batches(Webhook) /\ Batched(Webhook, 1) = m)
            => AccountedFor(m)'
  BY AccountedRead
<1>3. \A k : SentWithin(m, k)' <=> SentWithin(m, k)
  BY <1>1 DEF SentWithin
<1>4. Back(m) => Back(m)'
  <2>1. CASE p = Home
    BY <1>2, <2>1, BackRead
  <2>2. CASE p # Home
    <3>1. inbox'[Home] = inbox[Home]
      BY <1>1, <2>2
    <3> QED BY <1>2, <3>1, BackGrows
  <2> QED BY <2>1, <2>2
<1>5. OnItsWay(m) => OnItsWay(m)'
  BY <1>1, <1>3, <1>4 DEF OnItsWay
\* The library answers the Flush of m only behind the batch of m.
<1>6. /\ it = inbox[p][1] /\ 1 \in DOMAIN inbox[p] /\ it \in ToClient
      /\ \A k \in DOMAIN inbox'[p] : k \in Nat /\ k + 1 \in DOMAIN inbox[p]
                                     /\ inbox'[p][k] = inbox[p][k + 1]
  <2>1. /\ Len(inbox[p]) \in Nat \ {0} /\ DOMAIN inbox[p] = 1 .. Len(inbox[p])
        /\ it = inbox[p][1]
        /\ DOMAIN Tail(inbox[p]) = 1 .. Len(inbox[p]) - 1
        /\ \A i \in 1 .. Len(inbox[p]) - 1 : Tail(inbox[p])[i] = inbox[p][i + 1]
    BY <1>1, TailAt
  <2>2. inbox'[p] = Tail(inbox[p])
    BY <1>1
  <2> QED BY <1>1, <2>1, <2>2
<1>7. ASSUME flush'[m] = "ok"
      PROVE  AccountedFor(m)'
  <2>1. CASE flush[m] = "ok"
    BY <1>2, <2>1 DEF FlushBehind
  <2>2. CASE flush[m] # "ok"
    <3>1. it.kind = "pong" /\ it.msg = m
      BY <1>7, <2>2 DEF ClientStep, TypeOK, BrokerTypeOK
    <3>2. it = PongItem(m)
      BY <1>6, <3>1 DEF ToClient, PongItem, BatchItem
    <3>3. p = Home /\ (BackWithin(m, 1) \/ AccountedFor(m))
      BY <1>6, <3>2 DEF FlushBehind
    <3>4. ~BackWithin(m, 1)
      BY <1>6, <3>1, <3>3 DEF BackWithin, Batches, Home
    <3> QED BY <1>2, <3>3, <3>4
  <2> QED BY <2>1, <2>2
<1>8. ASSUME NEW q \in Conns, NEW j \in DOMAIN inbox'[q], inbox'[q][j] = PongItem(m)
      PROVE  q = Home /\ (BackWithin(m, j)' \/ AccountedFor(m)')
  <2>1. CASE q = p
    <3>1. j \in Nat /\ j + 1 \in DOMAIN inbox[q] /\ inbox[q][j + 1] = PongItem(m)
      BY <1>6, <1>8, <2>1
    <3>2. q = Home /\ (BackWithin(m, j + 1) \/ AccountedFor(m))
      BY <3>1 DEF FlushBehind
    <3>3. BackWithin(m, j + 1) => BackWithin(m, j)' \/ AccountedFor(m)'
      BY <1>2, <2>1, <3>1, <3>2, BackRead
    <3> QED BY <1>2, <3>2, <3>3
  <2>2. CASE q # p
    <3>1. j \in DOMAIN inbox[q] /\ inbox[q][j] = PongItem(m) /\ inbox'[q] = inbox[q]
      BY <1>1, <1>8, <2>2
    <3>2. q = Home /\ (BackWithin(m, j) \/ AccountedFor(m))
      BY <3>1 DEF FlushBehind
    <3>3. BackWithin(m, j) => BackWithin(m, j)'
      BY <3>1, <3>2 DEF BackWithin, Batches, Batched, Home
    <3> QED BY <1>2, <3>2, <3>3
  <2> QED BY <2>1, <2>2
<1>9. FlushBehind(m)'
  BY <1>1, <1>3, <1>4, <1>7, <1>8 DEF FlushBehind
<1> QED BY <1>5, <1>9 DEF Trail

LEMMA TrailBroken ==
  ASSUME TypeOK, TypeOK', Webhook \in Readable, NEW p \in Conns, Failing(p),
         NEW m \in Messages, FlushBehind(m)
  PROVE  Trail(m)
<1>1. /\ Break(p) /\ taken' = taken /\ Home \in Conns
      /\ inbox' = [inbox EXCEPT ![p] = <<>>] /\ inbox \in [Conns -> Seq(ToClient)]
      /\ Reconnect(p) \/ GiveUp(p)
      /\ flush'[m] = "ok" => flush[m] = "ok"
  BY HomeTyped DEF Failing, Reconnect, GiveUp, Break, Outside, listenerVars
<1>2. AccountedFor(m) => AccountedFor(m)'
  BY <1>1, AccountedBroken
<1>3. OnItsWay(m) => OnItsWay(m)'
  <2>1. CASE p = Home
    BY <1>1, <2>1, AccountedBroken DEF OnItsWay, Back
  <2>2. CASE p # Home
    <3>1. outbox'[Home] = outbox[Home] /\ inbox'[Home] = inbox[Home]
      BY <1>1, <2>2, BrokenAt
    <3>2. Back(m) => Back(m)'
      BY <1>2, <3>1, BackGrows
    <3> QED BY <3>1, <3>2 DEF OnItsWay, SentWithin
  <2> QED BY <2>1, <2>2
<1>4. ASSUME NEW q \in Conns, NEW j \in DOMAIN outbox'[q], outbox'[q][j] = PingItem(m)
      PROVE  q = Home /\ (SentWithin(m, j)' \/ Back(m)')
  <2>1. q # p /\ outbox'[q] = outbox[q]
    BY <1>1, <1>4, BrokenAt DEF PingItem
  <2>2. q = Home /\ (SentWithin(m, j) \/ Back(m))
    BY <1>4, <2>1 DEF FlushBehind
  <2>3. inbox'[Home] = inbox[Home]
    BY <1>1, <2>1, <2>2
  <2>4. Back(m) => Back(m)'
    BY <1>2, <2>3, BackGrows
  <2> QED BY <2>1, <2>2, <2>4 DEF SentWithin
<1>5. ASSUME NEW q \in Conns, NEW j \in DOMAIN inbox'[q], inbox'[q][j] = PongItem(m)
      PROVE  q = Home /\ (BackWithin(m, j)' \/ AccountedFor(m)')
  <2>1. q # p /\ inbox'[q] = inbox[q]
    BY <1>1, <1>5, EmptyAt
  <2>2. q = Home /\ (BackWithin(m, j) \/ AccountedFor(m))
    BY <1>5, <2>1 DEF FlushBehind
  <2>3. BackWithin(m, j) => BackWithin(m, j)'
    BY <2>1, <2>2 DEF BackWithin, Batches, Batched, Home
  <2> QED BY <1>2, <2>2, <2>3
<1>6. FlushBehind(m)'
  BY <1>1, <1>2, <1>4, <1>5 DEF FlushBehind
<1> QED BY <1>3, <1>6 DEF Trail


-----------------------------------------------------------------------------
(* What a step is to the broker, and to the callers of Service.Send.        *)
Aside == UNCHANGED <<outbox, inbox, open, subs, active, flush>>

LEMMA StepKinds ==
  ASSUME TypeOK, Next
  PROVE  \/ Aside /\ (Accounts \/ \E s \in Readable : Receive(s))
         \/ \E s \in Readable : Subscribe(s)
         \/ \E c \in Callers : Publish(c) \/ Flush(c)
         \/ \E p \in Conns : Serving(p) \/ Reading(p) \/ Failing(p)
         \/ \E p \in Conns, t \in Topics : Elsewhere(Url[p], t)
<1> USE DEF Aside, Accounts, brokerVars, listenerVars, Goto, Listen
<1>1. ASSUME NEW c \in Callers, SendStep(c), ~Publish(c), ~Flush(c)
      PROVE  Aside /\ Accounts
  BY <1>1 DEF SendStep, SendFails, Post, FlushOk, FlushFails
<1>2. CASE StartListener \/ Serve \/ Exit \/ \E s \in Sources : StartFails(s) \/ MapRace(s)
  BY <1>2 DEF StartListener, Serve, Exit, StartFails, MapRace
<1>3. ASSUME NEW s \in Sources, Subscribe(s)
      PROVE  s \in Readable
  BY <1>3 DEF Subscribe, Readable
<1>4. ASSUME NEW r \in Requests, Request(r) \/ BadRequest(r) \/ Answer(r)
      PROVE  Aside /\ Accounts
  BY <1>4 DEF Request, BadRequest, Answer
<1>5. ASSUME NEW s \in Sources, Receive(s)
      PROVE  Aside /\ s \in Readable
  BY <1>5 DEF Receive, Dequeue, ListenerAt, TypeOK, ListenersReady, Readable
<1>6. ASSUME NEW s \in Sources, ListenerStep(s), ~Receive(s), ~SendStep(s)
      PROVE  Aside /\ Accounts
  BY <1>6 DEF ListenerStep, ReceiveFails, ClearSlow, StartWaiting, WaitFails, Unmarshal,
              BadMessage, TriggerDone, TriggerFails, SendEvent, EventSent
<1> HIDE DEF Aside, Accounts, brokerVars, listenerVars, Goto, Listen
<1>7. ASSUME NEW s \in Sources, ListenerStep(s)
      PROVE  \/ Aside /\ (Accounts \/ \E x \in Readable : Receive(x))
             \/ \E c \in Callers : Publish(c) \/ Flush(c)
  BY <1>1, <1>5, <1>6, <1>7 DEF Callers
<1>8. ASSUME NEW r \in Requests, RequestStep(r)
      PROVE  (Aside /\ Accounts) \/ \E c \in Callers : Publish(c) \/ Flush(c)
  BY <1>1, <1>4, <1>8 DEF Callers, RequestStep
<1> QED BY <1>2, <1>3, <1>4, <1>7, <1>8 DEF Next, MainStep

(* A caller writes a new message, or goes on with the one it has. *)
LEMMA CallKinds ==
  ASSUME TypeOK, Next
  PROVE  \/ \E c \in Callers, d \in Names : Call(c, d) /\ (c \in Sources \/ Request(c))
         \/ /\ cmsg' = cmsg /\ cdest' = cdest
            /\ nextMsg' = nextMsg \/ nextMsg' = nextMsg + 1
            /\ \A c \in Callers :
                 /\ cpc'[c] = "publish" => cpc[c] = "publish"
                 /\ cpc'[c] = "flush" => cpc[c] = "flush" \/ Publish(c)
                 /\ cpc'[c] = "ok" => cpc[c] = "ok" \/ FlushOk(c) \/ Post(c)
<1> DEFINE GoesOn ==
             /\ cmsg' = cmsg /\ cdest' = cdest
             /\ nextMsg' = nextMsg \/ nextMsg' = nextMsg + 1
             /\ \A c \in Callers :
                  /\ cpc'[c] = "publish" => cpc[c] = "publish"
                  /\ cpc'[c] = "flush" => cpc[c] = "flush" \/ Publish(c)
                  /\ cpc'[c] = "ok" => cpc[c] = "ok" \/ FlushOk(c) \/ Post(c)
<1>0. cpc \in [Callers -> CallPcs]
  BY DEF TypeOK, Types
<1>1. UNCHANGED callVars => GoesOn
  BY DEF callVars
<1>2. ASSUME NEW c \in Callers, SendStep(c)
      PROVE  GoesOn
  <2>1. PICK pc : Goto(c, pc)
    BY <1>2 DEF SendStep, SendFails, Post, Publish, Flush, FlushOk, FlushFails
  <2>2. \A b \in Callers : b # c => cpc'[b] = cpc[b]
    BY <1>0, <2>1 DEF Goto
  <2>3. /\ cpc'[c] # "publish"
        /\ cpc'[c] = "flush" => Publish(c)
        /\ cpc'[c] = "ok" => FlushOk(c) \/ Post(c)
    BY <1>0, <1>2 DEF SendStep, SendFails, Post, Publish, Flush, FlushOk, FlushFails, Goto
  <2>4. cmsg' = cmsg /\ cdest' = cdest /\ nextMsg' = nextMsg
    BY <2>1 DEF Goto
  <2> QED BY <2>2, <2>3, <2>4
<1>3. ASSUME MainStep \/ Exit \/ \E s \in Sources : MapRace(s)
      PROVE  GoesOn
  BY <1>1, <1>3 DEF MainStep, StartListener, Serve, Subscribe, StartFails, Exit, MapRace
<1>4. ASSUME NEW r \in Requests, Answer(r)
      PROVE  GoesOn
  BY <1>0, <1>4 DEF Answer, Callers
<1>5. ASSUME NEW s \in Sources, EventSent(s)
      PROVE  GoesOn
  BY <1>0, <1>5 DEF EventSent, Callers
<1>6. ASSUME NEW p \in Conns, NEW t \in Topics, Elsewhere(Url[p], t)
      PROVE  GoesOn
  BY <1>6 DEF Elsewhere
<1>7. ASSUME \E p \in Conns : Serving(p) \/ Reading(p) \/ Failing(p)
      PROVE  GoesOn
  BY <1>1, <1>7 DEF Serving, Reading, Failing, Outside
<1> HIDE DEF GoesOn
<1>8. ASSUME NEW r \in Requests, Request(r) \/ BadRequest(r) \/ RequestStep(r)
      PROVE  GoesOn \/ \E c \in Callers, d \in Names : Call(c, d) /\ (c \in Sources \/ Request(c))
  BY <1>1, <1>2, <1>4, <1>8, SourceTable DEF Request, BadRequest, RequestStep, Callers
<1>9. ASSUME NEW s \in Sources, ListenerStep(s)
      PROVE  GoesOn \/ \E c \in Callers, d \in Names : Call(c, d) /\ (c \in Sources \/ Request(c))
  <2>1. CASE \/ ReceiveFails(s) \/ Receive(s) \/ StartWaiting(s) \/ WaitFails(s)
             \/ Unmarshal(s) \/ BadMessage(s) \/ TriggerDone(s) \/ TriggerFails(s)
    BY <1>1, <2>1 DEF ReceiveFails, Receive, StartWaiting, WaitFails, Unmarshal, BadMessage,
                      TriggerDone, TriggerFails
  <2>2. CASE SendEvent(s)
    BY <2>2 DEF SendEvent, Callers
  <2> QED BY <1>2, <1>5, <1>9, <2>1, <2>2 DEF ListenerStep, Callers
<1>10. GoesOn \/ \E c \in Callers, d \in Names : Call(c, d) /\ (c \in Sources \/ Request(c))
  BY <1>3, <1>6, <1>7, <1>8, <1>9 DEF Next
<1> QED BY <1>10 DEF GoesOn

LEMMA AccountedNext ==
  ASSUME TypeOK, Webhook \in Readable, Next, NEW m, AccountedFor(m)
  PROVE  AccountedFor(m)'
<1>1. ASSUME NEW p \in Conns, Reading(p)
      PROVE  AccountedFor(m)'
  BY <1>1, AccountedRead DEF Reading, Outside, listenerVars
<1>2. ASSUME NEW p \in Conns, Failing(p)
      PROVE  AccountedFor(m)'
  BY <1>2, AccountedBroken DEF Failing, Reconnect, GiveUp, Outside, listenerVars
<1>3. CASE \/ \E s \in Readable : Subscribe(s)
           \/ \E c \in Callers : Publish(c) \/ Flush(c)
           \/ \E p \in Conns : Serving(p)
           \/ \E p \in Conns, t \in Topics : Elsewhere(Url[p], t)
  <2>1. Accounts
    BY <1>3 DEF Accounts, Subscribe, SubscribeSync, Publish, PublishMsg, Flush, SendPing,
                Goto, Serving, ServerStep, Outside, Elsewhere, listenerVars
  <2> QED BY <2>1, AccountsKept
<1> QED BY <1>1, <1>2, <1>3, StepKinds, AccountsKept, AccountedTaken


-----------------------------------------------------------------------------
(* Requests meet a subscription.                                            *)
LEMMA ServedNext ==
  ASSUME TypeOK, RequestsServed, Next
  PROVE  RequestsServed'
<1> USE DEF RequestsServed
<1>0. /\ \A r \in Requests : r \in Callers /\ r \notin Sources
      /\ cdest \in [Callers -> Names] /\ cmsg \in [Callers -> 0 .. MaxMsgs]
  BY SourceTable DEF TypeOK, Types, Callers
<1>1. CASE UNCHANGED <<mainPc, todo, cdest, cmsg>>
  BY <1>1
<1>2. ASSUME NEW c \in Callers, SendStep(c)
      PROVE  UNCHANGED <<mainPc, todo, cdest, cmsg>>
  BY <1>2 DEF SendStep, SendFails, Post, Publish, Flush, FlushOk, FlushFails, Goto, mainVars
<1>3. CASE MainStep \/ Exit \/ \E s \in Sources : MapRace(s)
  BY <1>3 DEF MainStep, StartListener, Serve, Subscribe, StartFails, Exit, MapRace, callVars
<1>4. ASSUME NEW r \in Requests, Request(r) \/ BadRequest(r) \/ RequestStep(r)
      PROVE  RequestsServed'
  <2>1. CASE Request(r)
    BY <1>0, <2>1 DEF Request, Call, mainVars
  <2> QED BY <1>0, <1>1, <1>2, <1>4, <2>1
          DEF BadRequest, RequestStep, Answer, mainVars, callVars
<1>5. ASSUME NEW s \in Sources, ListenerStep(s)
      PROVE  RequestsServed'
  <2>1. CASE SendEvent(s)
    BY <1>0, <2>1 DEF SendEvent, Call, mainVars
  <2> QED BY <1>1, <1>2, <1>5, <2>1
          DEF Callers, ListenerStep, ReceiveFails, Receive, StartWaiting, WaitFails,
              Unmarshal, BadMessage, TriggerDone, TriggerFails, EventSent, mainVars, callVars
<1>6. CASE \E p \in Conns : Serving(p) \/ Reading(p) \/ Failing(p)
  BY <1>1, <1>6 DEF Serving, Reading, Failing, Outside, mainVars, callVars
<1>7. CASE \E p \in Conns, t \in Topics : Elsewhere(Url[p], t)
  BY <1>1, <1>7 DEF Elsewhere, mainVars
<1> QED BY <1>3, <1>4, <1>5, <1>6, <1>7 DEF Next

(* The messages of requests after a step: those of before, and one that no  *)
(* connection has ever carried.                                             *)
LEMMA RequestMessages ==
  ASSUME TypeOK, PublishedOnce, Next, NEW r \in Requests,
         NEW p \in Conns, NEW i \in Msgs(p), outbox[p][i].msg = cmsg'[r]
  PROVE  outbox[p][i].msg = cmsg[r]
<1>0. r \in Callers /\ cmsg \in [Callers -> 0 .. MaxMsgs] /\ nextMsg \in Nat
  BY DEF Callers, TypeOK, Types
<1>1. ASSUME NEW c \in Callers, NEW d \in Names, Call(c, d)
      PROVE  outbox[p][i].msg = cmsg[r]
  <2>1. outbox[p][i].msg < nextMsg /\ outbox[p][i].msg \in Messages
    BY OutboxesTyped DEF PublishedOnce, Outboxes
  <2>2. cmsg'[r] = nextMsg \/ cmsg'[r] = cmsg[r]
    BY <1>0, <1>1 DEF Call
  <2>3. outbox[p][i].msg # nextMsg
    BY <1>0, <2>1 DEF Messages
  <2> QED BY <2>2, <2>3
<1> QED BY <1>1, CallKinds

(* Nothing is taken from the connection of n, which is known or in time.    *)
LEMMA KnownKept ==
  ASSUME TypeOK, PublishedOnce, Next, NEW n \in NatsNodes, KnownInTime(n),
         n \in active => n \in active',
         \A k \in DOMAIN outbox[ProviderOf[n]] :
           /\ k \in DOMAIN outbox'[ProviderOf[n]]
           /\ outbox'[ProviderOf[n]][k] = outbox[ProviderOf[n]][k],
         \A k \in DOMAIN outbox'[ProviderOf[n]] :
           k \in DOMAIN outbox[ProviderOf[n]] \/ k = Len(outbox[ProviderOf[n]]) + 1
  PROVE  KnownInTime(n)'
<1>1. PICK p \in Conns : p = ProviderOf[n]
  BY NodeConn
<1>2. /\ Len(outbox[p]) \in Nat /\ DOMAIN outbox[p] = 1 .. Len(outbox[p])
  BY OutboxesTyped DEF Outboxes
<1>3. CASE n \in active
  BY <1>3 DEF KnownInTime
<1>4. CASE n \notin active
  <2>1. PICK j \in DOMAIN outbox[p] :
          /\ outbox[p][j] = SubItem(n)
          /\ \A i \in Msgs(p), r \in Requests : outbox[p][i].msg = cmsg[r] => j < i
    BY <1>1, <1>4 DEF KnownInTime
  <2>2. j \in DOMAIN outbox'[p] /\ outbox'[p][j] = SubItem(n)
    BY <1>1, <2>1
  <2>3. ASSUME NEW i \in Msgs(p)', NEW r \in Requests, outbox'[p][i].msg = cmsg'[r]
        PROVE  j < i
    <3>1. CASE i \in DOMAIN outbox[p]
      <4>1. outbox'[p][i] = outbox[p][i]
        BY <1>1, <3>1
      <4>2. i \in Msgs(p)
        BY <2>3, <3>1, <4>1 DEF Msgs
      <4>3. outbox[p][i].msg = cmsg[r]
        BY <2>3, <4>1, <4>2, RequestMessages
      <4> QED BY <2>1, <4>2, <4>3
    <3>2. CASE i = Len(outbox[p]) + 1
      BY <1>2, <2>1, <3>2
    <3> QED BY <1>1, <2>3, <3>1, <3>2 DEF Msgs
  <2> QED BY <1>1, <2>2, <2>3 DEF KnownInTime
<1> QED BY <1>3, <1>4


LEMMA KnownServed ==
  ASSUME TypeOK, TypeOK', PublishedOnce, Next, NEW p \in Conns, Serving(p),
         NEW n \in NatsNodes, ProviderOf[n] = p, KnownInTime(n)
  PROVE  KnownInTime(n)'
<1> DEFINE it == Head(outbox[p])
<1>1. ServerStep(p) /\ cmsg' = cmsg /\ active \subseteq active'
  BY DEF Serving, ServerStep, Outside, callVars
<1>2. /\ 1 \in DOMAIN outbox[p] /\ it = outbox[p][1]
      /\ \A k \in DOMAIN outbox'[p] :
           k + 1 \in DOMAIN outbox[p] /\ outbox'[p][k] = outbox[p][k + 1]
  BY <1>1, ServedAt
<1>3. CASE n \in active
  BY <1>1, <1>3 DEF KnownInTime
<1>4. CASE n \notin active
  <2>1. PICK j \in DOMAIN outbox[p] :
          /\ outbox[p][j] = SubItem(n)
          /\ \A i \in Msgs(p), r \in Requests : outbox[p][i].msg = cmsg[r] => j < i
    BY <1>4 DEF KnownInTime
  <2>2. CASE j = 1
    <3>1. it.kind = "sub" /\ it.node = n
      BY <1>2, <2>1, <2>2 DEF SubItem
    <3>2. n \in active'
      BY <1>1, <3>1 DEF ServerStep
    <3> QED BY <3>2 DEF KnownInTime
  <2>3. CASE j # 1
    <3>1. /\ Len(outbox[p]) \in Nat /\ DOMAIN outbox[p] = 1 .. Len(outbox[p])
          /\ outbox[p] \in Seq(ToServer) /\ outbox[p] # <<>>
          /\ outbox'[p] = Tail(outbox[p])
      BY <1>1, OutboxesTyped DEF Outboxes, ServerStep, TypeOK, BrokerTypeOK
    <3>2. DOMAIN outbox'[p] = 1 .. Len(outbox[p]) - 1
      BY <3>1, TailAt
    <3>3. PICK k \in Nat : k + 1 = j /\ k \in DOMAIN outbox'[p]
      <4>1. j - 1 \in Nat /\ (j - 1) + 1 = j /\ j - 1 \in 1 .. Len(outbox[p]) - 1
        BY <2>3, <3>1
      <4> QED BY <3>2, <4>1
    <3>4. outbox'[p][k] = SubItem(n)
      BY <1>2, <2>1, <3>3
    <3>5. ASSUME NEW i \in Msgs(p)', NEW r \in Requests, outbox'[p][i].msg = cmsg'[r]
          PROVE  k < i
      <4>1. i + 1 \in Msgs(p) /\ outbox[p][i + 1].msg = cmsg[r]
        BY <1>1, <1>2, <3>5 DEF Msgs
      <4>2. j < i + 1
        BY <2>1, <4>1
      <4>3. i \in Nat
        BY OutboxesTypedNext DEF Outboxes
      <4> QED BY <3>3, <4>2, <4>3
    <3> QED BY <3>3, <3>4, <3>5 DEF KnownInTime
  <2> QED BY <2>2, <2>3
<1> QED BY <1>3, <1>4

(* Put on a connection while no request has a message yet. *)
LEMMA KnownSubscribed ==
  ASSUME TypeOK, TypeOK', RequestsServed, NEW n \in Readable, Subscribe(n)
  PROVE  KnownInTime(n)'
<1>1. PICK p \in Conns : p = ProviderOf[n]
  BY NodeConn DEF Readable
<1>2. PICK e \in ToServer : e = SubItem(n)
  BY DEF ToServer, Readable
<1>3. /\ outbox[p] \in Seq(ToServer) /\ outbox \in [Conns -> Seq(ToServer)]
      /\ outbox'[p] = Append(outbox[p], e)
  BY <1>1, <1>2 DEF Subscribe, SubscribeSync, TypeOK, BrokerTypeOK
<1>4. /\ Len(outbox[p]) + 1 \in DOMAIN outbox'[p]
      /\ outbox'[p][Len(outbox[p]) + 1] = SubItem(n)
  BY <1>2, <1>3, AppendAt
<1>5. ASSUME NEW i \in Msgs(p)', NEW r \in Requests
      PROVE  outbox'[p][i].msg # cmsg'[r]
  <2>1. cmsg'[r] = 0
    BY DEF Subscribe, callVars, RequestsServed
  <2>2. outbox'[p][i].msg \in Messages
    BY OutboxesTypedNext DEF Outboxes
  <2> QED BY <2>1, <2>2 DEF Messages
<1> QED BY <1>1, <1>4, <1>5 DEF KnownInTime

(* The library repeats its subscriptions before anything else. *)
LEMMA KnownAgain ==
  ASSUME TypeOK, NEW p \in Conns, Reconnect(p), NEW n \in subs, ProviderOf[n] = p
  PROVE  KnownInTime(n)'
<1>1. PICK again \in [1 .. Cardinality({x \in subs : ProviderOf[x] = p}) -> subs] :
        /\ Elements(again) = {x \in subs : ProviderOf[x] = p}
        /\ outbox' = [outbox EXCEPT ![p] = [i \in DOMAIN again |-> SubItem(again[i])]]
  BY DEF Reconnect
<1>2. outbox'[p] = [i \in DOMAIN again |-> SubItem(again[i])]
  BY <1>1 DEF TypeOK, BrokerTypeOK
<1>3. PICK j \in DOMAIN again : again[j] = n
  BY <1>1 DEF Elements
<1>4. j \in DOMAIN outbox'[p] /\ outbox'[p][j] = SubItem(n)
  BY <1>2, <1>3
<1>5. Msgs(p)' = {}
  BY BrokenAt DEF Msgs
<1> QED BY <1>4, <1>5 DEF KnownInTime

LEMMA KnownNext ==
  ASSUME TypeOK, TypeOK', PublishedOnce, RequestsServed, SubscribedFirst, Next,
         NEW n \in subs', ProviderOf[n] \in open'
  PROVE  KnownInTime(n)'
<1> DEFINE q == ProviderOf[n]
<1>0. n \in NatsNodes /\ q \in Conns /\ outbox \in [Conns -> Seq(ToServer)]
  BY NodeConn DEF TypeOK, BrokerTypeOK
<1>1. ASSUME outbox'[q] = outbox[q], n \in subs, q \in open, n \in active => n \in active'
      PROVE  KnownInTime(n)'
  <2>1. KnownInTime(n)
    BY <1>1 DEF SubscribedFirst
  <2> QED BY <1>0, <1>1, <2>1, KnownKept
<1>2. CASE Aside
  BY <1>1, <1>2 DEF Aside
<1>3. ASSUME NEW p \in Conns, NEW e \in ToServer, n \in subs, q \in open,
             active' = active,
             outbox' = [outbox EXCEPT ![p] = Append(outbox[p], e)]
      PROVE  KnownInTime(n)'
  <2> HIDE DEF q
  <2>1. /\ \A k \in DOMAIN outbox[q] : k \in DOMAIN outbox'[q] /\ outbox'[q][k] = outbox[q][k]
        /\ \A k \in DOMAIN outbox'[q] : k \in DOMAIN outbox[q] \/ k = Len(outbox[q]) + 1
    BY <1>0, <1>3, SentAt
  <2>2. KnownInTime(n)
    BY <1>3 DEF SubscribedFirst, q
  <2> QED BY <1>0, <1>3, <2>1, <2>2, KnownKept DEF q
<1>4. ASSUME NEW s \in Readable, Subscribe(s)
      PROVE  KnownInTime(n)'
  <2>1. CASE n = s
    BY <1>4, <2>1, KnownSubscribed
  <2>2. CASE n # s
    <3> DEFINE p == ProviderOf[s]
               e == SubItem(s)
    <3>1. /\ p \in Conns /\ e \in ToServer /\ n \in subs /\ q \in open /\ active' = active
          /\ outbox' = [outbox EXCEPT ![p] = Append(outbox[p], e)]
      BY <1>4, <2>2, NodeConn DEF Subscribe, SubscribeSync, ToServer, Readable
    <3> HIDE DEF p, e, q
    <3> QED BY <1>3, <3>1
  <2> QED BY <2>1, <2>2
<1>5. ASSUME NEW c \in Callers, Publish(c) \/ Flush(c)
      PROVE  KnownInTime(n)'
  <2> DEFINE d == cdest[c]
             p == ProviderOf[d]
  <2>1. d \in NatsNodes /\ cmsg[c] \in Messages
    BY <1>5, Bounds DEF Publish, Flush, At, TypeOK, Types, CallsReady, Messages
  <2>2. p \in Conns /\ n \in subs /\ q \in open /\ active' = active
    BY <1>5, <2>1, NodeConn DEF Publish, PublishMsg, Flush, SendPing
  <2>3. PICK e \in ToServer : outbox' = [outbox EXCEPT ![p] = Append(outbox[p], e)]
    <3>1. CASE Publish(c)
      <4>1. MsgItem(Topic[d], cmsg[c]) \in ToServer
        BY <2>1 DEF ToServer, Topics, NatsNodes
      <4> QED BY <3>1, <4>1 DEF Publish, PublishMsg
    <3>2. CASE Flush(c)
      <4>1. PingItem(cmsg[c]) \in ToServer
        BY <2>1 DEF ToServer
      <4> QED BY <3>2, <4>1 DEF Flush, SendPing
    <3> QED BY <1>5, <3>1, <3>2
  <2> HIDE DEF p, q
  <2> QED BY <1>3, <2>2, <2>3
<1>6. ASSUME NEW p \in Conns, Serving(p)
      PROVE  KnownInTime(n)'
  <2>1. /\ n \in subs /\ q \in open /\ active \subseteq active'
        /\ outbox' = [outbox EXCEPT ![p] = Tail(outbox[p])]
    BY <1>6 DEF Serving, ServerStep
  <2>2. CASE q = p
    BY <1>0, <1>6, <2>1, <2>2, KnownServed DEF SubscribedFirst
  <2>3. CASE q # p
    BY <1>0, <1>1, <2>1, <2>3
  <2> QED BY <2>2, <2>3
<1>7. ASSUME NEW p \in Conns, Failing(p)
      PROVE  KnownInTime(n)'
  <2>1. /\ Reconnect(p) \/ GiveUp(p)
        /\ n \in subs /\ q \in open
        /\ q # p /\ n \in active => n \in active'
    BY <1>7 DEF Failing, Reconnect, GiveUp, Break
  <2>2. CASE q = p
    <3>1. Reconnect(p)
      BY <2>1, <2>2 DEF GiveUp
    <3> QED BY <2>1, <2>2, <3>1, KnownAgain
  <2>3. CASE q # p
    BY <1>0, <1>1, <2>1, <2>3, BrokenAt
  <2> QED BY <2>2, <2>3
<1>8. CASE \/ \E p \in Conns : Reading(p)
           \/ \E p \in Conns, t \in Topics : Elsewhere(Url[p], t)
  BY <1>1, <1>8 DEF Reading, ClientStep, Elsewhere
<1> QED BY <1>2, <1>4, <1>5, <1>6, <1>7, <1>8, StepKinds

LEMMA SubscribedNext ==
  ASSUME TypeOK, TypeOK', PublishedOnce, NotStarted, RequestsServed, SubscribedFirst, Next
  PROVE  SubscribedFirst'
<1>0. outbox \in [Conns -> Seq(ToServer)] /\ open \subseteq Conns
  BY DEF TypeOK, BrokerTypeOK
\* What is subscribed to stays so, and main takes a source off when it is.
<1>1. /\ (Readable \subseteq subs \cup todo)'
      /\ mainPc' = "write" => cur' \in subs'
  <2>1. CASE UNCHANGED <<todo, cur, subs>> /\ (mainPc' = "write" => mainPc = "write")
    BY <2>1 DEF SubscribedFirst
  <2>2. ASSUME NEW c \in Callers, SendStep(c)
        PROVE  UNCHANGED <<todo, cur, subs, mainPc>>
    BY <2>2 DEF SendStep, SendFails, Post, Publish, PublishMsg, Flush, SendPing, FlushOk,
                FlushFails, Goto, mainVars, brokerVars
  <2>3. ASSUME NEW s \in Sources, Subscribe(s)
        PROVE  (Readable \subseteq subs \cup todo)' /\ cur' \in subs'
    BY <2>3 DEF Subscribe, SubscribeSync, SubscribedFirst
  <2>4. CASE StartListener
    BY <2>4 DEF StartListener, brokerVars, SubscribedFirst
  <2>5. CASE Serve \/ Exit \/ \E s \in Sources : StartFails(s) \/ MapRace(s)
    BY <2>1, <2>5 DEF Serve, StartFails, Exit, MapRace, brokerVars
  <2>6. ASSUME NEW r \in Requests, Request(r) \/ BadRequest(r) \/ RequestStep(r)
        PROVE  UNCHANGED <<todo, cur, subs, mainPc>>
    BY <2>2, <2>6 DEF Callers, Request, BadRequest, RequestStep, Answer, mainVars, brokerVars
  <2>7. ASSUME NEW s \in Sources, ListenerStep(s)
        PROVE  UNCHANGED <<todo, cur, subs, mainPc>>
    BY <2>2, <2>7
       DEF Callers, ListenerStep, ReceiveFails, ClearSlow, Receive, Dequeue, StartWaiting,
           WaitFails, Unmarshal, BadMessage, TriggerDone, TriggerFails, SendEvent, EventSent,
           mainVars, brokerVars
  <2>8. CASE \E p \in Conns : Serving(p) \/ Reading(p) \/ Failing(p)
    BY <2>1, <2>8 DEF Serving, ServerStep, Reading, ClientStep, Failing, Reconnect, GiveUp,
                      Break, Outside, mainVars
  <2>9. CASE \E p \in Conns, t \in Topics : Elsewhere(Url[p], t)
    BY <2>1, <2>9 DEF Elsewhere, mainVars
  <2> QED BY <2>1, <2>3, <2>4, <2>5, <2>6, <2>7, <2>8, <2>9 DEF Next, MainStep
\* Nothing is put on a closed connection.
<1>2. ASSUME NEW p \in Conns \ open'
      PROVE  outbox'[p] = <<>>
  <2>1. CASE Aside
    BY <2>1 DEF Aside, SubscribedFirst
  <2>2. ASSUME NEW s \in Readable, Subscribe(s)
        PROVE  outbox'[p] = <<>>
    BY <1>0, <2>2 DEF Subscribe, SubscribeSync, SubscribedFirst
  <2>3. ASSUME NEW c \in Callers, Publish(c) \/ Flush(c)
        PROVE  outbox'[p] = <<>>
    BY <1>0, <2>3 DEF Publish, PublishMsg, Flush, SendPing, SubscribedFirst
  <2>4. ASSUME NEW q \in Conns, Serving(q)
        PROVE  outbox'[p] = <<>>
    BY <1>0, <2>4 DEF Serving, ServerStep, SubscribedFirst
  <2>5. ASSUME NEW q \in Conns, Reading(q)
        PROVE  outbox'[p] = <<>>
    BY <2>5 DEF Reading, ClientStep, SubscribedFirst
  <2>6. ASSUME NEW q \in Conns, Failing(q)
        PROVE  outbox'[p] = <<>>
    BY <1>0, <2>6, BrokenAt DEF Failing, Reconnect, GiveUp, Break, SubscribedFirst
  <2>7. CASE \E q \in Conns, t \in Topics : Elsewhere(Url[q], t)
    BY <2>7 DEF Elsewhere, SubscribedFirst
  <2> QED BY <2>1, <2>2, <2>3, <2>4, <2>5, <2>6, <2>7, StepKinds
<1>3. \A n \in subs' : ProviderOf[n] \in open' => KnownInTime(n)'
  BY KnownNext
<1> QED BY <1>1, <1>2, <1>3 DEF SubscribedFirst


-----------------------------------------------------------------------------
(* What is on a connection for a Flush was sent by one.                     *)
PingsSent ==
  \A p \in Conns : \A i \in DOMAIN outbox[p] :
    outbox[p][i].kind = "ping" => flush[outbox[p][i].msg] # "none"
PongsSent ==
  \A p \in Conns : \A i \in DOMAIN inbox[p] :
    inbox[p][i].kind = "pong" => flush[inbox[p][i].msg] # "none"

(* A Flush that has been sent is not forgotten, and nobody but Flush sends  *)
(* one.                                                                     *)
LEMMA FlushKinds ==
  ASSUME TypeOK, Next
  PROVE  \/ \A m \in Messages : flush'[m] = "none" <=> flush[m] = "none"
         \/ \E c \in Callers : Flush(c)
<1>0. flush \in [Messages -> {"none", "wait", "ok", "err"}]
  BY DEF TypeOK, BrokerTypeOK
<1>1. CASE flush' = flush
  BY <1>1
<1>2. ASSUME NEW p \in Conns, Reading(p)
      PROVE  \A m \in Messages : flush'[m] = "none" <=> flush[m] = "none"
  BY <1>0, <1>2 DEF Reading, ClientStep
<1>3. ASSUME NEW p \in Conns, Failing(p)
      PROVE  \A m \in Messages : flush'[m] = "none" <=> flush[m] = "none"
  BY <1>0, <1>3 DEF Failing, Reconnect, GiveUp, Break
<1>4. CASE \/ Aside
           \/ \E s \in Readable : Subscribe(s)
           \/ \E c \in Callers : Publish(c)
           \/ \E p \in Conns : Serving(p)
           \/ \E p \in Conns, t \in Topics : Elsewhere(Url[p], t)
  BY <1>1, <1>4 DEF Aside, Subscribe, SubscribeSync, Publish, PublishMsg, Serving, ServerStep,
                    Elsewhere
<1> QED BY <1>2, <1>3, <1>4, StepKinds

(* Where a ping or a pong was before the step. *)
LEMMA PingsKept ==
  ASSUME TypeOK, TypeOK', Next, NEW q \in Conns, NEW i \in DOMAIN outbox'[q],
         outbox'[q][i].kind = "ping"
  PROVE  \/ \E k \in DOMAIN outbox[q] : outbox'[q][i] = outbox[q][k]
         \/ \E c \in Callers : Flush(c) /\ outbox'[q][i].msg = cmsg[c]
<1>1. CASE outbox' = outbox
  BY <1>1
<1>2. ASSUME NEW p \in Conns, NEW e \in ToServer,
             outbox' = [outbox EXCEPT ![p] = Append(outbox[p], e)]
      PROVE  (\E k \in DOMAIN outbox[q] : outbox'[q][i] = outbox[q][k]) \/ outbox'[q][i] = e
  BY <1>2, SentAt
<1>3. ASSUME NEW s \in Readable, Subscribe(s)
      PROVE  \E k \in DOMAIN outbox[q] : outbox'[q][i] = outbox[q][k]
  <2> DEFINE p == ProviderOf[s]
             e == SubItem(s)
  <2>1. /\ p \in Conns /\ e \in ToServer /\ e.kind # "ping"
        /\ outbox' = [outbox EXCEPT ![p] = Append(outbox[p], e)]
    BY <1>3, NodeConn DEF Subscribe, SubscribeSync, ToServer, Readable, SubItem
  <2> HIDE DEF p, e
  <2> QED BY <1>2, <2>1
<1>4. ASSUME NEW c \in Callers, Publish(c) \/ Flush(c)
      PROVE  \/ \E k \in DOMAIN outbox[q] : outbox'[q][i] = outbox[q][k]
             \/ Flush(c) /\ outbox'[q][i].msg = cmsg[c]
  <2> DEFINE d == cdest[c]
             p == ProviderOf[d]
  <2>1. d \in NatsNodes /\ cmsg[c] \in Messages
    BY <1>4, Bounds DEF Publish, Flush, At, TypeOK, Types, CallsReady, Messages
  <2>2. p \in Conns
    BY <2>1, NodeConn
  <2>3. CASE Publish(c)
    <3>1. PICK e \in ToServer : e = MsgItem(Topic[d], cmsg[c])
      BY <2>1 DEF ToServer, Topics, NatsNodes
    <3>2. outbox' = [outbox EXCEPT ![p] = Append(outbox[p], e)] /\ e.kind # "ping"
      BY <2>3, <3>1 DEF Publish, PublishMsg, MsgItem
    <3> HIDE DEF p
    <3> QED BY <1>2, <2>2, <3>2
  <2>4. CASE Flush(c)
    <3>1. PICK e \in ToServer : e = PingItem(cmsg[c])
      BY <2>1 DEF ToServer
    <3>2. outbox' = [outbox EXCEPT ![p] = Append(outbox[p], e)] /\ e.msg = cmsg[c]
      BY <2>4, <3>1 DEF Flush, SendPing, PingItem
    <3> HIDE DEF p
    <3> QED BY <1>2, <2>2, <2>4, <3>2
  <2> QED BY <1>4, <2>3, <2>4
<1>5. ASSUME NEW p \in Conns, Serving(p)
      PROVE  \E k \in DOMAIN outbox[q] : outbox'[q][i] = outbox[q][k]
  <2>1. ServerStep(p) /\ outbox' = [outbox EXCEPT ![p] = Tail(outbox[p])]
    BY <1>5 DEF Serving, ServerStep
  <2>2. CASE q = p
    BY <2>1, <2>2, ServedAt
  <2>3. CASE q # p
    BY <2>1, <2>3 DEF TypeOK, BrokerTypeOK
  <2> QED BY <2>2, <2>3
<1>6. ASSUME NEW p \in Conns, Failing(p)
      PROVE  \E k \in DOMAIN outbox[q] : outbox'[q][i] = outbox[q][k]
  BY <1>6, BrokenAt DEF Failing
<1>7. CASE \/ Aside
           \/ \E p \in Conns : Reading(p)
           \/ \E p \in Conns, t \in Topics : Elsewhere(Url[p], t)
  BY <1>1, <1>7 DEF Aside, Reading, ClientStep, Elsewhere
<1> QED BY <1>3, <1>4, <1>5, <1>6, <1>7, StepKinds

LEMMA PongsKept ==
  ASSUME TypeOK, TypeOK', Next, NEW q \in Conns, NEW i \in DOMAIN inbox'[q],
         inbox'[q][i].kind = "pong"
  PROVE  \/ \E k \in DOMAIN inbox[q] : inbox'[q][i] = inbox[q][k]
         \/ \E k \in DOMAIN outbox[q] :
              outbox[q][k].kind = "ping" /\ outbox[q][k].msg = inbox'[q][i].msg
<1>1. CASE inbox' = inbox
  BY <1>1
<1>2. CASE \/ Aside
           \/ \E s \in Readable : Subscribe(s)
           \/ \E c \in Callers : Publish(c) \/ Flush(c)
  BY <1>1, <1>2 DEF Aside, Subscribe, SubscribeSync, Publish, PublishMsg, Flush, SendPing
<1>3. ASSUME NEW p \in Conns, Serving(p)
      PROVE  \/ \E k \in DOMAIN inbox[q] : inbox'[q][i] = inbox[q][k]
             \/ \E k \in DOMAIN outbox[q] :
                  outbox[q][k].kind = "ping" /\ outbox[q][k].msg = inbox'[q][i].msg
  <2> DEFINE it == Head(outbox[p])
  <2>1. ServerStep(p) /\ BrokerTypeOK
    BY <1>3 DEF Serving, TypeOK
  <2>2. it = outbox[p][1] /\ 1 \in DOMAIN outbox[p] /\ it \in ToServer
    <3>1. outbox[p] \in Seq(ToServer) /\ outbox[p] # <<>>
      BY <2>1 DEF ServerStep, BrokerTypeOK
    <3> QED BY <3>1
  <2>3. CASE it.kind = "msg" /\ Route(Url[p], it.topic, it.msg)
    <3>1. it.msg \in Messages
      BY <2>2, <2>3, SentKinds
    <3> HIDE DEF it
    <3>2. i \in DOMAIN inbox[q] /\ inbox'[q][i] = inbox[q][i]
      BY <1>3, <2>1, <2>3, <3>1, RoutedAt
    <3> QED BY <3>2
  <2>4. CASE /\ it.kind = "ping"
             /\ inbox' = [inbox EXCEPT ![p] = Append(inbox[p], PongItem(it.msg))]
    <3>1. it.msg \in Messages
      BY <2>2, <2>4, SentKinds
    <3> HIDE DEF it
    <3>2. \/ i \in DOMAIN inbox[q] /\ inbox'[q][i] = inbox[q][i]
          \/ q = p /\ i = Len(inbox[p]) + 1 /\ inbox'[q][i] = PongItem(it.msg)
      BY <2>4, <3>1, PongAt
    <3> QED BY <2>2, <2>4, <3>2 DEF PongItem
  <2> QED BY <1>1, <2>1, <2>3, <2>4 DEF ServerStep
<1>4. ASSUME NEW p \in Conns, Reading(p)
      PROVE  \E k \in DOMAIN inbox[q] : inbox'[q][i] = inbox[q][k]
  <2>1. /\ inbox[p] \in Seq(ToClient) /\ inbox[p] # <<>>
        /\ inbox \in [Conns -> Seq(ToClient)]
        /\ inbox' = [inbox EXCEPT ![p] = Tail(inbox[p])]
    BY <1>4 DEF Reading, ClientStep, TypeOK, BrokerTypeOK
  <2>2. CASE q = p
    <3>1. i + 1 \in DOMAIN inbox[q] /\ inbox'[q][i] = inbox[q][i + 1]
      BY <2>1, <2>2, TailAt
    <3> QED BY <3>1
  <2>3. CASE q # p
    BY <2>1, <2>3
  <2> QED BY <2>2, <2>3
<1>5. ASSUME NEW p \in Conns, Failing(p)
      PROVE  \E k \in DOMAIN inbox[q] : inbox'[q][i] = inbox[q][k]
  <2>1. inbox' = [inbox EXCEPT ![p] = <<>>] /\ inbox \in [Conns -> Seq(ToClient)]
    BY <1>5 DEF Failing, Reconnect, GiveUp, Break, TypeOK, BrokerTypeOK
  <2> QED BY <2>1, EmptyAt
<1>6. ASSUME NEW p \in Conns, NEW t \in Topics, Elsewhere(Url[p], t)
      PROVE  \E k \in DOMAIN inbox[q] : inbox'[q][i] = inbox[q][k]
  <2>1. nextMsg \in Messages /\ Route(Url[p], t, nextMsg) /\ BrokerTypeOK
    BY <1>6, Bounds DEF Elsewhere, Messages, TypeOK, Types
  <2>2. i \in DOMAIN inbox[q] /\ inbox'[q][i] = inbox[q][i]
    BY <2>1, RoutedAt
  <2> QED BY <2>2
<1> QED BY <1>2, <1>3, <1>4, <1>5, <1>6, StepKinds


LEMMA FlushesNext ==
  ASSUME TypeOK, TypeOK', OwnMessages, FlushesAwaited, Next
  PROVE  FlushesAwaited'
<1>0. /\ flush \in [Messages -> {"none", "wait", "ok", "err"}]
      /\ nextMsg \in Nat /\ Messages \subseteq Nat
      /\ cpc \in [Callers -> CallPcs] /\ cmsg \in [Callers -> 0 .. MaxMsgs]
      /\ \A c \in Callers : cmsg[c] # 0 => cmsg[c] \in Messages
      /\ \A c \in Callers : cpc[c] # "idle" => cmsg[c] # 0
  BY Bounds DEF TypeOK, BrokerTypeOK, Types, CallsReady, Messages
\* What is not forgotten: a Flush that was sent before the step.
<1>1. \A m \in Messages : flush[m] # "none" => flush'[m] # "none"
  BY <1>0, FlushKinds DEF Flush, SendPing
<1>2. PingsSent'
  <2>1. ASSUME NEW q \in Conns, NEW i \in DOMAIN outbox'[q], outbox'[q][i].kind = "ping"
        PROVE  flush'[outbox'[q][i].msg] # "none"
    <3>1. ASSUME NEW k \in DOMAIN outbox[q], outbox'[q][i] = outbox[q][k]
          PROVE  flush'[outbox'[q][i].msg] # "none"
      <4>1. outbox[q][k] \in ToServer
        BY OutboxesTyped DEF Outboxes
      <4>2. outbox[q][k].msg \in Messages /\ flush[outbox[q][k].msg] # "none"
        BY <2>1, <3>1, <4>1, SentKinds DEF FlushesAwaited
      <4> QED BY <1>1, <3>1, <4>2
    <3>2. ASSUME NEW c \in Callers, Flush(c), outbox'[q][i].msg = cmsg[c]
          PROVE  flush'[outbox'[q][i].msg] # "none"
      <4>1. cmsg[c] \in Messages
        BY <1>0, <3>2 DEF Flush, At
      <4> QED BY <1>0, <3>2, <4>1 DEF Flush, SendPing
    <3> QED BY <2>1, <3>1, <3>2, PingsKept
  <2> QED BY <2>1 DEF PingsSent
<1>3. PongsSent'
  <2>1. ASSUME NEW q \in Conns, NEW i \in DOMAIN inbox'[q], inbox'[q][i].kind = "pong"
        PROVE  flush'[inbox'[q][i].msg] # "none"
    <3>1. ASSUME NEW k \in DOMAIN inbox[q], inbox'[q][i] = inbox[q][k]
          PROVE  flush'[inbox'[q][i].msg] # "none"
      <4>1. inbox[q][k] \in ToClient
        BY Inboxes
      <4>2. inbox[q][k].msg \in Messages /\ flush[inbox[q][k].msg] # "none"
        BY <2>1, <3>1, <4>1, ReceivedKinds DEF FlushesAwaited
      <4> QED BY <1>1, <3>1, <4>2
    <3>2. ASSUME NEW k \in DOMAIN outbox[q], outbox[q][k].kind = "ping",
                 outbox[q][k].msg = inbox'[q][i].msg
          PROVE  flush'[inbox'[q][i].msg] # "none"
      <4>1. outbox[q][k] \in ToServer
        BY OutboxesTyped DEF Outboxes
      <4>2. outbox[q][k].msg \in Messages /\ flush[outbox[q][k].msg] # "none"
        BY <3>2, <4>1, SentKinds DEF FlushesAwaited
      <4> QED BY <1>1, <3>2, <4>2
    <3> QED BY <2>1, <3>1, <3>2, PongsKept
  <2> QED BY <2>1 DEF PongsSent
<1>4. CASE \E c \in Callers : Flush(c)
  <2>1. PICK c \in Callers : Flush(c)
    BY <1>4
  <2>2. /\ cmsg' = cmsg /\ nextMsg' = nextMsg /\ cpc' = [cpc EXCEPT ![c] = "wait"]
        /\ cmsg[c] \in Messages /\ cmsg[c] < nextMsg
        /\ flush' = [flush EXCEPT ![cmsg[c]] = "wait"]
    BY <1>0, <2>1 DEF Flush, SendPing, Goto, At, OwnMessages
  <2>3. ASSUME NEW m \in Messages, m >= nextMsg'
        PROVE  flush'[m] = "none"
    <3>1. m # cmsg[c] /\ flush[m] = "none"
      BY <1>0, <2>2, <2>3 DEF FlushesAwaited
    <3> QED BY <1>0, <2>2, <3>1
  <2>4. ASSUME NEW b \in Callers, cpc'[b] \in {"publish", "flush"}
        PROVE  flush'[cmsg'[b]] = "none"
    <3>1. b # c /\ cpc[b] \in {"publish", "flush"}
      BY <1>0, <2>2, <2>4
    <3>2. cmsg[b] \in Messages /\ cmsg[b] # cmsg[c] /\ flush[cmsg[b]] = "none"
      BY <1>0, <3>1 DEF OwnMessages, FlushesAwaited
    <3> QED BY <1>0, <2>2, <3>2
  <2> QED BY <1>2, <1>3, <2>3, <2>4 DEF FlushesAwaited, PingsSent, PongsSent
<1>5. CASE ~\E c \in Callers : Flush(c)
  <2>1. \A m \in Messages : flush'[m] = "none" <=> flush[m] = "none"
    BY <1>5, FlushKinds
  <2>2. CASE \E c \in Callers, d \in Names : Call(c, d)
    <3>1. PICK c \in Callers, d \in Names : Call(c, d)
      BY <2>2
    <3>2. /\ nextMsg \in Messages /\ nextMsg' = nextMsg + 1 /\ nextMsg >= nextMsg
          /\ \A b \in Callers : b # c => cmsg'[b] = cmsg[b] /\ cpc'[b] = cpc[b]
          /\ cmsg'[c] = nextMsg
      BY <1>0, <3>1, Bounds DEF Call, TypeOK, Types, Messages
    <3>3. ASSUME NEW m \in Messages, m >= nextMsg'
          PROVE  flush'[m] = "none"
      <4>1. m >= nextMsg
        BY <1>0, <3>2, <3>3
      <4> QED BY <2>1, <4>1 DEF FlushesAwaited
    <3>4. ASSUME NEW b \in Callers, cpc'[b] \in {"publish", "flush"}
          PROVE  flush'[cmsg'[b]] = "none"
      <4>1. CASE b = c
        BY <2>1, <3>2, <4>1 DEF FlushesAwaited
      <4>2. CASE b # c
        <5>1. cmsg[b] \in Messages /\ flush[cmsg[b]] = "none"
          BY <1>0, <3>2, <3>4, <4>2 DEF FlushesAwaited
        <5> QED BY <2>1, <3>2, <4>2, <5>1
      <4> QED BY <4>1, <4>2
    <3> QED BY <1>2, <1>3, <3>3, <3>4 DEF FlushesAwaited, PingsSent, PongsSent
  <2>3. CASE ~\E c \in Callers, d \in Names : Call(c, d)
    <3>1. /\ cmsg' = cmsg /\ (nextMsg' = nextMsg \/ nextMsg' = nextMsg + 1)
          /\ \A c \in Callers : cpc'[c] \in {"publish", "flush"} =>
               cpc[c] \in {"publish", "flush"}
      BY <2>3, CallKinds DEF Publish, At
    <3>2. ASSUME NEW m \in Messages, m >= nextMsg'
          PROVE  flush'[m] = "none"
      <4>1. m >= nextMsg
        BY <1>0, <3>1, <3>2
      <4> QED BY <2>1, <4>1 DEF FlushesAwaited
    <3>3. ASSUME NEW b \in Callers, cpc'[b] \in {"publish", "flush"}
          PROVE  flush'[cmsg'[b]] = "none"
      <4>1. cmsg[b] \in Messages /\ flush[cmsg[b]] = "none"
        BY <1>0, <3>1, <3>3 DEF FlushesAwaited
      <4> QED BY <2>1, <3>1, <4>1
    <3> QED BY <1>2, <1>3, <3>2, <3>3 DEF FlushesAwaited, PingsSent, PongsSent
  <2> QED BY <2>2, <2>3
<1> QED BY <1>4, <1>5

-----------------------------------------------------------------------------
(* A request's message is ahead of its Flush.                               *)
LEMMA TrailNext ==
  ASSUME TypeOK, TypeOK', OwnMessages, RequestsServed, SubscribedFirst,
         Webhook \in Readable, Next, NEW r \in Requests, MessageFirst(r),
         NEW m \in Messages, m = cmsg[r]
  PROVE  Trail(m)
<1>0. r \in Callers /\ m # 0 /\ FlushBehind(m)
  BY DEF Callers, Messages, MessageFirst
<1>1. CASE Aside /\ (Accounts \/ \E s \in Readable : Receive(s))
  BY <1>0, <1>1, TrailKept, TrailTaken DEF Aside
<1>2. ASSUME NEW s \in Readable, Subscribe(s)
      PROVE  Trail(m)
  <2> DEFINE p == ProviderOf[s]
             e == SubItem(s)
  <2>1. /\ p \in Conns /\ e \in ToServer /\ e # PingItem(m)
        /\ outbox' = [outbox EXCEPT ![p] = Append(outbox[p], e)]
        /\ inbox' = inbox /\ flush' = flush /\ Accounts
    BY <1>2, NodeConn DEF Subscribe, SubscribeSync, ToServer, Readable, SubItem, PingItem,
                          listenerVars, Accounts
  <2> HIDE DEF p, e
  <2> QED BY <1>0, <2>1, TrailSent
<1>3. ASSUME NEW c \in Callers, Publish(c) \/ Flush(c)
      PROVE  Trail(m)
  <2> DEFINE d == cdest[c]
             p == ProviderOf[d]
  <2>1. d \in NatsNodes /\ cmsg[c] \in Messages
    BY <1>3, Bounds DEF Publish, Flush, At, TypeOK, Types, CallsReady, Messages
  <2>2. p \in Conns /\ inbox' = inbox /\ Accounts
    BY <1>3, <2>1, NodeConn DEF Publish, PublishMsg, Flush, SendPing, Goto, listenerVars,
                                Accounts
  <2>3. CASE Publish(c)
    <3>1. PICK e \in ToServer : e = MsgItem(Topic[d], cmsg[c])
      BY <2>1 DEF ToServer, Topics, NatsNodes
    <3>2. /\ outbox' = [outbox EXCEPT ![p] = Append(outbox[p], e)]
          /\ e # PingItem(m) /\ flush' = flush
      BY <2>3, <3>1 DEF Publish, PublishMsg, MsgItem, PingItem
    <3> HIDE DEF p
    <3> QED BY <1>0, <2>2, <3>2, TrailSent
  <2>4. CASE Flush(c)
    <3>1. PICK e \in ToServer : e = PingItem(cmsg[c])
      BY <2>1 DEF ToServer
    <3>2. /\ outbox' = [outbox EXCEPT ![p] = Append(outbox[p], e)]
          /\ flush'[m] = "ok" => flush[m] = "ok"
      BY <2>1, <2>4, <3>1 DEF Flush, SendPing, TypeOK, BrokerTypeOK
    <3>3. ASSUME e = PingItem(m)
          PROVE  p = Home /\ OnItsWay(m)
      <4>1. c = r
        BY <1>0, <3>1, <3>3 DEF PingItem, OwnMessages
      <4> QED BY <2>4, <4>1 DEF RequestsServed, Home, MessageFirst, Flush, At
    <3> HIDE DEF p
    <3> QED BY <1>0, <2>2, <3>2, <3>3, TrailSent
  <2> QED BY <1>3, <2>3, <2>4
<1>4. ASSUME NEW p \in Conns, Serving(p)
      PROVE  Trail(m)
  BY <1>0, <1>4, TrailServed
<1>5. ASSUME NEW p \in Conns, Reading(p)
      PROVE  Trail(m)
  BY <1>0, <1>5, TrailRead DEF Reading, Outside, listenerVars
<1>6. ASSUME NEW p \in Conns, Failing(p)
      PROVE  Trail(m)
  BY <1>0, <1>6, TrailBroken
<1>7. ASSUME NEW p \in Conns, NEW t \in Topics, Elsewhere(Url[p], t)
      PROVE  Trail(m)
  BY <1>0, <1>7, TrailElsewhere
<1> QED BY <1>1, <1>2, <1>3, <1>4, <1>5, <1>6, <1>7, StepKinds

(* Only a call of Service.Send that returned nil is answered 202. *)
LEMMA StatusNext ==
  ASSUME TypeOK, Next, NEW r \in Requests, rstat'[r] = "202"
  PROVE  rstat[r] = "202" \/ cpc[r] = "ok"
<1>0. rstat \in [Requests -> {"new", "sending", "200", "202"}]
  BY DEF TypeOK, Types
<1>1. CASE rstat' = rstat
  BY <1>1
<1>2. ASSUME NEW c \in Callers, SendStep(c)
      PROVE  rstat' = rstat
  BY <1>2 DEF SendStep, SendFails, Post, Publish, Flush, FlushOk, FlushFails, Goto
<1>3. CASE MainStep \/ Exit \/ \E s \in Sources : MapRace(s)
  BY <1>1, <1>3 DEF MainStep, StartListener, Serve, Subscribe, StartFails, Exit, MapRace
<1>4. ASSUME NEW x \in Requests, Request(x) \/ BadRequest(x) \/ RequestStep(x)
      PROVE  rstat[r] = "202" \/ cpc[r] = "ok"
  BY <1>0, <1>1, <1>2, <1>4 DEF Callers, Request, BadRequest, RequestStep, Answer
<1>5. ASSUME NEW s \in Sources, ListenerStep(s)
      PROVE  rstat' = rstat
  BY <1>2, <1>5
     DEF Callers, ListenerStep, ReceiveFails, Receive, StartWaiting, WaitFails, Unmarshal,
         BadMessage, TriggerDone, TriggerFails, SendEvent, EventSent
<1>6. CASE \E p \in Conns : Serving(p) \/ Reading(p) \/ Failing(p)
  BY <1>1, <1>6 DEF Serving, Reading, Failing, Outside
<1>7. CASE \E p \in Conns, t \in Topics : Elsewhere(Url[p], t)
  BY <1>1, <1>7 DEF Elsewhere
<1> QED BY <1>1, <1>3, <1>4, <1>5, <1>6, <1>7 DEF Next

(* A request that starts has a message no connection has seen. *)
LEMMA FirstCalled ==
  ASSUME TypeOK, FlushesAwaited, NEW r \in Requests, Request(r)
  PROVE  MessageFirst(r)'
<1>1. /\ r \in Callers /\ cmsg'[r] = nextMsg /\ cpc'[r] = "publish"
      /\ rstat'[r] = "sending"
      /\ outbox' = outbox /\ inbox' = inbox /\ flush' = flush
      /\ nextMsg \in Messages /\ nextMsg >= nextMsg
  BY Bounds DEF Request, Call, Callers, TypeOK, Types, brokerVars, Messages
<1>2. flush[nextMsg] = "none"
  BY <1>1 DEF FlushesAwaited
<1>3. \A p \in Conns : \A j \in DOMAIN outbox[p] : outbox[p][j] # PingItem(nextMsg)
  BY <1>2 DEF FlushesAwaited, PingItem
<1>4. \A p \in Conns : \A j \in DOMAIN inbox[p] : inbox[p][j] # PongItem(nextMsg)
  BY <1>2 DEF FlushesAwaited, PongItem
<1>5. PICK m : m = cmsg'[r]
  OBVIOUS
<1>6. FlushBehind(m)'
  BY <1>1, <1>2, <1>3, <1>4, <1>5 DEF FlushBehind
<1>7. FlushBehind(cmsg[r])'
  BY <1>5, <1>6 DEF FlushBehind, SentWithin, Back, BackWithin, AccountedFor
<1> QED BY <1>1, <1>7 DEF MessageFirst

(* Its message is on its way when it is published. *)
LEMMA SentOnItsWay ==
  ASSUME TypeOK, TypeOK', RequestsServed, Webhook \in Readable,
         NEW r \in Requests, Publish(r), NEW m, m = cmsg[r]
  PROVE  OnItsWay(m)'
<1>1. PICK e \in ToServer : e = MsgItem(Topic[Webhook], m)
  <2>1. m \in Messages /\ Webhook \in NatsNodes
    BY Bounds, HomeTyped
       DEF Publish, At, TypeOK, Types, CallsReady, Messages, Callers
  <2> QED BY <2>1 DEF ToServer, Topics, NatsNodes
<1>2. /\ Home \in Conns /\ outbox[Home] \in Seq(ToServer)
      /\ outbox'[Home] = Append(outbox[Home], e)
  BY <1>1, HomeTyped
     DEF Publish, PublishMsg, RequestsServed, Home, TypeOK, BrokerTypeOK
<1>3. /\ Len(outbox'[Home]) = Len(outbox[Home]) + 1 /\ Len(outbox[Home]) \in Nat
      /\ outbox'[Home][Len(outbox[Home]) + 1] = e
  BY <1>2, AppendAt
<1>4. SentWithin(m, Len(outbox[Home]))'
  BY <1>1, <1>3 DEF SentWithin
<1> QED BY <1>4 DEF OnItsWay

LEMMA FirstNext ==
  ASSUME TypeOK, TypeOK', OwnMessages, RequestsServed, SubscribedFirst, FlushesAwaited,
         Webhook \in Readable, Next, NEW r \in Requests, MessageFirst(r)
  PROVE  MessageFirst(r)'
<1>0. /\ r \in Callers /\ r \notin Sources /\ cmsg[r] \in 0 .. MaxMsgs
      /\ cpc \in [Callers -> CallPcs] /\ cmsg \in [Callers -> 0 .. MaxMsgs]
      /\ rstat \in [Requests -> {"new", "sending", "200", "202"}]
  BY SourceTable DEF Callers, TypeOK, Types
<1>1. CASE Request(r)
  BY <1>1, FirstCalled
<1>2. CASE ~Request(r)
  <2>1. /\ cmsg'[r] = cmsg[r]
        /\ cpc'[r] = "flush" => cpc[r] = "flush" \/ Publish(r)
        /\ cpc'[r] = "ok" => cpc[r] = "ok" \/ FlushOk(r) \/ Post(r)
    <3>1. ASSUME NEW c \in Callers, NEW d \in Names, Call(c, d), c \in Sources \/ Request(c)
          PROVE  cmsg'[r] = cmsg[r] /\ cpc'[r] = cpc[r]
      BY <1>0, <1>2, <3>1 DEF Call
    <3> QED BY <1>0, <3>1, CallKinds
  <2>2. rstat'[r] = "202" => rstat[r] = "202" \/ cpc[r] = "ok"
    BY <1>0, <1>2, StatusNext
  <2>3. PICK m : m = cmsg[r] /\ m = cmsg'[r]
    BY <2>1
  <2>4. AccountedFor(m) => AccountedFor(m)'
    BY AccountedNext
  <2>5. cpc'[r] = "ok" \/ rstat'[r] = "202" => AccountedFor(m)'
    <3>1. cpc[r] = "ok" \/ rstat[r] = "202" => AccountedFor(m)
      BY <2>3 DEF MessageFirst
    <3>2. FlushOk(r) => AccountedFor(m)
      BY <1>0, <2>3 DEF FlushOk, At, MessageFirst, FlushBehind, TypeOK, CallsReady
    <3>3. ~Post(r)
      BY HomeTyped DEF Post, RequestsServed
    <3> QED BY <2>1, <2>2, <2>4, <3>1, <3>2, <3>3
  <2>6. CASE m = 0
    <3>1. cpc'[r] # "flush"
      BY <1>0, <2>3, <2>6 DEF TypeOK, CallsReady
    <3>2. AccountedFor(cmsg[r])' <=> AccountedFor(m)'
      BY <2>3 DEF AccountedFor
    <3> QED BY <2>3, <2>5, <2>6, <3>1, <3>2 DEF MessageFirst
  <2>7. CASE m # 0
    <3>1. m \in Messages
      BY <1>0, <2>3, <2>7, Bounds DEF Messages
    <3>2. Trail(m)
      BY <2>3, <3>1, TrailNext
    <3>3. cpc'[r] = "flush" => OnItsWay(m)'
      <4>1. cpc[r] = "flush" => OnItsWay(m)
        BY <2>3 DEF MessageFirst
      <4>2. Publish(r) => OnItsWay(m)'
        BY <2>3, SentOnItsWay
      <4> QED BY <2>1, <3>2, <4>1, <4>2 DEF Trail
    <3>4. FlushBehind(m)'
      BY <3>2 DEF Trail
    <3>5. /\ AccountedFor(cmsg[r])' <=> AccountedFor(m)'
          /\ OnItsWay(cmsg[r])' <=> OnItsWay(m)'
          /\ FlushBehind(cmsg[r])' <=> FlushBehind(m)'
      BY <2>3 DEF AccountedFor, OnItsWay, FlushBehind, SentWithin, Back, BackWithin
    <3> QED BY <2>3, <2>5, <3>3, <3>4, <3>5 DEF MessageFirst
  <2> QED BY <2>6, <2>7
<1> QED BY <1>1, <1>2


-----------------------------------------------------------------------------
(* The invariant.                                                           *)
LEMMA AckInit == Init => AckIInv
<1> SUFFICES ASSUME Init
             PROVE  AckIInv
  OBVIOUS
<1>1. RequestsServed
  BY DEF Init, RequestsServed, Callers
<1>2. SubscribedFirst
  BY DEF Init, BrokerInit, SubscribedFirst, Readable
<1>3. /\ \A p \in Conns : DOMAIN outbox[p] = {} /\ DOMAIN inbox[p] = {}
      /\ \A m \in Messages : flush[m] = "none"
      /\ \A c \in Callers : cmsg[c] = 0 /\ cpc[c] = "idle"
      /\ \A r \in Requests : rstat[r] = "new" /\ r \in Callers
  BY EmptyAt DEF Init, BrokerInit, Callers
<1>4. FlushesAwaited
  BY <1>3 DEF FlushesAwaited
<1>5. \A r \in Requests : MessageFirst(r)
  BY <1>3 DEF MessageFirst
<1> QED BY <1>1, <1>2, <1>4, <1>5 DEF AckIInv

LEMMA AckNext == OrderIInv /\ OrderIInv' /\ AckIInv /\ [Next]_vars => AckIInv'
<1> SUFFICES ASSUME OrderIInv, OrderIInv', AckIInv, [Next]_vars
             PROVE  AckIInv'
  OBVIOUS
<1>1. /\ TypeOK /\ TypeOK' /\ OwnMessages /\ PublishedOnce /\ NotStarted
      /\ RequestsServed /\ SubscribedFirst /\ FlushesAwaited
      /\ Webhook \in Readable => \A r \in Requests : MessageFirst(r)
  BY DEF OrderIInv, AckIInv
<1>2. CASE Next
  <2>1. RequestsServed' /\ SubscribedFirst' /\ FlushesAwaited'
    BY <1>1, <1>2, ServedNext, SubscribedNext, FlushesNext
  <2>2. ASSUME Webhook \in Readable, NEW r \in Requests
        PROVE  MessageFirst(r)'
    BY <1>1, <1>2, <2>2, FirstNext
  <2>3. (Webhook \in Readable)' <=> Webhook \in Readable
    BY DEF Readable
  <2> QED BY <2>1, <2>2, <2>3 DEF AckIInv
<1>3. CASE UNCHANGED vars
  <2>1. RequestsServed' /\ SubscribedFirst' /\ FlushesAwaited'
    BY <1>1, <1>3
       DEF vars, brokerVars, mainVars, callVars, RequestsServed, SubscribedFirst,
           KnownInTime, Msgs, FlushesAwaited
  <2>2. ASSUME Webhook \in Readable, NEW r \in Requests
        PROVE  MessageFirst(r)'
    BY <1>1, <1>3, <2>2
       DEF vars, brokerVars, listenerVars, callVars, MessageFirst, FlushBehind, OnItsWay,
           SentWithin, Back, BackWithin, Batches, Batched, AccountedFor
  <2>3. (Webhook \in Readable)' <=> Webhook \in Readable
    BY DEF Readable
  <2> QED BY <2>1, <2>2, <2>3 DEF AckIInv
<1> QED BY <1>2, <1>3

(* In every reachable state the ping of a request's Flush is behind its     *)
(* message and the answer to it behind the batch of the message.            *)
THEOREM FlushesFollow == Spec => []AckIInv
  BY Ordered, AckInit, AckNext, PTL DEF Spec

LEMMA AckGives == AckIInv => AckedIsAccountedFor
  BY DEF AckIInv, MessageFirst, AccountedFor, AckedIsAccountedFor

(* A request answered 202 has its message past the broker: it waits for the *)
(* listener of Webhook, the listener has it, the full channel refused it,   *)
(* or a broken connection was carrying it.                                  *)
THEOREM Acknowledged == Spec => []AckedIsAccountedFor
  BY FlushesFollow, AckGives, PTL
=============================================================================
