--------------------------- MODULE EventPipeline ---------------------------
(***************************************************************************)
(* One process of kabanero-events at work: main starts a listener for each *)
(* event source, then serves the webhook; every webhook request publishes  *)
(* its message to the node "github"; every listener receives the messages  *)
(* of its source one at a time and runs the triggers of the source on      *)
(* each, which may send further events.                                    *)
(*                                                                         *)
(* The goroutines are main, one per request (net/http) and one per source. *)
(* An action is what one goroutine does up to its next step that another   *)
(* goroutine can see.  Nothing is persisted: when the process ends, by a   *)
(* klog.Fatal, a signal or a crash, the behaviour ends.                    *)
(***************************************************************************)
EXTENDS Broker

CONSTANTS
  Sources,     \* the event sources that have triggers
  Webhook,     \* the node of WEBHOOKDESTINATION, "github"
  NumTriggers, \* how many triggers a source has
  Requests,    \* bound: the webhook requests that ever arrive
  TimesOut     \* may the timeout of a provider expire at all

ASSUME SourceTable ==
  /\ Sources \subseteq Names
  /\ Webhook \in Names
  /\ NumTriggers \in [Sources -> Nat \ {0}]
  /\ Requests \cap Names = {}
  /\ TimesOut \in BOOLEAN

(* The goroutines that call Service.Send: requests, and listeners, named by *)
(* the source they serve.                                                   *)
Callers == Requests \cup Sources

None == "none"
Readable == Sources \cap NatsNodes

VARIABLES
  mainPc,   \* where main is
  todo,     \* sources StartListeners has not reached
  cur,      \* the source whose map entry is being written
  rstat,    \* rstat[r]: a request, and the status it was answered with
  lpc,      \* lpc[s]: where the listener of s is
  lmsg,     \* lmsg[s]: the message it works on, 0 before the first
  ltrig,    \* ltrig[s]: the trigger it runs
  cpc,      \* cpc[c]: where a call of Service.Send is
  cdest,    \* cdest[c]: its destination
  cmsg,     \* cmsg[c]: its message, 0 before the first
  nextMsg,  \* the next message
  taken     \* history: taken[s], what the listener of s received, in order

mainVars == <<mainPc, todo, cur>>
listenerVars == <<lpc, lmsg, ltrig, taken>>
callVars == <<cpc, cdest, cmsg, nextMsg>>
vars == <<brokerVars, mainVars, rstat, listenerVars, callVars>>

MainPcs == {"pick", "write", "serve", "dead", "thrown"}
ListenerPcs == {"off", "receive", "wait", "decode", "trigger", "sending", "gone"}
CallPcs == {"idle", "publish", "flush", "wait", "ok", "err"}

Alive == mainPc \notin {"dead", "thrown"}

Init ==
  /\ BrokerInit
  /\ mainPc = "pick"
  /\ todo = Sources
  /\ cur = None
  /\ rstat = [r \in Requests |-> "new"]
  /\ lpc = [s \in Sources |-> "off"]
  /\ lmsg = [s \in Sources |-> 0]
  /\ ltrig = [s \in Sources |-> 1]
  /\ cpc = [c \in Callers |-> "idle"]
  /\ cdest = [c \in Callers |-> Webhook]
  /\ cmsg = [c \in Callers |-> 0]
  /\ nextMsg = 1
  /\ taken = [s \in Sources |-> <<>>]

(* The variables hold values of their types.  A call that is under way has *)
(* a message, one that has published has a connection, and only sources    *)
(* with a connection are listened to.                                      *)
Types ==
  /\ mainPc \in MainPcs
  /\ todo \subseteq Sources
  /\ cur \in Readable \cup {None}
  /\ rstat \in [Requests -> {"new", "sending", "200", "202"}]
  /\ lpc \in [Sources -> ListenerPcs]
  /\ lmsg \in [Sources -> 0 .. MaxMsgs]
  /\ ltrig \in [Sources -> Nat]
  /\ cpc \in [Callers -> CallPcs]
  /\ cdest \in [Callers -> Names]
  /\ cmsg \in [Callers -> 0 .. MaxMsgs]
  /\ nextMsg \in 1 .. MaxMsgs + 1
  /\ taken \in [Sources -> Seq(Messages)]
CallsReady ==
  \A c \in Callers :
    /\ cpc[c] # "idle" => cmsg[c] # 0
    /\ cpc[c] \in {"flush", "wait"} => cdest[c] \in NatsNodes
ListenersReady ==
  /\ mainPc = "write" => cur \in Readable
  /\ \A s \in Sources :
       /\ lpc[s] # "off" => s \in NatsNodes
       /\ ltrig[s] \in 1 .. NumTriggers[s]
TypeOK == BrokerTypeOK /\ Types /\ CallsReady /\ ListenersReady

-----------------------------------------------------------------------------
(* main: StartListeners, then the webhook.                                  *)

(* GetNode and GetProvider both find something. *)
Resolved(n) == n \in Defined /\ ProviderOf[n] \in Providers

Subscribe(s) ==
  /\ mainPc = "pick"
  /\ s \in todo \cap NatsNodes
  /\ SubscribeSync(s)
  /\ mainPc' = "write"
  /\ cur' = s
  /\ UNCHANGED <<todo, rstat, listenerVars, callVars>>

(* The entry is in the map of the provider; the listener is started. *)
StartListener ==
  /\ mainPc = "write"
  /\ mainPc' = "pick"
  /\ cur' = None
  /\ todo' = todo \ {cur}
  /\ lpc' = [lpc EXCEPT ![cur] = "receive"]
  /\ UNCHANGED <<brokerVars, rstat, lmsg, ltrig, taken, callVars>>

(* An unknown node, an unknown provider or a failed subscription ends the   *)
(* process, and so does a REST provider, whose Subscribe is fatal itself.   *)
CannotListen(s) == s \notin NatsNodes \/ ProviderOf[s] \notin open

StartFails(s) ==
  /\ mainPc = "pick"
  /\ s \in todo
  /\ CannotListen(s)
  /\ mainPc' = "dead"
  /\ UNCHANGED <<brokerVars, todo, cur, rstat, listenerVars, callVars>>

\* variant: the webhook does not wait for the subscriptions
ServeEarly ==
  /\ mainPc = "pick"
  /\ mainPc' = "serve"
  /\ UNCHANGED <<brokerVars, todo, cur, rstat, listenerVars, callVars>>

(* http.ListenAndServe accepts requests from here on. *)
Serve ==
  /\ mainPc = "pick"
  /\ todo = {}
  /\ mainPc' = "serve"
  /\ UNCHANGED <<brokerVars, todo, cur, rstat, listenerVars, callVars>>

(* A missing certificate or a taken port after the listeners have started,  *)
(* or a signal at any time.                                                 *)
Exit ==
  /\ Alive
  /\ mainPc' = "dead"
  /\ UNCHANGED <<brokerVars, todo, cur, rstat, listenerVars, callVars>>

(* A listener looks its subscription up while main writes the same map: the *)
(* runtime throws if it sees the write, and may as well not see it (then    *)
(* the listener goes on as usual).                                          *)
MapRace(s) ==
  /\ mainPc = "write"
  /\ lpc[s] = "receive"
  /\ ProviderOf[s] = ProviderOf[cur]
  /\ mainPc' = "thrown"
  /\ UNCHANGED <<brokerVars, todo, cur, rstat, listenerVars, callVars>>

-----------------------------------------------------------------------------
(* Service.Send, called by c.                                               *)

(* A new message on its way to node d. *)
Call(c, d) ==
  /\ nextMsg <= MaxMsgs
  /\ cpc' = [cpc EXCEPT ![c] = "publish"]
  /\ cdest' = [cdest EXCEPT ![c] = d]
  /\ cmsg' = [cmsg EXCEPT ![c] = nextMsg]
  /\ nextMsg' = nextMsg + 1

At(c, pc) == Alive /\ cpc[c] = pc
Goto(c, pc) ==
  /\ cpc' = [cpc EXCEPT ![c] = pc]
  /\ UNCHANGED <<mainVars, rstat, listenerVars, cdest, cmsg, nextMsg>>

(* No node, no provider, or a connection that is closed. *)
SendFails(c) ==
  /\ At(c, "publish") \/ At(c, "flush")
  /\ LET d == cdest[c]
     IN  ~Resolved(d) \/ (d \in NatsNodes /\ ProviderOf[d] \notin open)
  /\ Goto(c, "err")
  /\ UNCHANGED brokerVars

(* The POST of a REST provider: status 200 or not, or no answer in time. *)
Post(c) ==
  /\ At(c, "publish")
  /\ Resolved(cdest[c]) /\ cdest[c] \notin NatsNodes
  /\ Goto(c, "ok") \/ Goto(c, "err")
  /\ UNCHANGED brokerVars

Publish(c) ==
  /\ At(c, "publish")
  /\ cdest[c] \in NatsNodes
  /\ PublishMsg(cdest[c], cmsg[c])
  /\ Goto(c, "flush")

Flush(c) ==
  /\ At(c, "flush")
  /\ SendPing(cdest[c], cmsg[c])
  /\ Goto(c, "wait")

FlushOk(c) ==
  /\ At(c, "wait")
  /\ flush[cmsg[c]] = "ok"
  /\ Goto(c, "ok")
  /\ UNCHANGED brokerVars

\* variant: publish again when the flush fails
RetryPublish(c) ==
  /\ At(c, "wait")
  /\ Goto(c, "publish")
  /\ UNCHANGED brokerVars

(* The connection broke, or no answer came within the library's limit. *)
FlushFails(c) ==
  /\ At(c, "wait")
  /\ Goto(c, "err")
  /\ UNCHANGED brokerVars

SendStep(c) ==
  \/ SendFails(c) \/ Post(c) \/ Publish(c)
  \/ Flush(c) \/ FlushOk(c) \/ FlushFails(c)

-----------------------------------------------------------------------------
(* listenerHandler: one goroutine per webhook request.                      *)

Request(r) ==
  /\ mainPc = "serve"
  /\ rstat[r] = "new"
  /\ rstat' = [rstat EXCEPT ![r] = "sending"]
  /\ Call(r, Webhook)
  /\ UNCHANGED <<brokerVars, mainVars, listenerVars>>

(* A body that is not a JSON object: the handler returns without a status,  *)
(* which net/http turns into 200.                                           *)
BadRequest(r) ==
  /\ mainPc = "serve"
  /\ rstat[r] = "new"
  /\ rstat' = [rstat EXCEPT ![r] = "200"]
  /\ UNCHANGED <<brokerVars, mainVars, listenerVars, callVars>>

Answer(r) ==
  /\ At(r, "ok") \/ At(r, "err")
  /\ rstat' = [rstat EXCEPT ![r] = IF cpc[r] = "ok" THEN "202" ELSE "200"]
  /\ cpc' = [cpc EXCEPT ![r] = "idle"]
  /\ UNCHANGED <<brokerVars, mainVars, listenerVars, cdest, cmsg, nextMsg>>

RequestStep(r) == SendStep(r) \/ Answer(r)

-----------------------------------------------------------------------------
(* messageListener for source s: Receive, unmarshal, ProcessMessage.        *)

ListenerAt(s, pc) == Alive /\ lpc[s] = pc
Connected(s) == ProviderOf[s] \in open

(* The listener moves on; what it received, if anything, is recorded. *)
Listen(s, pc) ==
  /\ lpc' = [lpc EXCEPT ![s] = pc]
  /\ UNCHANGED <<lmsg, ltrig, taken>>
Got(s, m) ==
  /\ lpc' = [lpc EXCEPT ![s] = "decode"]
  /\ lmsg' = [lmsg EXCEPT ![s] = m]
  /\ taken' = [taken EXCEPT ![s] = Append(@, m)]
  /\ UNCHANGED ltrig

(* NextMsg: a closed connection or a slow consumer is an error at once. *)
ReceiveFails(s) ==
  /\ ListenerAt(s, "receive")
  /\ ~Connected(s) \/ s \in slow
  /\ Listen(s, "gone")
  /\ IF Connected(s) THEN ClearSlow(s) ELSE UNCHANGED brokerVars
  /\ UNCHANGED <<mainVars, rstat, callVars>>

(* NextMsg: a message is there already, or arrives while the timer runs. *)
Receive(s) ==
  /\ \/ ListenerAt(s, "receive") /\ Connected(s) /\ s \notin slow
     \/ ListenerAt(s, "wait")
  /\ Dequeue(s)
  /\ Got(s, Head(pending[s]))
  /\ UNCHANGED <<mainVars, rstat, callVars>>

StartWaiting(s) ==
  /\ ListenerAt(s, "receive")
  /\ Connected(s) /\ s \notin slow
  /\ pending[s] = <<>>
  /\ Listen(s, "wait")
  /\ UNCHANGED <<brokerVars, mainVars, rstat, callVars>>

(* The timer may win against a message that has just arrived. *)
WaitFails(s) ==
  /\ ListenerAt(s, "wait")
  /\ TimesOut \/ (~Connected(s) /\ pending[s] = <<>>)
  /\ Listen(s, "gone")
  /\ UNCHANGED <<brokerVars, mainVars, rstat, callVars>>

(* What a webhook request published always unmarshals. *)
FromWebhook(m) == \E r \in Requests : cmsg[r] = m

Unmarshal(s) ==
  /\ ListenerAt(s, "decode")
  /\ lpc' = [lpc EXCEPT ![s] = "trigger"]
  /\ ltrig' = [ltrig EXCEPT ![s] = 1]
  /\ UNCHANGED <<brokerVars, mainVars, rstat, callVars, lmsg, taken>>

BadMessage(s) ==
  /\ ListenerAt(s, "decode")
  /\ ~FromWebhook(lmsg[s])
  /\ Listen(s, "receive")
  /\ UNCHANGED <<brokerVars, mainVars, rstat, callVars>>

\* variant: one trigger too many
TriggerDoneLate(s) ==
  /\ ListenerAt(s, "trigger")
  /\ IF ltrig[s] <= NumTriggers[s]
       THEN /\ ltrig' = [ltrig EXCEPT ![s] = @ + 1]
            /\ UNCHANGED lpc
       ELSE /\ lpc' = [lpc EXCEPT ![s] = "receive"]
            /\ UNCHANGED ltrig
  /\ UNCHANGED <<brokerVars, mainVars, rstat, callVars, lmsg, taken>>

(* Trigger ltrig[s] runs to its end: the next one, or the next message. *)
TriggerDone(s) ==
  /\ ListenerAt(s, "trigger")
  /\ IF ltrig[s] < NumTriggers[s]
       THEN /\ ltrig' = [ltrig EXCEPT ![s] = @ + 1]
            /\ UNCHANGED lpc
       ELSE /\ lpc' = [lpc EXCEPT ![s] = "receive"]
            /\ UNCHANGED ltrig
  /\ UNCHANGED <<brokerVars, mainVars, rstat, callVars, lmsg, taken>>

\* variant: the error ends the listener
TriggerFailsForGood(s) ==
  /\ ListenerAt(s, "trigger")
  /\ Listen(s, "gone")
  /\ UNCHANGED <<brokerVars, mainVars, rstat, callVars>>

(* Its error ends the message, not the listener. *)
TriggerFails(s) ==
  /\ ListenerAt(s, "trigger")
  /\ Listen(s, "receive")
  /\ UNCHANGED <<brokerVars, mainVars, rstat, callVars>>

(* sendEvent to any destination the trigger names. *)
SendEvent(s) ==
  /\ ListenerAt(s, "trigger")
  /\ \E d \in Names : Call(s, d)
  /\ Listen(s, "sending")
  /\ UNCHANGED <<brokerVars, mainVars, rstat>>

(* Its error is an evaluation error of the trigger. *)
EventSent(s) ==
  /\ ListenerAt(s, "sending")
  /\ cpc[s] \in {"ok", "err"}
  /\ cpc' = [cpc EXCEPT ![s] = "idle"]
  /\ Listen(s, IF cpc[s] = "ok" THEN "trigger" ELSE "receive")
  /\ UNCHANGED <<brokerVars, mainVars, rstat, cdest, cmsg, nextMsg>>

ListenerStep(s) ==
  \/ ReceiveFails(s) \/ Receive(s) \/ StartWaiting(s) \/ WaitFails(s)
  \/ Unmarshal(s) \/ BadMessage(s) \/ TriggerDone(s) \/ TriggerFails(s)
  \/ SendEvent(s) \/ EventSent(s) \/ SendStep(s)

-----------------------------------------------------------------------------
(* The rest of the world.                                                   *)

(* Another program publishes on a topic of server u. *)
Elsewhere(u, t) ==
  /\ Alive
  /\ nextMsg <= MaxMsgs
  /\ nextMsg' = nextMsg + 1
  /\ Route(u, t, nextMsg)
  /\ UNCHANGED <<outbox, open, subs, active, pending, slow, flush, lost,
                 dropped, bounces>>
  /\ UNCHANGED <<mainVars, rstat, listenerVars, cpc, cdest, cmsg>>

Outside == UNCHANGED <<mainVars, rstat, listenerVars, callVars>>
Serving(p) == Alive /\ ServerStep(p) /\ Outside
Reading(p) == Alive /\ ClientStep(p) /\ Outside
Failing(p) == Alive /\ (Reconnect(p) \/ GiveUp(p)) /\ Outside

MainStep == StartListener \/ Serve \/ \E s \in Sources : Subscribe(s) \/ StartFails(s)

Next ==
  \/ MainStep
  \/ Exit
  \/ \E s \in Sources : MapRace(s) \/ ListenerStep(s)
  \/ \E r \in Requests : Request(r) \/ BadRequest(r) \/ RequestStep(r)
  \/ \E p \in Conns : Serving(p) \/ Reading(p) \/ Failing(p)
  \/ \E p \in Conns, t \in Topics : Elsewhere(Url[p], t)

Spec == Init /\ [][Next]_vars

(* The Go scheduler runs every goroutine that can run, the connection is    *)
(* served by goroutines and by a server that run too, every trigger body    *)
(* ends, and a timer expires.  Nothing makes a request arrive or a          *)
(* connection fail.                                                         *)
Fairness ==
  /\ WF_vars(MainStep)
  /\ \A s \in Sources : WF_vars(ListenerStep(s))
  /\ \A r \in Requests : WF_vars(RequestStep(r))
  /\ \A p \in Conns : WF_vars(Serving(p)) /\ WF_vars(Reading(p))

FairSpec == Spec /\ Fairness

-----------------------------------------------------------------------------
(* Properties.                                                              *)

(* A webhook request is answered 202 only when its message is past the      *)
(* broker: it waits in the subscription of "github", its listener has it,   *)
(* the full subscription refused it, or a broken connection was carrying    *)
(* it.  Nothing acknowledged can still be ahead of the subscription.        *)
AckedIsAccountedFor ==
  Webhook \in Readable =>
    \A r \in Requests : rstat[r] = "202" =>
      \/ cmsg[r] \in Elements(pending[Webhook]) \cup Elements(taken[Webhook])
      \/ cmsg[r] \in dropped[Webhook] \cup lost

(* What happens to an acknowledged message: the listener finishes it, or it *)
(* is lost, or the listener is gone for a reason Receive may give (nothing  *)
(* received in time, an overflow, a closed connection), or the process is.  *)
Finished(s, m) ==
  m \in Elements(taken[s]) /\ (lmsg[s] = m => lpc[s] \in {"receive", "wait", "gone"})
Excused(s, m) ==
  \/ m \in lost \cup dropped[s]
  \/ lpc[s] = "gone" /\ (TimesOut \/ dropped[s] # {} \/ ~Connected(s))
  \/ ~Alive
AckedIsHandled ==
  Webhook \in Readable =>
    \A r \in Requests : rstat[r] = "202" ~>
      Finished(Webhook, cmsg[r]) \/ Excused(Webhook, cmsg[r])

(* Whatever the goroutines, the broker and the connection do, each listener *)
(* receives what was published for its source in order, each message at     *)
(* most once, and nothing after it is gone.                                 *)
Delivery == INSTANCE EventDelivery WITH
  Sources <- Readable,
  offered <- [s \in Readable |-> offered[s]],
  taken <- [s \in Readable |-> taken[s]],
  status <- [s \in Readable |->
    IF ~Alive \/ lpc[s] = "gone" THEN "gone"
    ELSE IF lpc[s] = "off" THEN "off" ELSE "on"]
DeliversInOrder == Delivery!Spec

(* StartListeners starts all listeners or reports why it cannot: it does    *)
(* not bring the process down by a crash of the runtime.                    *)
NeverThrows == mainPc # "thrown"

-----------------------------------------------------------------------------
(* Why deliveries are in order.                                             *)

Msgs(p) == {i \in DOMAIN outbox[p] : outbox[p][i].kind = "msg"}
Batches(n) ==
  {k \in DOMAIN inbox[ProviderOf[n]] :
     /\ inbox[ProviderOf[n]][k].kind = "batch"
     /\ n \in inbox[ProviderOf[n]][k].to}
Batched(n, k) == inbox[ProviderOf[n]][k].msg

Unsent(m) == \A n \in NatsNodes : m \notin Elements(offered[n])
Before(n, a, b) ==
  \E j, k \in DOMAIN offered[n] :
    j < k /\ offered[n][j] = a /\ offered[n][k] = b

(* No two callers have the same message. *)
OwnMessages ==
  \A c \in Callers :
    /\ cmsg[c] < nextMsg
    /\ \A d \in Callers : cmsg[d] = cmsg[c] => d = c \/ cmsg[c] = 0

(* What is on its way to the server, or about to be, is there once and was  *)
(* offered to nobody.                                                       *)
PublishedOnce ==
  /\ \A m \in Messages : m >= nextMsg => Unsent(m)
  /\ \A c \in Callers : cpc[c] = "publish" => Unsent(cmsg[c])
  /\ \A p \in Conns : \A i \in Msgs(p) :
       /\ outbox[p][i].msg < nextMsg /\ Unsent(outbox[p][i].msg)
       /\ \A c \in Callers : cpc[c] = "publish" => outbox[p][i].msg # cmsg[c]
       /\ \A q \in Conns : \A j \in Msgs(q) :
            outbox[q][j].msg = outbox[p][i].msg => q = p /\ j = i

(* A connection brings back what its own nodes subscribed to. *)
AddressedHere ==
  \A p \in Conns : \A k \in DOMAIN inbox[p] :
    inbox[p][k].kind = "batch" => \A n \in inbox[p][k].to : ProviderOf[n] = p

(* What was taken, what waits in the channel and what is coming back were   *)
(* offered in this order.                                                   *)
OfferedOnce(n) ==
  \A j, k \in DOMAIN offered[n] : offered[n][j] = offered[n][k] => j = k
WaitsInOrder(n) ==
  \A i \in DOMAIN pending[n] :
    /\ pending[n][i] \in Elements(offered[n])
    /\ \A j \in DOMAIN pending[n] :
         i < j => Before(n, pending[n][i], pending[n][j])
    /\ \A k \in Batches(n) : Before(n, pending[n][i], Batched(n, k))
ComesInOrder(n) ==
  \A k \in Batches(n) :
    /\ Batched(n, k) \in Elements(offered[n])
    /\ \A l \in Batches(n) : k < l => Before(n, Batched(n, k), Batched(n, l))
TakenInOrder(n) ==
  \A i \in DOMAIN taken[n] :
    /\ taken[n][i] \in Elements(offered[n])
    /\ \A j \in DOMAIN taken[n] : i < j => Before(n, taken[n][i], taken[n][j])
    /\ \A j \in DOMAIN pending[n] : Before(n, taken[n][i], pending[n][j])
    /\ \A k \in Batches(n) : Before(n, taken[n][i], Batched(n, k))

(* What StartListeners has not reached is not listened to. *)
NotStarted ==
  /\ mainPc = "write" => cur \in todo
  /\ \A s \in todo : lpc[s] = "off"

(* The inductive invariant behind DeliversInOrder: a connection and the     *)
(* channel behind it hold messages in the order of their publication, none  *)
(* of them twice, and behind those the listener has, in that order too.     *)
OrderIInv ==
  /\ TypeOK /\ OwnMessages /\ PublishedOnce /\ AddressedHere /\ NotStarted
  /\ \A n \in NatsNodes : OfferedOnce(n) /\ WaitsInOrder(n) /\ ComesInOrder(n)
  /\ \A s \in Readable : TakenInOrder(s)

-----------------------------------------------------------------------------
(* Why an answer 202 accounts for the message.                              *)

AccountedFor(m) ==
  \/ m \in Elements(pending[Webhook]) \cup Elements(taken[Webhook])
  \/ m \in dropped[Webhook] \cup lost

(* Message m is among the first k things on the way to the server, or back. *)
Home == ProviderOf[Webhook]
SentWithin(m, k) ==
  \E i \in 1 .. k : outbox[Home][i] = MsgItem(Topic[Webhook], m)
BackWithin(m, k) ==
  \E i \in 1 .. k : i \in Batches(Webhook) /\ Batched(Webhook, i) = m
Back(m) == BackWithin(m, Len(inbox[Home])) \/ AccountedFor(m)

(* Requests come when every source is subscribed, and write to "github". *)
RequestsServed ==
  /\ mainPc = "serve" => todo = {}
  /\ \A r \in Requests :
       /\ cdest[r] = Webhook
       /\ mainPc \in {"pick", "write"} => cmsg[r] = 0

(* The server knows a subscription, or will before it sees a request. *)
KnownInTime(n) ==
  LET out == outbox[ProviderOf[n]]
  IN  \/ n \in active
      \/ \E j \in DOMAIN out :
           /\ out[j] = SubItem(n)
           /\ \A i \in Msgs(ProviderOf[n]), r \in Requests :
                out[i].msg = cmsg[r] => j < i
SubscribedFirst ==
  /\ Readable \subseteq subs \cup todo
  /\ mainPc = "write" => cur \in subs
  /\ \A p \in Conns \ open : outbox[p] = <<>>
  /\ \A n \in subs : ProviderOf[n] \in open => KnownInTime(n)

(* What is on a connection for a Flush was sent by one. *)
FlushesAwaited ==
  /\ \A m \in Messages : m >= nextMsg => flush[m] = "none"
  /\ \A c \in Callers : cpc[c] \in {"publish", "flush"} => flush[cmsg[c]] = "none"
  /\ \A p \in Conns :
       /\ \A i \in DOMAIN outbox[p] :
            outbox[p][i].kind = "ping" => flush[outbox[p][i].msg] # "none"
       /\ \A i \in DOMAIN inbox[p] :
            inbox[p][i].kind = "pong" => flush[inbox[p][i].msg] # "none"

(* The ping for m is behind m, and the answer to it behind the batch of m.  *)
OnItsWay(m) == SentWithin(m, Len(outbox[Home])) \/ Back(m)
FlushBehind(m) ==
  /\ \A p \in Conns : \A j \in DOMAIN outbox[p] :
       outbox[p][j] = PingItem(m) => p = Home /\ (SentWithin(m, j) \/ Back(m))
  /\ \A p \in Conns : \A j \in DOMAIN inbox[p] :
       inbox[p][j] = PongItem(m) => p = Home /\ (BackWithin(m, j) \/ AccountedFor(m))
  /\ flush[m] = "ok" => AccountedFor(m)

(* So when the Flush of a request returns, its message has arrived.         *)
MessageFirst(r) ==
  /\ cpc[r] = "flush" => OnItsWay(cmsg[r])
  /\ cmsg[r] # 0 => FlushBehind(cmsg[r])
  /\ cpc[r] = "ok" \/ rstat[r] = "202" => AccountedFor(cmsg[r])

(* The inductive invariant behind AckedIsAccountedFor: a request meets a    *)
(* subscription, and a Flush is answered behind the message it follows.     *)
AckIInv ==
  /\ RequestsServed /\ SubscribedFirst /\ FlushesAwaited
  /\ Webhook \in Readable => \A r \in Requests : MessageFirst(r)
=============================================================================
