------------------------------- MODULE Broker -------------------------------
(***************************************************************************)
(* The NATS client library and the NATS server, as pkg/messages uses them  *)
(* (nats.go is not part of the repository: this module is external).       *)
(*                                                                         *)
(* Every NATS provider owns one connection.  What the process writes to a  *)
(* connection reaches the server in order, what the server writes comes    *)
(* back in order, and a goroutine of the library moves what comes back     *)
(* into the channel of a subscription or wakes the caller of Flush.        *)
(* Delivery is at most once: a connection that breaks loses what was on    *)
(* it, a subscription whose channel is full drops what arrives, and        *)
(* nothing is sent again.                                                  *)
(***************************************************************************)
EXTENDS Naturals, Sequences, FiniteSets

CONSTANTS
  Names,       \* names an event node may have
  Defined,     \* those of eventDestinations
  ProviderOf,  \* the providerRef of a defined node
  Topic,       \* the topic of a defined node
  Providers,   \* the registered message providers
  Kind,        \* the providerType of a provider: "nats" or "rest"
  Url,         \* the url of a provider: equal urls are one server
  MaxMsgs,     \* bound: messages ever published
  MaxPending,  \* bound: the pending limit of a subscription
  MaxBounces   \* bound: how often a connection breaks

ASSUME NodeTable ==
  /\ IsFiniteSet(Names)
  /\ Defined \subseteq Names
  /\ DOMAIN ProviderOf = Defined
  /\ DOMAIN Topic = Defined
  /\ DOMAIN Url = Providers
  /\ Kind \in [Providers -> {"nats", "rest"}]

ASSUME Bounds ==
  MaxMsgs \in Nat /\ MaxPending \in Nat \ {0} /\ MaxBounces \in Nat

Messages == 1 .. MaxMsgs
Topics == {Topic[n] : n \in Defined}

(* The nodes served by a NATS connection. *)
NatsNodes ==
  {n \in Defined : ProviderOf[n] \in Providers /\ Kind[ProviderOf[n]] = "nats"}
Conns == {p \in Providers : Kind[p] = "nats"}

VARIABLES
  outbox,   \* outbox[p]: what connection p carries to the server
  inbox,    \* inbox[p]: what connection p carries back
  open,     \* the connections not closed for good
  subs,     \* nodes with a subscription in the library
  active,   \* nodes whose subscription the server knows
  pending,  \* pending[n]: the channel of the subscription of n
  slow,     \* nodes whose subscription is marked as a slow consumer
  flush,    \* flush[m]: the Flush that follows the Publish of m
  lost,     \* history: messages a broken connection was carrying
  dropped,  \* history: dropped[n], what the full channel of n refused
  offered,  \* history: offered[n], what the server sent to n, in order
  bounces   \* how often a connection broke

brokerVars == <<outbox, inbox, open, subs, active, pending, slow, flush,
                lost, dropped, offered, bounces>>

SubItem(n) == [kind |-> "sub", node |-> n]
MsgItem(t, m) == [kind |-> "msg", topic |-> t, msg |-> m]
PingItem(m) == [kind |-> "ping", msg |-> m]
BatchItem(N, m) == [kind |-> "batch", to |-> N, msg |-> m]
PongItem(m) == [kind |-> "pong", msg |-> m]

ToServer ==
  {SubItem(n) : n \in NatsNodes} \cup {PingItem(m) : m \in Messages}
    \cup {MsgItem(t, m) : t \in Topics, m \in Messages}
ToClient ==
  {BatchItem(N, m) : N \in SUBSET NatsNodes, m \in Messages}
    \cup {PongItem(m) : m \in Messages}

Elements(seq) == {seq[i] : i \in DOMAIN seq}

BrokerInit ==
  /\ outbox = [p \in Conns |-> <<>>]
  /\ inbox = [p \in Conns |-> <<>>]
  /\ open = Conns
  /\ subs = {}
  /\ active = {}
  /\ pending = [n \in NatsNodes |-> <<>>]
  /\ slow = {}
  /\ flush = [m \in Messages |-> "none"]
  /\ lost = {}
  /\ dropped = [n \in NatsNodes |-> {}]
  /\ offered = [n \in NatsNodes |-> <<>>]
  /\ bounces = 0

BrokerTypeOK ==
  /\ outbox \in [Conns -> Seq(ToServer)]
  /\ inbox \in [Conns -> Seq(ToClient)]
  /\ open \subseteq Conns
  /\ subs \subseteq NatsNodes
  /\ active \subseteq NatsNodes
  /\ pending \in [NatsNodes -> Seq(Messages)]
  /\ slow \subseteq NatsNodes
  /\ flush \in [Messages -> {"none", "wait", "ok", "err"}]
  /\ lost \subseteq Messages
  /\ dropped \in [NatsNodes -> SUBSET Messages]
  /\ offered \in [NatsNodes -> Seq(Messages)]
  /\ bounces \in 0 .. MaxBounces

-----------------------------------------------------------------------------
(* The server. *)

Receivers(u, t) ==
  {n \in active : Topic[n] = t /\ Url[ProviderOf[n]] = u}

(* What connection p gets back when the message reaches the receivers R. *)
Batch(p, R, m) ==
  IF \E n \in R : ProviderOf[n] = p
    THEN <<BatchItem({n \in R : ProviderOf[n] = p}, m)>> ELSE <<>>

(* The server at u hands message m, published on t, to whoever subscribes. *)
Route(u, t, m) ==
  LET R == Receivers(u, t)
  IN  /\ inbox' = [p \in Conns |-> inbox[p] \o Batch(p, R, m)]
      /\ offered' = [n \in NatsNodes |->
           IF n \in R THEN Append(offered[n], m) ELSE offered[n]]

(* The server takes the next thing a connection sent. *)
ServerStep(p) ==
  /\ outbox[p] # <<>>
  /\ outbox' = [outbox EXCEPT ![p] = Tail(@)]
  /\ LET it == Head(outbox[p])
     IN  \/ /\ it.kind = "sub"
            /\ active' = active \cup {it.node}
            /\ UNCHANGED <<inbox, offered>>
         \/ /\ it.kind = "msg"
            /\ Route(Url[p], it.topic, it.msg)
            /\ UNCHANGED active
         \/ /\ it.kind = "ping"
            /\ inbox' = [inbox EXCEPT ![p] = Append(@, PongItem(it.msg))]
            /\ UNCHANGED <<active, offered>>
  /\ UNCHANGED <<open, subs, pending, slow, flush, lost, dropped, bounces>>

-----------------------------------------------------------------------------
(* The library's goroutine of connection p takes the next thing received.   *)
(* A channel with room takes the message and clears the mark; a full one    *)
(* drops it and sets the mark, which the next NextMsg reports as an error.  *)
ClientStep(p) ==
  /\ inbox[p] # <<>>
  /\ inbox' = [inbox EXCEPT ![p] = Tail(@)]
  /\ LET it == Head(inbox[p])
     IN  \/ /\ it.kind = "batch"
            /\ LET room == {n \in it.to : Len(pending[n]) < MaxPending}
               IN  /\ pending' = [n \in NatsNodes |->
                        IF n \in room THEN Append(pending[n], it.msg)
                                      ELSE pending[n]]
                   /\ dropped' = [n \in NatsNodes |->
                        IF n \in it.to \ room THEN dropped[n] \cup {it.msg}
                                              ELSE dropped[n]]
                   /\ slow' = (slow \ room) \cup (it.to \ room)
            /\ UNCHANGED flush
         \/ /\ it.kind = "pong"
            /\ flush' = [flush EXCEPT ![it.msg] = IF @ = "wait" THEN "ok" ELSE @]
            /\ UNCHANGED <<pending, dropped, slow>>
  /\ UNCHANGED <<outbox, open, subs, active, lost, offered, bounces>>

-----------------------------------------------------------------------------
(* Calls of the library. *)

(* conn.SubscribeSync: it does not wait for the server. *)
SubscribeSync(n) ==
  /\ ProviderOf[n] \in open
  /\ subs' = subs \cup {n}
  /\ outbox' = [outbox EXCEPT ![ProviderOf[n]] = Append(@, SubItem(n))]
  /\ UNCHANGED <<inbox, open, active, pending, slow, flush, lost, dropped,
                 offered, bounces>>

(* conn.Publish: it does not wait for the server either. *)
PublishMsg(n, m) ==
  /\ ProviderOf[n] \in open
  /\ outbox' = [outbox EXCEPT ![ProviderOf[n]] = Append(@, MsgItem(Topic[n], m))]
  /\ UNCHANGED <<inbox, open, subs, active, pending, slow, flush, lost,
                 dropped, offered, bounces>>

(* The first half of conn.Flush: a ping, whose answer the caller awaits. *)
SendPing(n, m) ==
  /\ ProviderOf[n] \in open
  /\ outbox' = [outbox EXCEPT ![ProviderOf[n]] = Append(@, PingItem(m))]
  /\ flush' = [flush EXCEPT ![m] = "wait"]
  /\ UNCHANGED <<inbox, open, subs, active, pending, slow, lost, dropped,
                 offered, bounces>>

(* The next message leaves the channel of a subscription. *)
Dequeue(n) ==
  /\ pending[n] # <<>>
  /\ pending' = [pending EXCEPT ![n] = Tail(@)]
  /\ UNCHANGED <<outbox, inbox, open, subs, active, slow, flush, lost,
                 dropped, offered, bounces>>

(* NextMsg reports the slow consumer mark once. *)
ClearSlow(n) ==
  /\ slow' = slow \ {n}
  /\ UNCHANGED <<outbox, inbox, open, subs, active, pending, flush, lost,
                 dropped, offered, bounces>>

-----------------------------------------------------------------------------
(* Failures of a connection. *)

Carried(p) ==
  {it.msg : it \in {i \in Elements(outbox[p]) : i.kind = "msg"}
                     \cup {i \in Elements(inbox[p]) : i.kind = "batch"}}
Awaited(p) ==
  {it.msg : it \in {i \in Elements(outbox[p]) : i.kind = "ping"}
                     \cup {i \in Elements(inbox[p]) : i.kind = "pong"}}

(* Connection p breaks: what it carried is lost and callers of Flush fail.  *)
Break(p) ==
  /\ p \in open
  /\ bounces < MaxBounces
  /\ bounces' = bounces + 1
  /\ inbox' = [inbox EXCEPT ![p] = <<>>]
  /\ active' = {n \in active : ProviderOf[n] # p}
  /\ lost' = lost \cup Carried(p)
  /\ flush' = [m \in Messages |->
       IF m \in Awaited(p) /\ flush[m] = "wait" THEN "err" ELSE flush[m]]
  /\ UNCHANGED <<subs, pending, slow, dropped, offered>>

(* The library connects again and repeats its subscriptions, in any order. *)
Reconnect(p) ==
  /\ Break(p)
  /\ \E again \in [1 .. Cardinality({n \in subs : ProviderOf[n] = p}) -> subs] :
       /\ Elements(again) = {n \in subs : ProviderOf[n] = p}
       /\ outbox' = [outbox EXCEPT
            ![p] = [i \in DOMAIN again |-> SubItem(again[i])]]
  /\ UNCHANGED open

(* It gives up: the connection and its subscriptions are closed for good. *)
GiveUp(p) ==
  /\ Break(p)
  /\ outbox' = [outbox EXCEPT ![p] = <<>>]
  /\ open' = open \ {p}
=============================================================================
