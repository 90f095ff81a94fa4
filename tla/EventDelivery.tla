--------------------------- MODULE EventDelivery ---------------------------
(***************************************************************************)
(* What event delivery promises to one process of kabanero-events, without *)
(* a broker, a connection or a goroutine: the messages published on the    *)
(* topic of an event source are offered to that source one after another,  *)
(* and its listener takes some of them, in the order they were offered and *)
(* each at most once, from the time it is started until it is gone.        *)
(*                                                                         *)
(* Skipping is allowed: NATS delivers at most once, so a message may be    *)
(* lost by the broker or dropped by a full subscription.  Going back is    *)
(* not.  EventPipeline implements this specification.                      *)
(***************************************************************************)
EXTENDS Naturals, Sequences

CONSTANTS
  Sources,  \* the names of the event sources (keys of eventTriggers)
  Messages  \* what can be published

VARIABLES
  offered,  \* offered[s]: the messages published to s, in order
  taken,    \* taken[s]: the messages the listener of s received, in order
  status    \* status[s]: is the listener not started, running, or gone

vars == <<offered, taken, status>>

Elements(seq) == {seq[i] : i \in DOMAIN seq}

Init ==
  /\ offered = [s \in Sources |-> <<>>]
  /\ taken = [s \in Sources |-> <<>>]
  /\ status = [s \in Sources |-> "off"]

(* One message reaches the sources that share its topic; none sees it twice. *)
Offer(S, m) ==
  /\ \A s \in S : m \notin Elements(offered[s])
  /\ offered' = [s \in Sources |->
       IF s \in S THEN Append(offered[s], m) ELSE offered[s]]
  /\ UNCHANGED <<taken, status>>

Open(s) ==
  /\ status[s] = "off"
  /\ status' = [status EXCEPT ![s] = "on"]
  /\ UNCHANGED <<offered, taken>>

(* The k-th message offered to s is still ahead of everything s has taken. *)
Ahead(s, k) ==
  \A j \in DOMAIN offered[s] : offered[s][j] \in Elements(taken[s]) => j < k

Take(s) ==
  /\ status[s] = "on"
  /\ \E k \in DOMAIN offered[s] :
       /\ Ahead(s, k)
       /\ taken' = [taken EXCEPT ![s] = Append(@, offered[s][k])]
  /\ UNCHANGED <<offered, status>>

(* A listener exits alone; all of them go when the process ends. *)
Close(S) ==
  /\ status' = [s \in Sources |-> IF s \in S THEN "gone" ELSE status[s]]
  /\ UNCHANGED <<offered, taken>>

Next ==
  \/ \E S \in SUBSET Sources, m \in Messages : Offer(S, m)
  \/ \E s \in Sources : Open(s) \/ Take(s)
  \/ \E S \in SUBSET Sources : Close(S)

Spec == Init /\ [][Next]_vars
=============================================================================
