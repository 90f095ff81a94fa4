------------------------------- MODULE JobId -------------------------------
(***************************************************************************)
(* GetTimestamp, the source of the CEL function jobID: a time stamp of one *)
(* tenth of a second, made unique by a mutex and by sleeping until the     *)
(* clock is a tenth of a second past the last stamp.  Any listener         *)
(* goroutine may call it.                                                  *)
(*                                                                         *)
(* Time is counted in units, Tick of them to a tenth of a second.  There   *)
(* are two clocks: mono, which only time.Sleep reads, and wall, which may  *)
(* be set: UTC() strips the monotonic reading, so now and lastTime are     *)
(* wall clock readings.  A stamp is the number of the tenth it falls in;   *)
(* its digits (year to tenth, UTC) are a one-to-one rendering of that.     *)
(***************************************************************************)
EXTENDS Integers, Sequences

CONSTANTS
  Callers,     \* goroutines that may ask for a job id
  None,        \* no goroutine
  Tick,        \* units in a tenth of a second
  Shifts,      \* what the wall clock may be set forward or back by
  MaxTime,     \* bound: units of real time
  MaxShifts,   \* bound: how often the clock is set
  MaxIds,      \* bound: calls that return
  MaxRestarts  \* bound: restarts of the process

ASSUME TickAssumption == Tick \in Nat \ {0}
ASSUME NoneAssumption == None \notin Callers
ASSUME ShiftsAssumption == Shifts \subseteq Int
ASSUME BoundsAssumption ==
  {MaxTime, MaxShifts, MaxIds, MaxRestarts} \subseteq Nat

VARIABLES
  mono,      \* real time
  wall,      \* what time.Now shows
  lastTime,  \* the reading behind the last stamp
  holder,    \* who holds the mutex
  pc,        \* pc[c]: where the call of c is
  now,       \* now[c]: the reading c works with
  wake,      \* wake[c]: when the sleep of c is over
  naps,      \* naps[c]: how often this call of c has slept
  issued,    \* history: the stamps returned, in order, with their process
  process,   \* which process this is: it grows with every restart
  shifts,    \* how often the clock was set
  setBack    \* history: the clock was set back at least once

clocks == <<mono, wall, shifts, setBack>>
vars == <<clocks, lastTime, holder, pc, now, wake, naps, issued, process>>

Pcs == {"idle", "lock", "read", "test", "sleep", "format"}
InSection == {"read", "test", "sleep", "format"}
Stamp(t) == t \div Tick

Init ==
  /\ mono = 0
  /\ wall \in 0 .. Tick
  /\ lastTime = wall
  /\ holder = None
  /\ pc = [c \in Callers |-> "idle"]
  /\ now = [c \in Callers |-> 0]
  /\ wake = [c \in Callers |-> 0]
  /\ naps = [c \in Callers |-> 0]
  /\ issued = <<>>
  /\ process = 0
  /\ shifts = 0
  /\ setBack = FALSE

(* The variables hold values of their types. *)
TypeOK ==
  /\ mono \in Nat
  /\ wall \in Nat
  /\ lastTime \in Nat
  /\ holder \in Callers \cup {None}
  /\ pc \in [Callers -> Pcs]
  /\ now \in [Callers -> Nat]
  /\ wake \in [Callers -> Nat]
  /\ naps \in [Callers -> Nat]
  /\ issued \in Seq([process : Nat, stamp : Nat])
  /\ process \in Nat
  /\ shifts \in Nat
  /\ setBack \in BOOLEAN

-----------------------------------------------------------------------------
(* One call of GetTimestamp. *)

Goto(c, label) == pc' = [pc EXCEPT ![c] = label]

Call(c) ==
  /\ pc[c] = "idle"
  /\ Len(issued) < MaxIds
  /\ Goto(c, "lock")
  /\ naps' = [naps EXCEPT ![c] = 0]
  /\ UNCHANGED <<clocks, lastTime, holder, now, wake, issued, process>>

\* variant: the mutex does not wait
LockNothing(c) ==
  /\ pc[c] = "lock"
  /\ holder' = c
  /\ Goto(c, "read")
  /\ UNCHANGED <<clocks, lastTime, now, wake, naps, issued, process>>

(* mutex.Lock *)
Lock(c) ==
  /\ pc[c] = "lock"
  /\ holder = None
  /\ holder' = c
  /\ Goto(c, "read")
  /\ UNCHANGED <<clocks, lastTime, now, wake, naps, issued, process>>

(* now = time.Now().UTC() *)
Read(c) ==
  /\ pc[c] = "read"
  /\ now' = [now EXCEPT ![c] = wall]
  /\ Goto(c, "test")
  /\ UNCHANGED <<clocks, lastTime, holder, wake, naps, issued, process>>

(* Less than a tenth of a second since the last stamp: sleep. *)
Sleep(c) ==
  /\ pc[c] = "test"
  /\ now[c] - lastTime < Tick
  /\ wake' = [wake EXCEPT ![c] = mono + Tick]
  /\ naps' = [naps EXCEPT ![c] = @ + 1]
  /\ Goto(c, "sleep")
  /\ UNCHANGED <<clocks, lastTime, holder, now, issued, process>>

(* The sleep lasts a tenth of a second at least; now is read again. *)
WakeUp(c) ==
  /\ pc[c] = "sleep"
  /\ mono >= wake[c]
  /\ Goto(c, "read")
  /\ UNCHANGED <<clocks, lastTime, holder, now, wake, naps, issued, process>>

\* variant: just less than a tenth of a second is enough
AcceptSameTick(c) ==
  /\ pc[c] = "test"
  /\ now[c] - lastTime >= Tick - 1
  /\ lastTime' = now[c]
  /\ Goto(c, "format")
  /\ UNCHANGED <<clocks, holder, now, wake, naps, issued, process>>

(* Otherwise the reading is the last one from here on. *)
Accept(c) ==
  /\ pc[c] = "test"
  /\ now[c] - lastTime >= Tick
  /\ lastTime' = now[c]
  /\ Goto(c, "format")
  /\ UNCHANGED <<clocks, holder, now, wake, naps, issued, process>>

(* The stamp is formatted and returned, and the deferred Unlock runs. *)
Return(c) ==
  /\ pc[c] = "format"
  /\ Len(issued) < MaxIds
  /\ issued' = Append(issued, [process |-> process, stamp |-> Stamp(now[c])])
  /\ holder' = None
  /\ Goto(c, "idle")
  /\ UNCHANGED <<clocks, lastTime, now, wake, naps, process>>

-----------------------------------------------------------------------------
(* Time, and the process as a whole. *)

Pass ==
  /\ mono < MaxTime
  /\ mono' = mono + 1
  /\ wall' = wall + 1
  /\ UNCHANGED <<shifts, setBack, lastTime, holder, pc, now, wake, naps, issued, process>>

SetClock ==
  /\ shifts < MaxShifts
  /\ shifts' = shifts + 1
  /\ \E d \in Shifts :
       /\ wall + d >= 0
       /\ wall' = wall + d
       /\ setBack' = (setBack \/ d < 0)
  /\ UNCHANGED <<mono, lastTime, holder, pc, now, wake, naps, issued, process>>

\* variant: lastTime is the zero time
RestartAtZero ==
  /\ process < MaxRestarts
  /\ process' = process + 1
  /\ lastTime' = 0
  /\ holder' = None
  /\ pc' = [c \in Callers |-> "idle"]
  /\ now' = [c \in Callers |-> 0]
  /\ wake' = [c \in Callers |-> 0]
  /\ naps' = [c \in Callers |-> 0]
  /\ UNCHANGED <<clocks, issued>>

(* The process ends at any point and starts again: lastTime is initialised  *)
(* from the clock; nothing of the old process is left but what it returned. *)
Restart ==
  /\ process < MaxRestarts
  /\ process' = process + 1
  /\ lastTime' = wall
  /\ holder' = None
  /\ pc' = [c \in Callers |-> "idle"]
  /\ now' = [c \in Callers |-> 0]
  /\ wake' = [c \in Callers |-> 0]
  /\ naps' = [c \in Callers |-> 0]
  /\ UNCHANGED <<clocks, issued>>

CallerStep(c) ==
  \/ Call(c) \/ Lock(c) \/ Read(c) \/ Sleep(c) \/ WakeUp(c)
  \/ Accept(c) \/ Return(c)

Next ==
  \/ \E c \in Callers : CallerStep(c)
  \/ Pass \/ SetClock \/ Restart

Spec == Init /\ [][Next]_vars

-----------------------------------------------------------------------------
(* Properties. *)

(* One goroutine at a time reads and writes lastTime. *)
MutualExclusion ==
  \A c, d \in Callers : pc[c] \in InSection /\ pc[d] \in InSection => c = d

(* Whatever happens to the clock, the job ids one process hands out grow:  *)
(* no two are the same, and none is older than one handed out before.      *)
GrowsInProcess ==
  \A i, j \in DOMAIN issued :
    i < j /\ issued[i].process = issued[j].process =>
      issued[i].stamp < issued[j].stamp

(* No job id is ever returned twice, by any process. *)
UniqueForever ==
  \A i, j \in DOMAIN issued : i # j => issued[i].stamp # issued[j].stamp

(* That holds across restarts as long as nobody has set the clock back. *)
UniqueUnlessSetBack == ~setBack => UniqueForever

(* A call sleeps "up to 0.1 second": once. *)
OneNapPerRequest == \A c \in Callers : naps[c] <= 1

(* That holds as long as nobody has set the clock back. *)
OneNapUnlessSetBack == ~setBack => OneNapPerRequest

(* The inductive invariant.  Who is in the section holds the mutex; a       *)
(* reading that was accepted is the last one and its stamp is new; what     *)
(* this process returned is not past lastTime.  Before a step back, nothing *)
(* any process returned is past lastTime, lastTime is not past wall, and a  *)
(* call that has slept finds the clock a tenth of a second past lastTime.   *)
Held == \A c \in Callers : pc[c] \in InSection => holder = c
Accepted ==
  \A c \in Callers : pc[c] = "format" =>
    /\ now[c] = lastTime
    /\ \A i \in DOMAIN issued :
         (~setBack \/ issued[i].process = process) =>
           issued[i].stamp < Stamp(now[c])
Past ==
  \A i \in DOMAIN issued :
    /\ issued[i].process <= process
    /\ (~setBack \/ issued[i].process = process) =>
         issued[i].stamp <= Stamp(lastTime)
Ordered ==
  \A i, j \in DOMAIN issued :
    i < j /\ (~setBack \/ issued[i].process = issued[j].process) =>
      issued[i].stamp < issued[j].stamp
Behind ==
  ~setBack =>
    /\ lastTime <= wall
    /\ \A c \in Callers : pc[c] = "test" => lastTime <= now[c] /\ now[c] <= wall
Rested ==
  ~setBack =>
    \A c \in Callers :
      /\ naps[c] <= 1
      /\ pc[c] = "lock" => naps[c] = 0
      /\ pc[c] = "sleep" => wall - lastTime >= mono + Tick - wake[c]
      /\ pc[c] = "read" /\ naps[c] = 1 => wall - lastTime >= Tick
      /\ pc[c] = "test" /\ naps[c] = 1 => now[c] - lastTime >= Tick

IInv == TypeOK /\ Held /\ Accepted /\ Past /\ Ordered /\ Behind /\ Rested
=============================================================================
