---------------------------- MODULE JobIdProofs ----------------------------
(***************************************************************************)
(* Proofs about JobId, for every set of callers, every length of a tenth   *)
(* of a second and every way the clock is set.                             *)
(***************************************************************************)
EXTENDS JobId, TLAPS

-----------------------------------------------------------------------------
(* Stamps.                                                                  *)

(* Division by Tick is the integer quotient. *)
LEMMA Quotient ==
  ASSUME NEW t \in Nat
  PROVE  /\ Stamp(t) \in Nat
         /\ Stamp(t) * Tick <= t
         /\ t < Stamp(t) * Tick + Tick
  BY TickAssumption, Z3 DEF Stamp

(* Multiples of Tick are ordered as their factors. *)
LEMMA Factors ==
  ASSUME NEW x \in Nat, NEW y \in Nat, x * Tick < y * Tick + Tick
  PROVE  x <= y
  BY TickAssumption, Z3

(* A later time never has an earlier stamp. *)
LEMMA StampMonotone ==
  ASSUME NEW a \in Nat, NEW b \in Nat, a <= b
  PROVE  Stamp(a) <= Stamp(b)
<1> DEFINE x == Stamp(a)
           y == Stamp(b)
<1>1. x \in Nat /\ x * Tick <= a
  BY Quotient
<1>2. y \in Nat /\ b < y * Tick + Tick
  BY Quotient
<1>3. x * Tick \in Int /\ y * Tick \in Int
  BY <1>1, <1>2, TickAssumption
<1>4. x * Tick < y * Tick + Tick
  BY <1>1, <1>2, <1>3, TickAssumption
<1> QED
  BY <1>1, <1>2, <1>4, Factors

(* Readings a tenth of a second apart have different stamps. *)
LEMMA StampGrows ==
  ASSUME NEW a \in Nat, NEW b \in Nat, b - a >= Tick
  PROVE  Stamp(a) < Stamp(b)
<1> DEFINE x == Stamp(a)
           y == Stamp(b)
<1>1. x \in Nat /\ x * Tick <= a
  BY Quotient
<1>2. y \in Nat /\ b < y * Tick + Tick
  BY Quotient
<1>3. x * Tick \in Int /\ y * Tick \in Int /\ (x + 1) * Tick = x * Tick + Tick
  BY <1>1, <1>2, TickAssumption
<1>4. (x + 1) * Tick < y * Tick + Tick
  BY <1>1, <1>2, <1>3, TickAssumption
<1>5. x + 1 <= y
  BY <1>1, <1>2, <1>4, Factors
<1> QED
  BY <1>1, <1>2, <1>5
-----------------------------------------------------------------------------
(* The type invariant.                                                      *)

LEMMA TypeInit == Init => TypeOK
<1>1. Init => setBack \in BOOLEAN
  BY DEF Init
<1> QED
  BY <1>1, TickAssumption DEF Init, TypeOK, Pcs

LEMMA TypeNext == TypeOK /\ [Next]_vars => TypeOK'
<1> SUFFICES ASSUME TypeOK, [Next]_vars
             PROVE  TypeOK'
  OBVIOUS
<1> USE DEF TypeOK, clocks, Pcs, Goto
<1>1. ASSUME NEW c \in Callers, Call(c)
      PROVE  TypeOK'
  BY <1>1 DEF Call
<1>2. ASSUME NEW c \in Callers, Lock(c)
      PROVE  TypeOK'
  BY <1>2 DEF Lock
<1>3. ASSUME NEW c \in Callers, Read(c)
      PROVE  TypeOK'
  BY <1>3 DEF Read
<1>4. ASSUME NEW c \in Callers, Sleep(c)
      PROVE  TypeOK'
  BY <1>4, TickAssumption DEF Sleep
<1>5. ASSUME NEW c \in Callers, WakeUp(c)
      PROVE  TypeOK'
  BY <1>5 DEF WakeUp
<1>6. ASSUME NEW c \in Callers, Accept(c)
      PROVE  TypeOK'
  BY <1>6 DEF Accept
<1>7. ASSUME NEW c \in Callers, Return(c)
      PROVE  TypeOK'
  <2>1. [process |-> process, stamp |-> Stamp(now[c])]
          \in [process : Nat, stamp : Nat]
    BY Quotient
  <2>2. issued' \in Seq([process : Nat, stamp : Nat])
    BY <1>7, <2>1 DEF Return
  <2> QED
    BY <1>7, <2>2 DEF Return
<1>8. ASSUME Pass
      PROVE  TypeOK'
  BY <1>8 DEF Pass
<1>9. ASSUME SetClock
      PROVE  TypeOK'
  BY <1>9, ShiftsAssumption DEF SetClock
<1>10. ASSUME Restart
       PROVE  TypeOK'
  BY <1>10 DEF Restart
<1>11. ASSUME UNCHANGED vars
       PROVE  TypeOK'
  BY <1>11 DEF vars
<1> QED
  BY <1>1, <1>2, <1>3, <1>4, <1>5, <1>6, <1>7, <1>8, <1>9, <1>10, <1>11
     DEF Next, CallerStep

(* Every variable of GetTimestamp's model keeps its type. *)
THEOREM TypeCorrect == Spec => []TypeOK
  BY TypeInit, TypeNext, PTL DEF Spec

-----------------------------------------------------------------------------
(* The inductive invariant.                                                 *)

LEMMA InvInit == Init => IInv
<1> SUFFICES ASSUME Init
             PROVE  IInv
  OBVIOUS
<1>1. TypeOK
  BY TypeInit
<1>2. issued = <<>> /\ DOMAIN issued = {}
  BY DEF Init
<1>3. Held /\ Accepted /\ Past /\ Ordered
  BY <1>2 DEF Init, Held, Accepted, Past, Ordered, InSection
<1>4. Behind /\ Rested
  BY DEF Init, Behind, Rested
<1> QED
  BY <1>1, <1>3, <1>4 DEF IInv

(* The mutex: one goroutine in the section, the one that holds it. *)
LEMMA HeldNext == IInv /\ [Next]_vars => Held'
<1> SUFFICES ASSUME IInv, [Next]_vars
             PROVE  Held'
  OBVIOUS
<1> USE DEF IInv, TypeOK, Held, InSection, Goto, clocks
<1>1. CASE \E c \in Callers : Call(c)
  BY <1>1 DEF Call
<1>2. CASE \E c \in Callers : Lock(c)
  BY <1>2, NoneAssumption DEF Lock
<1>3. CASE \E c \in Callers : Read(c)
  BY <1>3 DEF Read
<1>4. CASE \E c \in Callers : Sleep(c)
  BY <1>4 DEF Sleep
<1>5. CASE \E c \in Callers : WakeUp(c)
  BY <1>5 DEF WakeUp
<1>6. CASE \E c \in Callers : Accept(c)
  BY <1>6 DEF Accept
<1>7. CASE \E c \in Callers : Return(c)
  BY <1>7, NoneAssumption DEF Return
<1>8. CASE Pass
  BY <1>8 DEF Pass
<1>9. CASE SetClock
  BY <1>9 DEF SetClock
<1>10. CASE Restart
  BY <1>10 DEF Restart
<1>11. CASE UNCHANGED vars
  BY <1>11 DEF vars
<1> QED
  BY <1>1, <1>2, <1>3, <1>4, <1>5, <1>6, <1>7, <1>8, <1>9, <1>10, <1>11
     DEF Next, CallerStep

(* The elements of a sequence over S are in S. *)
LEMMA ElementIn ==
  ASSUME NEW S, NEW q \in Seq(S), NEW i \in DOMAIN q
  PROVE  q[i] \in S
  OBVIOUS

(* What was returned are stamps. *)
LEMMA Entries ==
  ASSUME TypeOK
  PROVE  \A i \in DOMAIN issued :
           /\ issued[i] \in [process : Nat, stamp : Nat]
           /\ issued[i].process \in Nat
           /\ issued[i].stamp \in Nat
<1> SUFFICES ASSUME NEW i \in DOMAIN issued
             PROVE  issued[i] \in [process : Nat, stamp : Nat]
  OBVIOUS
<1>1. issued \in Seq([process : Nat, stamp : Nat])
  BY DEF TypeOK
<1> QED
  BY <1>1, ElementIn

(* A clock that was set back stays so. *)
LEMMA StaysSetBack == [Next]_vars /\ setBack => setBack'
  BY DEF Next, CallerStep, Call, Lock, Read, Sleep, WakeUp, Accept, Return,
         Pass, SetClock, Restart, clocks, vars

(* A step that changes neither the stamps nor lastTime nor the process, and *)
(* accepts no reading, keeps what is known of the stamps.                   *)
LEMMA StampsKept ==
  ASSUME IInv,
         UNCHANGED <<issued, lastTime, process>>, setBack => setBack',
         \A c \in Callers : pc'[c] = "format" => pc[c] = "format" /\ now'[c] = now[c]
  PROVE  Accepted' /\ Past' /\ Ordered'
  BY DEF IInv, Accepted, Past, Ordered

(* Accept makes lastTime a reading a tenth of a second past the old one. *)
LEMMA StampsAccept ==
  ASSUME IInv, NEW c \in Callers, Accept(c)
  PROVE  Accepted' /\ Past' /\ Ordered'
<1> USE DEF IInv, TypeOK
<1>1. /\ lastTime' = now[c] /\ now[c] \in Nat /\ lastTime \in Nat
      /\ now[c] - lastTime >= Tick
      /\ UNCHANGED <<issued, process, now, setBack>>
  BY DEF Accept, clocks
<1>2. /\ Stamp(lastTime) \in Nat /\ Stamp(now[c]) \in Nat
      /\ Stamp(lastTime) < Stamp(now[c])
  BY <1>1, StampGrows, Quotient
<1>3. ASSUME NEW i \in DOMAIN issued, ~setBack \/ issued[i].process = process
      PROVE  issued[i].stamp < Stamp(now[c])
  <2>1. issued[i].stamp <= Stamp(lastTime) /\ issued[i].stamp \in Nat
    BY <1>3, Entries DEF Past
  <2> QED
    BY <1>2, <2>1
<1>4. Past'
  <2>1. ASSUME NEW i \in DOMAIN issued
        PROVE  /\ issued[i].process <= process
               /\ ~setBack \/ issued[i].process = process
                    => issued[i].stamp <= Stamp(now[c])
    <3>1. issued[i].stamp \in Nat /\ issued[i].process <= process
      BY Entries DEF Past
    <3> QED
      BY <1>2, <1>3, <3>1
  <2> QED
    BY <1>1, <2>1 DEF Past
<1>5. \A d \in Callers : pc'[d] = "format" => d = c
  BY DEF Accept, Goto, Held, InSection
<1>6. Accepted'
  BY <1>1, <1>3, <1>5 DEF Accepted
<1>7. Ordered'
  BY <1>1 DEF Ordered
<1> QED
  BY <1>4, <1>6, <1>7

(* Return hands out the stamp of the accepted reading: a new one. *)
LEMMA StampsReturn ==
  ASSUME IInv, NEW c \in Callers, Return(c)
  PROVE  Accepted' /\ Past' /\ Ordered'
<1> DEFINE e == [process |-> process, stamp |-> Stamp(now[c])]
           n == Len(issued)
<1> USE DEF IInv, TypeOK
<1>1. /\ now[c] = lastTime /\ lastTime \in Nat /\ process \in Nat
      /\ Stamp(lastTime) \in Nat
      /\ UNCHANGED <<process, lastTime, now, setBack>>
  BY Quotient DEF Return, Accepted, clocks
<1>2. e \in [process : Nat, stamp : Nat]
  BY <1>1
<1>3. /\ n \in Nat /\ DOMAIN issued = 1 .. n /\ DOMAIN issued' = 1 .. n + 1
      /\ issued'[n + 1] = e
      /\ \A i \in 1 .. n : issued'[i] = issued[i]
      /\ \A i \in 1 .. n : issued[i] \in [process : Nat, stamp : Nat]
  <2>1. issued \in Seq([process : Nat, stamp : Nat]) /\ issued' = Append(issued, e)
    BY DEF Return
  <2>2. n \in Nat /\ DOMAIN issued = 1 .. n
    BY <2>1
  <2> HIDE DEF e
  <2>3. DOMAIN issued' = 1 .. n + 1 /\ issued'[n + 1] = e
    BY <1>2, <2>1
  <2>4. \A i \in 1 .. n : issued'[i] = issued[i]
    BY <1>2, <2>1
  <2> QED
    BY <2>2, <2>3, <2>4, Entries
<1>4. e.process = process /\ e.stamp = Stamp(lastTime)
  BY <1>1
<1>5. \A i \in 1 .. n : ~setBack \/ issued[i].process = process
                          => issued[i].stamp < e.stamp
  BY <1>1, <1>3, <1>4 DEF Return, Accepted
<1> HIDE DEF e, n
<1>6. Past'
  <2>1. ASSUME NEW i \in 1 .. n + 1
        PROVE  /\ issued'[i].process <= process
               /\ ~setBack \/ issued'[i].process = process
                    => issued'[i].stamp <= Stamp(lastTime)
    <3>1. CASE i = n + 1
      BY <1>1, <1>3, <1>4, <3>1
    <3>2. CASE i \in 1 .. n
      BY <1>3, <3>2 DEF Past
    <3> QED
      BY <1>3, <3>1, <3>2
  <2> QED
    BY <1>1, <1>3, <2>1 DEF Past
<1>7. Ordered'
  <2>1. ASSUME NEW i \in 1 .. n + 1, NEW j \in 1 .. n + 1, i < j,
               ~setBack \/ issued'[i].process = issued'[j].process
        PROVE  issued'[i].stamp < issued'[j].stamp
    <3>1. i \in 1 .. n /\ issued'[i] = issued[i]
      BY <1>3, <2>1
    <3>2. CASE j = n + 1
      BY <1>3, <1>4, <1>5, <2>1, <3>1, <3>2
    <3>3. CASE j \in 1 .. n
      BY <1>3, <2>1, <3>1, <3>3 DEF Ordered
    <3> QED
      BY <1>3, <3>2, <3>3
  <2> QED
    BY <1>1, <1>3, <2>1 DEF Ordered
<1>8. \A d \in Callers : pc'[d] # "format"
  BY DEF Return, Goto, Held, InSection
<1> QED
  BY <1>6, <1>7, <1>8 DEF Accepted

(* The first lastTime of a new process is not before the last of the old    *)
(* one, unless the clock was set back.                                      *)
LEMMA StampsRestart ==
  ASSUME IInv, Restart
  PROVE  Accepted' /\ Past' /\ Ordered'
<1> USE DEF IInv, TypeOK
<1>1. /\ lastTime' = wall /\ wall \in Nat /\ lastTime \in Nat
      /\ process' = process + 1 /\ process \in Nat /\ UNCHANGED <<issued, setBack>>
      /\ \A c \in Callers : pc'[c] = "idle"
  BY DEF Restart, clocks
<1>2. Accepted' /\ Ordered'
  BY <1>1 DEF Accepted, Ordered
<1>3. ASSUME NEW i \in DOMAIN issued
      PROVE  /\ issued[i].process <= process'
             /\ ~setBack \/ issued[i].process = process'
                  => issued[i].stamp <= Stamp(lastTime')
  <2>1. /\ issued[i].process \in Nat /\ issued[i].stamp \in Nat
        /\ issued[i].process <= process
        /\ ~setBack => issued[i].stamp <= Stamp(lastTime)
    BY Entries DEF Past
  <2>2. issued[i].process # process'
    BY <1>1, <2>1
  <2>3. ASSUME ~setBack
        PROVE  issued[i].stamp <= Stamp(wall)
    <3>1. Stamp(lastTime) <= Stamp(wall)
      BY <1>1, <2>3, StampMonotone DEF Behind
    <3>2. Stamp(lastTime) \in Nat /\ Stamp(wall) \in Nat
      BY <1>1, Quotient
    <3> QED
      BY <2>1, <2>3, <3>1, <3>2
  <2> QED
    BY <1>1, <2>1, <2>2, <2>3
<1>4. Past'
  BY <1>1, <1>3 DEF Past
<1> QED
  BY <1>2, <1>4

LEMMA StampsNext == IInv /\ [Next]_vars => Accepted' /\ Past' /\ Ordered'
<1> SUFFICES ASSUME IInv, [Next]_vars
             PROVE  Accepted' /\ Past' /\ Ordered'
  OBVIOUS
<1> USE DEF Goto, clocks
<1>1. ASSUME NEW c \in Callers,
             Call(c) \/ Lock(c) \/ Read(c) \/ Sleep(c) \/ WakeUp(c)
      PROVE  Accepted' /\ Past' /\ Ordered'
  <2>1. UNCHANGED <<issued, lastTime, process, setBack>>
    BY <1>1 DEF Call, Lock, Read, Sleep, WakeUp
  <2>2. \A d \in Callers : pc'[d] = "format" => pc[d] = "format" /\ now'[d] = now[d]
    BY <1>1 DEF Call, Lock, Read, Sleep, WakeUp, IInv, TypeOK
  <2> QED
    BY <2>1, <2>2, StampsKept
<1>2. CASE Pass \/ SetClock \/ UNCHANGED vars
  <2>1. UNCHANGED <<issued, lastTime, process, pc, now>>
    BY <1>2 DEF Pass, SetClock, vars
  <2> QED
    BY <2>1, StaysSetBack, StampsKept
<1> QED
  BY <1>1, <1>2, StampsAccept, StampsReturn, StampsRestart DEF Next, CallerStep

-----------------------------------------------------------------------------
(* Clocks: lastTime stays behind the wall clock, and a call that has slept  *)
(* has slept enough.                                                        *)

LEMMA ClocksNext == IInv /\ [Next]_vars => Behind' /\ Rested'
<1> SUFFICES ASSUME IInv, [Next]_vars, ~setBack, ~setBack'
             PROVE  Behind' /\ Rested'
  BY StaysSetBack DEF Behind, Rested
<1> USE TickAssumption DEF IInv, TypeOK, Behind, Rested, Goto, clocks
<1>1. ASSUME NEW c \in Callers, Call(c)
      PROVE  Behind' /\ Rested'
  BY <1>1 DEF Call
<1>2. ASSUME NEW c \in Callers, Lock(c)
      PROVE  Behind' /\ Rested'
  BY <1>2 DEF Lock
<1>3. ASSUME NEW c \in Callers, Read(c)
      PROVE  Behind' /\ Rested'
  BY <1>3 DEF Read
<1>4. ASSUME NEW c \in Callers, Sleep(c)
      PROVE  Behind' /\ Rested'
  BY <1>4 DEF Sleep
<1>5. ASSUME NEW c \in Callers, WakeUp(c)
      PROVE  Behind' /\ Rested'
  BY <1>5 DEF WakeUp
<1>6. ASSUME NEW c \in Callers, Accept(c)
      PROVE  Behind' /\ Rested'
  <2>1. \A d \in Callers : pc'[d] \in InSection => d = c /\ pc'[d] = "format"
    BY <1>6 DEF Accept, Held, InSection
  <2> QED
    BY <1>6, <2>1 DEF Accept, InSection
<1>7. ASSUME NEW c \in Callers, Return(c)
      PROVE  Behind' /\ Rested'
  BY <1>7 DEF Return
<1>8. CASE Pass
  BY <1>8 DEF Pass
<1>9. CASE SetClock
  <2>1. PICK d \in Shifts : wall' = wall + d /\ setBack' = (setBack \/ d < 0)
    BY <1>9 DEF SetClock
  <2>2. d \in Int /\ ~(d < 0)
    BY <2>1, ShiftsAssumption, Zenon
  <2>3. wall' >= wall /\ wall' \in Int
    BY <2>1, <2>2
  <2> QED
    BY <1>9, <2>3 DEF SetClock
<1>10. CASE Restart
  BY <1>10 DEF Restart
<1>11. CASE UNCHANGED vars
  BY <1>11 DEF vars
<1> QED
  BY <1>1, <1>2, <1>3, <1>4, <1>5, <1>6, <1>7, <1>8, <1>9, <1>10, <1>11
     DEF Next, CallerStep

-----------------------------------------------------------------------------
(* The theorems.                                                            *)

(* The inductive invariant holds in every reachable state. *)
THEOREM Invariance == Spec => []IInv
<1>1. Init => IInv
  BY InvInit
<1>2. IInv /\ [Next]_vars => IInv'
  <2> SUFFICES ASSUME IInv, [Next]_vars
               PROVE  IInv'
    OBVIOUS
  <2>1. TypeOK'
    BY TypeNext DEF IInv
  <2> QED
    BY <2>1, HeldNext, StampsNext, ClocksNext DEF IInv
<1> QED
  BY <1>1, <1>2, PTL DEF Spec

(* The mutex lets one goroutine at a time compare and set lastTime. *)
THEOREM Exclusive == Spec => []MutualExclusion
<1>1. IInv => MutualExclusion
  BY DEF IInv, Held, MutualExclusion
<1> QED
  BY <1>1, Invariance, PTL

(* The job ids of one process grow, whatever happens to the clock. *)
THEOREM Growth == Spec => []GrowsInProcess
<1>1. IInv => GrowsInProcess
  BY DEF IInv, Ordered, GrowsInProcess
<1> QED
  BY <1>1, Invariance, PTL

(* No process returns a job id again if the clock is never set back. *)
THEOREM Uniqueness == Spec => []UniqueUnlessSetBack
<1>1. IInv => UniqueUnlessSetBack
  <2> SUFFICES ASSUME IInv, ~setBack,
                      NEW i \in DOMAIN issued, NEW j \in DOMAIN issued, i # j
               PROVE  issued[i].stamp # issued[j].stamp
    BY DEF UniqueUnlessSetBack, UniqueForever
  <2>1. i \in Int /\ j \in Int
    BY DEF IInv, TypeOK
  <2>2. issued[i].stamp \in Nat /\ issued[j].stamp \in Nat
    BY Entries DEF IInv
  <2>3. CASE i < j
    BY <2>2, <2>3 DEF IInv, Ordered
  <2>4. CASE j < i
    BY <2>2, <2>4 DEF IInv, Ordered
  <2> QED
    BY <2>1, <2>3, <2>4
<1> QED
  BY <1>1, Invariance, PTL

(* Nor does a call then sleep more than once. *)
THEOREM ShortCalls == Spec => []OneNapUnlessSetBack
<1>1. IInv => OneNapUnlessSetBack
  BY DEF IInv, Rested, OneNapUnlessSetBack, OneNapPerRequest
<1> QED
  BY <1>1, Invariance, PTL
=============================================================================
