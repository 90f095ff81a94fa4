------------------------ MODULE ApplyResourcesProofs ------------------------
(***************************************************************************)
(* Proofs about ApplyResources: its inductive invariant, and from it what  *)
(* a call has created when it ends, for any directories, templates and     *)
(* callers, and any other users of the cluster.                            *)
(***************************************************************************)
EXTENDS ApplyResources, TLAPS

(* What the templates become is a sequence of texts. *)
LEMMA PlanType ==
  ASSUME NEW d \in Dirs, NEW v \in Variables
  PROVE  Plan(d, v) \in Seq(Resources \cup {Broken, Invalid})
<1>1. FindFiles(d) \in Seq(Templates)
  BY DirectoryTable DEF FindFiles, Suffixes
<1>2. \A i \in DOMAIN FindFiles(d) :
        Become[FindFiles(d)[i]][v] \in Resources \cup {Broken, Invalid}
  BY <1>1, DirectoryTable
<1>3. DOMAIN FindFiles(d) = 1 .. Len(FindFiles(d)) /\ Len(FindFiles(d)) \in Nat
  BY <1>1
<1> QED BY <1>2, <1>3 DEF Plan

(* Without a template that is broken, it is one that can be stored. *)
LEMMA StoredPlan ==
  ASSUME NEW d \in Dirs, NEW v \in Variables, Broken \notin Elements(Plan(d, v))
  PROVE  Plan(d, v) \in Seq(Resources \cup {Invalid})
<1> DEFINE p == Plan(d, v)
<1>1. p \in Seq(Resources \cup {Broken, Invalid})
  BY PlanType
<1>2. \A i \in 1 .. Len(p) : p[i] \in Resources \cup {Invalid}
  BY <1>1 DEF Elements
<1> QED BY <1>1, <1>2

(* Appending adds one element. *)
LEMMA Appended ==
  ASSUME NEW S, NEW s \in Seq(S), NEW x \in S
  PROVE  /\ Append(s, x) \in Seq(S)
         /\ Len(Append(s, x)) = Len(s) + 1
         /\ Elements(Append(s, x)) = Elements(s) \cup {x}
         /\ \A i \in DOMAIN s : Append(s, x)[i] = s[i]
         /\ Append(s, x)[Len(s) + 1] = x
         /\ DOMAIN Append(s, x) = 1 .. Len(s) + 1
         /\ DOMAIN s = 1 .. Len(s)
BY DEF Elements

(* The empty sequence has no element. *)
LEMMA Nothing == Len(<<>>) = 0 /\ DOMAIN <<>> = {} /\ Elements(<<>>) = {}
<1>1. Len(<<>>) = 0
  OBVIOUS
<1>2. DOMAIN <<>> = {}
  OBVIOUS
<1> QED BY <1>1, <1>2 DEF Elements

(* What the templates become has a length. *)
LEMMA PlanLength ==
  ASSUME NEW d \in Dirs, NEW v \in Variables
  PROVE  Len(Plan(d, v)) \in Nat
<1> DEFINE S == Resources \cup {Broken, Invalid}
<1>1. Plan(d, v) \in Seq(S)
  BY PlanType
<1> HIDE DEF S
<1> QED BY <1>1

(* The plan of a call under way. *)
LEMMA PlanOfType ==
  ASSUME TypeOK, NEW c \in Callers
  PROVE  /\ PlanOf(c) \in Seq(Resources \cup {Broken, Invalid})
         /\ Len(PlanOf(c)) \in Nat
<1>1. dir[c] \in Dirs /\ var[c] \in Variables
  BY DEF TypeOK
<1> QED BY <1>1, PlanType, PlanLength DEF PlanOf

(* No call has been made: the invariant holds. *)
LEMMA Initially == Init => IInv
<1> SUFFICES ASSUME Init PROVE IInv
  OBVIOUS
<1>1. TypeOK
  <2>1. (CHOOSE d \in Dirs : TRUE) \in Dirs /\ (CHOOSE v \in Variables : TRUE) \in Variables
    BY DirectoryTable
  <2> QED BY <2>1, DirectoryTable DEF Init, TypeOK
<1>2. \A c \in Callers : made[c] = <<>> /\ pc[c] = "idle" /\ result[c] = "none"
  BY DEF Init
<1>3. \A c \in Callers : Len(made[c]) = 0 /\ DOMAIN made[c] = {} /\ Elements(made[c]) = {}
  BY <1>2, Nothing
<1>4. AppliesInOrder
  <2>1. \A c \in Callers : Len(PlanOf(c)) \in Nat
    BY <1>1, PlanOfType
  <2>2. ASSUME NEW c \in Callers PROVE Len(made[c]) <= Len(PlanOf(c))
    <3>1. Len(made[c]) = 0
      BY <1>3
    <3>2. Len(PlanOf(c)) \in Nat
      BY <2>1
    <3> QED BY <3>1, <3>2
  <2>3. \A c \in Callers : \A i \in DOMAIN made[c] : made[c][i] = PlanOf(c)[i]
    BY <1>3, Zenon
  <2> QED BY <2>2, <2>3, Zenon DEF AppliesInOrder
<1>5. OneCreator
  BY <1>3 DEF OneCreator
<1> QED
  BY <1>1, <1>2, <1>3, <1>4, <1>5 DEF IInv, Created, AllSubstituteFirst, OkMeansApplied

-----------------------------------------------------------------------------
(* The invariant, caller by caller. *)

CallInv(c) ==
  /\ Elements(made[c]) \subseteq cluster \cup deleted
  /\ pc[c] = "substitute" => made[c] = <<>>
  /\ pc[c] # "idle" => result[c] # ""
  /\ pc[c] = "create" =>
       /\ ~dryrun /\ dir[c] \in Inside
       /\ texts[c] = PlanOf(c) /\ Broken \notin Elements(PlanOf(c))
       /\ Len(made[c]) = next[c] - 1
  /\ made[c] # <<>> =>
       ~dryrun /\ dir[c] \in Inside /\ Broken \notin Elements(PlanOf(c))
  /\ Len(made[c]) <= Len(PlanOf(c))
  /\ \A i \in DOMAIN made[c] : made[c][i] = PlanOf(c)[i]
  /\ result[c] = "" /\ ~dryrun => made[c] = PlanOf(c)

(* The invariant is that of each caller, and OneCreator between them. *)
LEMMA Callwise == IInv <=> TypeOK /\ (\A c \in Callers : CallInv(c)) /\ OneCreator
<1>1. ASSUME IInv PROVE \A c \in Callers : CallInv(c)
  BY <1>1 DEF IInv, CallInv, Created, AllSubstituteFirst, AppliesInOrder, OkMeansApplied
<1>2. ASSUME \A c \in Callers : CallInv(c)
      PROVE  Created /\ AllSubstituteFirst /\ AppliesInOrder
  BY <1>2 DEF CallInv, Created, AllSubstituteFirst, AppliesInOrder
<1>3. ASSUME \A c \in Callers : CallInv(c) PROVE OkMeansApplied
  <2> SUFFICES ASSUME NEW c \in Callers, result[c] = "", ~dryrun
               PROVE  /\ made[c] = PlanOf(c)
                      /\ \A i \in DOMAIN made[c] : made[c][i] \in cluster \cup deleted
    BY DEF OkMeansApplied
  <2>1. made[c] = PlanOf(c) /\ Elements(made[c]) \subseteq cluster \cup deleted
    BY <1>3 DEF CallInv
  <2> QED BY <2>1 DEF Elements
<1> QED BY <1>1, <1>2, <1>3 DEF IInv

(* The same of the next state. *)
LEMMA CallwiseNext ==
  TypeOK' /\ (\A c \in Callers : CallInv(c)') /\ OneCreator' => IInv'
<1> SUFFICES ASSUME TypeOK', \A c \in Callers : CallInv(c)', OneCreator'
             PROVE  IInv'
  OBVIOUS
<1>1. Created' /\ AllSubstituteFirst' /\ AppliesInOrder'
  BY DEF CallInv, Created, AllSubstituteFirst, AppliesInOrder
<1>2. OkMeansApplied'
  <2> SUFFICES ASSUME NEW c \in Callers, result'[c] = "", ~dryrun'
               PROVE  /\ made'[c] = PlanOf(c)'
                      /\ \A i \in DOMAIN made'[c] : made'[c][i] \in cluster' \cup deleted'
    BY DEF OkMeansApplied
  <2>1. made'[c] = PlanOf(c)' /\ (Elements(made[c]))' \subseteq cluster' \cup deleted'
    BY DEF CallInv
  <2> QED BY <2>1 DEF Elements
<1> QED BY <1>1, <1>2 DEF IInv

(* The plan follows the directory and the variables. *)
LEMMA SamePlan ==
  ASSUME NEW c \in Callers, dir'[c] = dir[c], var'[c] = var[c]
  PROVE  PlanOf(c)' = PlanOf(c)
BY DEF PlanOf

(* What other goroutines do leaves a call as it is. *)
LEMMA Untouched ==
  ASSUME NEW c \in Callers, CallInv(c),
         pc'[c] = pc[c], dir'[c] = dir[c], var'[c] = var[c],
         texts'[c] = texts[c], next'[c] = next[c],
         result'[c] = result[c], made'[c] = made[c], dryrun' = dryrun,
         cluster \cup deleted \subseteq cluster' \cup deleted'
  PROVE  CallInv(c)'
<1>1. PlanOf(c)' = PlanOf(c)
  BY SamePlan
<1>2. (Elements(made[c]))' = Elements(made[c])
  BY DEF Elements
<1>3. (Elements(PlanOf(c)))' = Elements(PlanOf(c))
  BY <1>1 DEF Elements
<1> QED BY <1>1, <1>2, <1>3 DEF CallInv

(* Steps that do not create: OneCreator is about what was created. *)
LEMMA SameCreators ==
  ASSUME OneCreator, deleted \subseteq deleted',
         \A d \in Callers : made'[d] = made[d] \/ made'[d] = <<>>
  PROVE  OneCreator'
<1>1. \A d \in Callers : (Elements(made[d]))' \subseteq Elements(made[d])
  BY Nothing DEF Elements
<1> QED BY <1>1 DEF OneCreator

-----------------------------------------------------------------------------
(* Every action preserves the invariant. *)

(* A call begins: it has created nothing. *)
LEMMA OnCall ==
  ASSUME IInv, NEW c \in Callers, Call(c) PROVE IInv'
<1>1. TypeOK /\ (\A d \in Callers : CallInv(d)) /\ OneCreator
  BY Callwise
<1>2. PICK e \in Dirs : dir' = [dir EXCEPT ![c] = e]
  BY DEF Call
<1>3. PICK v \in Variables : var' = [var EXCEPT ![c] = v]
  BY DEF Call
<1>4. TypeOK'
  <2>1. made' \in [Callers -> Seq(Resources)]
    <3>1. <<>> \in Seq(Resources)
      OBVIOUS
    <3> QED BY <1>1, <3>1 DEF Call, TypeOK
  <2>2. dir' \in [Callers -> Dirs] /\ var' \in [Callers -> Variables]
    BY <1>1, <1>2, <1>3 DEF TypeOK
  <2>3. /\ pc' \in [Callers -> {"idle", "substitute", "create"}]
        /\ result' \in [Callers -> {"none", "", "error"}]
        /\ \A d \in Callers : pc'[d] = "create" => pc[d] = "create"
    BY <1>1 DEF Call, Goto, TypeOK
  <2>4. calls' \in 0 .. MaxCalls
    <3>1. calls \in 0 .. MaxCalls /\ calls < MaxCalls /\ calls' = calls + 1
      BY <1>1 DEF Call, TypeOK
    <3>2. MaxCalls \in Nat
      BY DirectoryTable
    <3> QED BY <3>1, <3>2
  <2> QED BY <1>1, <2>1, <2>2, <2>3, <2>4 DEF Call, TypeOK
<1>5. CallInv(c)'
  <2>1. pc'[c] = "substitute" /\ made'[c] = <<>> /\ result'[c] = "none"
    BY <1>1 DEF Call, Goto, TypeOK
  <2>2. Len(PlanOf(c)') \in Nat
    <3>1. dir'[c] = e /\ var'[c] = v
      BY <1>1, <1>2, <1>3 DEF TypeOK
    <3>2. Len(Plan(e, v)) \in Nat
      BY PlanLength
    <3> QED BY <3>1, <3>2 DEF PlanOf
  <2>3. (Elements(made[c]))' = {} /\ Len(made'[c]) = 0 /\ DOMAIN made'[c] = {}
    BY <2>1, Nothing DEF Elements
  <2>4. Len(made'[c]) <= Len(PlanOf(c)')
    BY <2>2, <2>3
  <2> QED BY <2>1, <2>3, <2>4, Zenon DEF CallInv
<1>6. ASSUME NEW d \in Callers, d # c PROVE CallInv(d)'
  <2>1. CallInv(d)
    BY <1>1
  <2> QED BY <1>1, <1>2, <1>3, <1>6, <2>1, Untouched DEF Call, Goto, TypeOK
<1>7. OneCreator'
  <2>1. \A d \in Callers : made'[d] = made[d] \/ made'[d] = <<>>
    BY <1>1 DEF Call, TypeOK
  <2> QED BY <1>1, <2>1, SameCreators DEF Call
<1> QED
  <2>1. \A d \in Callers : CallInv(d)'
    BY <1>5, <1>6
  <2> QED BY <1>4, <1>7, <2>1, CallwiseNext

(* All templates are substituted; nothing has been created before. *)
LEMMA OnSubstitute ==
  ASSUME IInv, NEW c \in Callers, Substitute(c) PROVE IInv'
<1>1. TypeOK /\ (\A d \in Callers : CallInv(d)) /\ OneCreator
  BY Callwise
<1>2. PlanOf(c) \in Seq(Resources \cup {Invalid})
  BY <1>1, StoredPlan DEF Substitute, PlanOf, TypeOK
<1>3. Len(PlanOf(c)) \in Nat
  BY <1>1, PlanOfType
<1>4. texts'[c] = PlanOf(c) /\ next'[c] = 1
  BY <1>1 DEF Substitute, TypeOK
<1>5. TypeOK'
  <2>1. texts' \in [Callers -> Seq(Resources \cup {Invalid})]
    BY <1>1, <1>2 DEF Substitute, TypeOK
  <2>2. next' \in [Callers -> Nat \ {0}]
    <3>1. 1 \in Nat \ {0}
      OBVIOUS
    <3>2. next \in [Callers -> Nat \ {0}]
      BY <1>1 DEF TypeOK
    <3> QED BY <3>1, <3>2, Zenon DEF Substitute
  <2>3. /\ pc' \in [Callers -> {"idle", "substitute", "create"}]
        /\ result' \in [Callers -> {"none", "", "error"}]
    BY <1>1 DEF Substitute, Return, Goto, TypeOK
  <2>4. ASSUME NEW d \in Callers, pc'[d] = "create"
        PROVE  next'[d] \in 1 .. Len(texts'[d]) + 1
    <3>1. CASE d = c
      <4>1. next'[d] = 1 /\ Len(texts'[d]) \in Nat
        BY <1>3, <1>4, <3>1
      <4> QED BY <4>1
    <3>2. CASE d # c
      BY <1>1, <2>4, <3>2 DEF Substitute, Return, Goto, TypeOK
    <3> QED BY <3>1, <3>2
  <2> QED BY <1>1, <2>1, <2>2, <2>3, <2>4 DEF Substitute, TypeOK
<1>6. CallInv(c)'
  <2>1. made'[c] = <<>> /\ PlanOf(c)' = PlanOf(c)
    BY <1>1, SamePlan DEF Substitute, CallInv
  <2>2. (Elements(made[c]))' = {} /\ Len(made'[c]) = 0 /\ DOMAIN made'[c] = {}
    BY <2>1, Nothing DEF Elements
  <2>3. Len(made'[c]) <= Len(PlanOf(c)')
    BY <1>3, <2>1, <2>2
  <2>4. (Elements(PlanOf(c)))' = Elements(PlanOf(c))
    BY <2>1 DEF Elements
  <2>5. Broken \notin Elements(PlanOf(c)) /\ dir'[c] \in Inside /\ dryrun' = dryrun
    BY DEF Substitute
  <2>6. CASE dryrun
    <3>1. pc'[c] = "idle"
      BY <1>1, <2>6 DEF Substitute, Return, Goto, TypeOK
    <3> QED BY <2>1, <2>2, <2>3, <2>5, <2>6, <3>1 DEF CallInv
  <2>7. CASE ~dryrun
    <3>1. pc'[c] = "create" /\ result'[c] # ""
      BY <1>1, <2>7 DEF Substitute, Goto, TypeOK, CallInv
    <3>2. Len(made'[c]) = next'[c] - 1
      BY <1>4, <2>2
    <3>3. texts'[c] = PlanOf(c)'
      BY <1>4, <2>1
    <3>4. Broken \notin (Elements(PlanOf(c)))'
      BY <2>4, <2>5
    <3>5. (Elements(made[c]))' \subseteq (cluster \cup deleted)'
      BY <2>2
    <3>6. \A i \in DOMAIN made'[c] : made'[c][i] = PlanOf(c)'[i]
      BY <2>2
    <3>7. ~dryrun'
      BY <2>5, <2>7
    <3> QED BY <2>1, <2>3, <2>5, <3>1, <3>2, <3>3, <3>4, <3>5, <3>6, <3>7, Zenon DEF CallInv
  <2> QED BY <2>6, <2>7
<1>7. ASSUME NEW d \in Callers, d # c PROVE CallInv(d)'
  <2>1. CallInv(d)
    BY <1>1
  <2> QED BY <1>1, <1>7, <2>1, Untouched DEF Substitute, Return, Goto, TypeOK
<1>8. OneCreator'
  BY <1>1, SameCreators DEF Substitute
<1> QED
  <2>1. \A d \in Callers : CallInv(d)'
    BY <1>6, <1>7
  <2> QED BY <1>5, <1>8, <2>1, CallwiseNext

(* The call ends before anything is created. *)
LEMMA OnSubstituteFails ==
  ASSUME IInv, NEW c \in Callers, SubstituteFails(c) PROVE IInv'
<1>1. TypeOK /\ (\A d \in Callers : CallInv(d)) /\ OneCreator
  BY Callwise
<1>2. /\ pc'[c] = "idle" /\ result'[c] = "error"
      /\ \A d \in Callers : d # c => pc'[d] = pc[d] /\ result'[d] = result[d]
  BY <1>1 DEF SubstituteFails, Return, Goto, TypeOK
<1>3. UNCHANGED <<dryrun, cluster, dir, var, texts, next, calls, made, deleted>>
  BY DEF SubstituteFails
<1>4. TypeOK'
  BY <1>1, <1>2, <1>3 DEF SubstituteFails, Return, Goto, TypeOK
<1>5. CallInv(c)'
  <2>1. PlanOf(c)' = PlanOf(c)
    BY <1>3, SamePlan
  <2>2. /\ (Elements(made[c]))' = Elements(made[c])
        /\ (Elements(PlanOf(c)))' = Elements(PlanOf(c))
    BY <1>3, <2>1 DEF Elements
  <2> QED BY <1>1, <1>2, <1>3, <2>1, <2>2 DEF CallInv
<1>6. ASSUME NEW d \in Callers, d # c PROVE CallInv(d)'
  <2>1. CallInv(d)
    BY <1>1
  <2> QED BY <1>2, <1>3, <1>6, <2>1, Untouched
<1>7. OneCreator'
  BY <1>1, <1>3, SameCreators
<1> QED
  <2>1. \A d \in Callers : CallInv(d)'
    BY <1>5, <1>6
  <2> QED BY <1>4, <1>7, <2>1, CallwiseNext

(* The call is past the last text: it has created them all. *)
LEMMA OnFinish ==
  ASSUME IInv, NEW c \in Callers, Finish(c) PROVE IInv'
<1>1. TypeOK /\ (\A d \in Callers : CallInv(d)) /\ OneCreator
  BY Callwise
<1>2. /\ pc'[c] = "idle" /\ result'[c] = ""
      /\ \A d \in Callers : d # c => pc'[d] = pc[d] /\ result'[d] = result[d]
  BY <1>1 DEF Finish, Return, Goto, TypeOK
<1>3. UNCHANGED <<dryrun, cluster, dir, var, texts, next, calls, made, deleted>>
  BY DEF Finish
<1>4. TypeOK'
  BY <1>1, <1>2, <1>3 DEF Finish, Return, Goto, TypeOK
<1>5. CallInv(c)'
  <2>1. PlanOf(c)' = PlanOf(c)
    BY <1>3, SamePlan
  <2>2. /\ (Elements(made[c]))' = Elements(made[c])
        /\ (Elements(PlanOf(c)))' = Elements(PlanOf(c))
    BY <1>3, <2>1 DEF Elements
  <2>3. made[c] = PlanOf(c)
    <3>1. made[c] \in Seq(Resources) /\ PlanOf(c) \in Seq(Resources \cup {Broken, Invalid})
      BY <1>1, PlanOfType DEF TypeOK
    <3>2. /\ texts[c] = PlanOf(c) /\ Len(made[c]) = next[c] - 1
          /\ \A i \in DOMAIN made[c] : made[c][i] = PlanOf(c)[i]
          /\ next[c] > Len(texts[c]) /\ next[c] \in 1 .. Len(texts[c]) + 1
      BY <1>1 DEF Finish, CallInv, TypeOK
    <3>3. Len(PlanOf(c)) \in Nat
      BY <1>1, PlanOfType
    <3>4. Len(made[c]) = Len(PlanOf(c))
      BY <3>2, <3>3
    <3>5. DOMAIN made[c] = 1 .. Len(made[c]) /\ DOMAIN PlanOf(c) = 1 .. Len(PlanOf(c))
      BY <3>1
    <3>6. made[c] = [i \in DOMAIN made[c] |-> made[c][i]]
      BY <3>1
    <3>7. PlanOf(c) = [i \in DOMAIN PlanOf(c) |-> PlanOf(c)[i]]
      BY DEF PlanOf, Plan
    <3> QED BY <3>2, <3>4, <3>5, <3>6, <3>7
  <2>4. ~dryrun /\ dir[c] \in Inside /\ Broken \notin Elements(PlanOf(c))
    BY <1>1 DEF CallInv, Finish
  <2>5. /\ Elements(made[c]) \subseteq cluster \cup deleted
        /\ Len(made[c]) <= Len(PlanOf(c))
        /\ \A i \in DOMAIN made[c] : made[c][i] = PlanOf(c)[i]
    BY <1>1 DEF CallInv
  <2>6. "idle" # "substitute" /\ "idle" # "create"
    OBVIOUS
  <2> QED BY <1>2, <1>3, <2>1, <2>2, <2>3, <2>4, <2>5, <2>6, Zenon DEF CallInv
<1>6. ASSUME NEW d \in Callers, d # c PROVE CallInv(d)'
  <2>1. CallInv(d)
    BY <1>1
  <2> QED BY <1>2, <1>3, <1>6, <2>1, Untouched
<1>7. OneCreator'
  BY <1>1, <1>3, SameCreators
<1> QED
  <2>1. \A d \in Callers : CallInv(d)'
    BY <1>5, <1>6
  <2> QED BY <1>4, <1>7, <2>1, CallwiseNext
(* One more resource, by c: it is the next of its plan, and no other call    *)
(* has created it unless it was deleted, for what was created is there.      *)
LEMMA OnAdded ==
  ASSUME IInv, NEW c \in Callers, AtText(c), Added(c),
         UNCHANGED <<dryrun, dir, var, texts, calls, deleted>>
  PROVE  /\ made' \in [Callers -> Seq(Resources)] /\ cluster' \subseteq Resources
         /\ Len(made'[c]) = next[c]
         /\ Len(made'[c]) <= Len(PlanOf(c))
         /\ \A i \in DOMAIN made'[c] : made'[c][i] = PlanOf(c)[i]
         /\ (Elements(made[c]))' \subseteq cluster' \cup deleted'
         /\ cluster \cup deleted \subseteq cluster' \cup deleted'
         /\ \A d \in Callers \ {c} : made'[d] = made[d]
         /\ OneCreator'
<1>1. TypeOK /\ (\A d \in Callers : CallInv(d)) /\ OneCreator
  BY Callwise
<1> DEFINE r == Text(c)
<1>2. r \in Resources /\ r \notin cluster /\ cluster' = cluster \cup {r}
  BY DEF Added
<1>3. /\ made' = [made EXCEPT ![c] = Append(made[c], r)]
      /\ made \in [Callers -> Seq(Resources)]
  BY <1>1 DEF Added, TypeOK
<1>4. made[c] \in Seq(Resources)
  BY <1>3
<1>5. made'[c] = Append(made[c], r) /\ \A d \in Callers \ {c} : made'[d] = made[d]
  BY <1>3
<1>6. /\ Append(made[c], r) \in Seq(Resources)
      /\ Len(made'[c]) = Len(made[c]) + 1
      /\ Elements(made'[c]) = Elements(made[c]) \cup {r}
      /\ \A i \in DOMAIN made[c] : made'[c][i] = made[c][i]
      /\ made'[c][Len(made[c]) + 1] = r
      /\ DOMAIN made'[c] = 1 .. Len(made[c]) + 1
      /\ DOMAIN made[c] = 1 .. Len(made[c])
  BY <1>2, <1>4, <1>5, Appended
<1>7. /\ texts[c] = PlanOf(c)
      /\ Len(made[c]) = next[c] - 1
      /\ next[c] <= Len(PlanOf(c))
      /\ next[c] \in Nat \ {0}
      /\ \A i \in DOMAIN made[c] : made[c][i] = PlanOf(c)[i]
      /\ Elements(made[c]) \subseteq cluster \cup deleted
  BY <1>1 DEF AtText, CallInv, TypeOK
<1>8. made' \in [Callers -> Seq(Resources)]
  BY <1>3, <1>6
<1>9. Len(made'[c]) = next[c] /\ Len(made[c]) + 1 = next[c]
  BY <1>6, <1>7
<1>10. \A i \in DOMAIN made'[c] : made'[c][i] = PlanOf(c)[i]
  <2>1. r = PlanOf(c)[next[c]]
    BY <1>7 DEF Text
  <2> SUFFICES ASSUME NEW i \in 1 .. next[c] PROVE made'[c][i] = PlanOf(c)[i]
    BY <1>6, <1>9
  <2>2. CASE i = next[c]
    BY <1>6, <1>9, <2>1, <2>2
  <2>3. CASE i # next[c]
    <3>1. i \in DOMAIN made[c]
      BY <1>6, <1>7, <2>3
    <3> QED BY <1>6, <1>7, <3>1
  <2> QED BY <2>2, <2>3
<1>11. (Elements(made[c]))' = Elements(made[c]) \cup {r}
  BY <1>6 DEF Elements
<1>12. \A d \in Callers \ {c} : (Elements(made[d]))' = Elements(made[d])
  BY <1>5 DEF Elements
<1>13. OneCreator'
  <2>1. ASSUME NEW d \in Callers, d # c
        PROVE  (Elements(made[c]))' \cap (Elements(made[d]))' \subseteq deleted'
    <3>1. Elements(made[c]) \cap Elements(made[d]) \subseteq deleted
      BY <1>1, <2>1 DEF OneCreator
    <3>2. Elements(made[d]) \subseteq cluster \cup deleted
      BY <1>1 DEF CallInv
    <3> QED BY <1>2, <1>11, <1>12, <2>1, <3>1, <3>2
  <2>2. ASSUME NEW d \in Callers, NEW e \in Callers, d # e, d # c, e # c
        PROVE  (Elements(made[d]))' \cap (Elements(made[e]))' \subseteq deleted'
    BY <1>1, <1>12, <2>2 DEF OneCreator
  <2> QED BY <2>1, <2>2 DEF OneCreator
<1> QED
  <2>1. cluster' \subseteq Resources
    BY <1>1, <1>2 DEF TypeOK
  <2> QED BY <1>2, <1>5, <1>7, <1>8, <1>9, <1>10, <1>11, <1>13, <2>1

(* A resource is created, and the next text is up. *)
LEMMA OnCreate ==
  ASSUME IInv, NEW c \in Callers, Create(c) PROVE IInv'
<1>1. TypeOK /\ (\A d \in Callers : CallInv(d)) /\ OneCreator
  BY Callwise
<1>2. AtText(c) /\ Added(c) /\ UNCHANGED <<dryrun, pc, dir, var, texts, result, calls, deleted>>
  BY DEF Create
<1>3. /\ made' \in [Callers -> Seq(Resources)] /\ cluster' \subseteq Resources
      /\ Len(made'[c]) = next[c]
      /\ Len(made'[c]) <= Len(PlanOf(c))
      /\ \A i \in DOMAIN made'[c] : made'[c][i] = PlanOf(c)[i]
      /\ (Elements(made[c]))' \subseteq cluster' \cup deleted'
      /\ cluster \cup deleted \subseteq cluster' \cup deleted'
      /\ \A d \in Callers \ {c} : made'[d] = made[d]
      /\ OneCreator'
  BY <1>2, OnAdded
<1>4. /\ next' \in [Callers -> Nat \ {0}]
      /\ next'[c] = next[c] + 1
      /\ \A d \in Callers \ {c} : next'[d] = next[d]
  <2>1. next \in [Callers -> Nat \ {0}] /\ next' = [next EXCEPT ![c] = next[c] + 1]
    BY <1>1 DEF Create, TypeOK
  <2>2. next[c] + 1 \in Nat \ {0}
    BY <2>1
  <2> QED BY <2>1, <2>2
<1>5. TypeOK'
  <2>1. ASSUME NEW d \in Callers, pc'[d] = "create"
        PROVE  next'[d] \in 1 .. Len(texts'[d]) + 1
    <3>1. CASE d = c
      <4>1. next[c] \in 1 .. Len(texts[c]) + 1 /\ next[c] <= Len(texts[c])
        BY <1>1, <1>2 DEF AtText, TypeOK
      <4>2. Len(texts[c]) \in Nat
        BY <1>1, <1>2, PlanOfType DEF AtText, CallInv
      <4>3. next[c] + 1 \in 1 .. Len(texts[c]) + 1
        BY <4>1, <4>2
      <4> QED BY <1>2, <1>4, <3>1, <4>3
    <3>2. CASE d # c
      BY <1>1, <1>2, <1>4, <2>1, <3>2 DEF TypeOK
    <3> QED BY <3>1, <3>2
  <2> QED BY <1>1, <1>2, <1>3, <1>4, <2>1 DEF TypeOK
<1>6. CallInv(c)'
  <2>1. PlanOf(c)' = PlanOf(c)
    BY <1>2, SamePlan
  <2>2. (Elements(PlanOf(c)))' = Elements(PlanOf(c))
    BY <2>1 DEF Elements
  <2>3. /\ pc[c] = "create" /\ result[c] # "" /\ ~dryrun /\ dir[c] \in Inside
        /\ texts[c] = PlanOf(c) /\ Broken \notin Elements(PlanOf(c))
    BY <1>1, <1>2 DEF AtText, CallInv
  <2>4. Len(made'[c]) = next'[c] - 1
    <3>1. next[c] \in Nat
      BY <1>1 DEF TypeOK
    <3> QED BY <1>3, <1>4, <3>1
  <2>5. "create" # "substitute"
    OBVIOUS
  <2> QED BY <1>2, <1>3, <2>1, <2>2, <2>3, <2>4, <2>5, Zenon DEF CallInv
<1>7. ASSUME NEW d \in Callers, d # c PROVE CallInv(d)'
  <2>1. CallInv(d)
    BY <1>1
  <2> QED BY <1>2, <1>3, <1>4, <1>7, <2>1, Untouched
<1> QED
  <2>1. \A d \in Callers : CallInv(d)'
    BY <1>6, <1>7
  <2> QED BY <1>3, <1>5, <2>1, CallwiseNext

(* The call ends in an error, whether its last request took effect or not. *)
LEMMA OnCreateFails ==
  ASSUME IInv, NEW c \in Callers, CreateFails(c) PROVE IInv'
<1>1. TypeOK /\ (\A d \in Callers : CallInv(d)) /\ OneCreator
  BY Callwise
<1>2. AtText(c) /\ UNCHANGED <<dryrun, dir, var, texts, next, calls, deleted>>
  BY DEF CreateFails
<1>3. /\ pc'[c] = "idle" /\ result'[c] = "error"
      /\ \A d \in Callers \ {c} : pc'[d] = pc[d] /\ result'[d] = result[d]
      /\ pc' \in [Callers -> {"idle", "substitute", "create"}]
      /\ result' \in [Callers -> {"none", "", "error"}]
  BY <1>1 DEF CreateFails, Return, Goto, TypeOK
<1>4. /\ made' \in [Callers -> Seq(Resources)] /\ cluster' \subseteq Resources
      /\ Len(made'[c]) <= Len(PlanOf(c))
      /\ \A i \in DOMAIN made'[c] : made'[c][i] = PlanOf(c)[i]
      /\ (Elements(made[c]))' \subseteq cluster' \cup deleted'
      /\ cluster \cup deleted \subseteq cluster' \cup deleted'
      /\ \A d \in Callers \ {c} : made'[d] = made[d]
      /\ OneCreator'
  <2>1. CASE Added(c)
    BY <1>2, <2>1, OnAdded
  <2>2. CASE UNCHANGED <<cluster, made>>
    <3>1. (Elements(made[c]))' = Elements(made[c])
      BY <2>2 DEF Elements
    <3>2. OneCreator'
      BY <1>1, <1>2, <2>2, SameCreators
    <3>3. made' \in [Callers -> Seq(Resources)] /\ cluster' \subseteq Resources
      BY <1>1, <2>2 DEF TypeOK
    <3>4. CallInv(c)
      BY <1>1
    <3> QED BY <1>2, <2>2, <3>1, <3>2, <3>3, <3>4, Zenon DEF CallInv
  <2> QED BY <2>1, <2>2 DEF CreateFails
<1>5. TypeOK'
  BY <1>1, <1>2, <1>3, <1>4 DEF TypeOK
<1>6. CallInv(c)'
  <2>1. PlanOf(c)' = PlanOf(c)
    BY <1>2, SamePlan
  <2>2. (Elements(PlanOf(c)))' = Elements(PlanOf(c))
    BY <2>1 DEF Elements
  <2>3. ~dryrun /\ dir[c] \in Inside /\ Broken \notin Elements(PlanOf(c))
    BY <1>1, <1>2 DEF AtText, CallInv
  <2>4. "idle" # "substitute" /\ "idle" # "create" /\ "error" # ""
    OBVIOUS
  <2> QED BY <1>2, <1>3, <1>4, <2>1, <2>2, <2>3, <2>4, Zenon DEF CallInv
<1>7. ASSUME NEW d \in Callers, d # c PROVE CallInv(d)'
  <2>1. CallInv(d)
    BY <1>1
  <2> QED BY <1>2, <1>3, <1>4, <1>7, <2>1, Untouched
<1> QED
  <2>1. \A d \in Callers : CallInv(d)'
    BY <1>6, <1>7
  <2> QED BY <1>4, <1>5, <2>1, CallwiseNext

(* Others create and delete: what calls have created goes by deletion only. *)
LEMMA OnOthers ==
  ASSUME IInv, OthersCreate \/ OthersDelete PROVE IInv'
<1>1. TypeOK /\ (\A d \in Callers : CallInv(d)) /\ OneCreator
  BY Callwise
<1>2. UNCHANGED <<dryrun, callVars, calls>>
  BY DEF OthersCreate, OthersDelete
<1>3. /\ cluster' \subseteq Resources /\ deleted' \subseteq Resources
      /\ deleted \subseteq deleted'
      /\ cluster \cup deleted \subseteq cluster' \cup deleted'
  BY <1>1 DEF OthersCreate, OthersDelete, TypeOK
<1>4. TypeOK'
  BY <1>1, <1>2, <1>3 DEF TypeOK, callVars
<1>5. ASSUME NEW d \in Callers PROVE CallInv(d)'
  <2>1. CallInv(d)
    BY <1>1
  <2> QED BY <1>2, <1>3, <2>1, Untouched DEF callVars
<1>6. OneCreator'
  BY <1>1, <1>2, <1>3, SameCreators DEF callVars
<1> QED BY <1>4, <1>5, <1>6, CallwiseNext

(* A step that changes nothing. *)
LEMMA OnStutter ==
  ASSUME IInv, UNCHANGED vars PROVE IInv'
<1>1. TypeOK /\ (\A d \in Callers : CallInv(d)) /\ OneCreator
  BY Callwise
<1>2. TypeOK'
  BY <1>1 DEF TypeOK, vars, callVars
<1>3. ASSUME NEW d \in Callers PROVE CallInv(d)'
  <2>1. CallInv(d)
    BY <1>1
  <2> QED BY <2>1, Untouched DEF vars, callVars
<1>4. OneCreator'
  BY <1>1, SameCreators DEF vars, callVars
<1> QED BY <1>2, <1>3, <1>4, CallwiseNext

-----------------------------------------------------------------------------
(* The theorems. *)

(* The invariant always holds. *)
THEOREM Invariance == Spec => []IInv
<1>1. ASSUME IInv, [Next]_vars PROVE IInv'
  <2>1. ASSUME NEW c \in Callers, CallerStep(c) PROVE IInv'
    BY <1>1, <2>1, OnCall, OnSubstitute, OnSubstituteFails, OnCreate,
       OnCreateFails, OnFinish DEF CallerStep
  <2>2. CASE OthersCreate \/ OthersDelete
    BY <1>1, <2>2, OnOthers
  <2>3. CASE UNCHANGED vars
    BY <1>1, <2>3, OnStutter
  <2> QED BY <1>1, <2>1, <2>2, <2>3 DEF Next
<1> QED BY <1>1, Initially, PTL DEF Spec

(* applyResources creates nothing before every template of the directory    *)
(* has been substituted.                                                     *)
THEOREM SubstituteFirst == Spec => []AllSubstituteFirst
<1>1. IInv => AllSubstituteFirst
  BY DEF IInv
<1> QED BY <1>1, Invariance, PTL

(* applyResources creates what the files of the directory become, in their   *)
(* order, without a gap, also when it ends in an error.                      *)
THEOREM InOrder == Spec => []AppliesInOrder
<1>1. IInv => AppliesInOrder
  BY DEF IInv
<1> QED BY <1>1, Invariance, PTL

(* applyResources returns the empty string only when it has created every    *)
(* resource of the directory itself.                                         *)
THEOREM OkIsApplied == Spec => []OkMeansApplied
<1>1. IInv => OkMeansApplied
  BY DEF IInv
<1> QED BY <1>1, Invariance, PTL

(* No resource is created by two calls, unless it was deleted in between.    *)
THEOREM SingleCreator == Spec => []OneCreator
<1>1. IInv => OneCreator
  BY DEF IInv
<1> QED BY <1>1, Invariance, PTL
=============================================================================
