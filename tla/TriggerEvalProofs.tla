-------------------------- MODULE TriggerEvalProofs --------------------------
(***************************************************************************)
(* Proofs about TriggerEval, for every set of names, every message, every  *)
(* set of functions and every bound: the declarations and the values of    *)
(* the variables agree.                                                    *)
(***************************************************************************)
EXTENDS TriggerEval, Integers, TLAPS

-----------------------------------------------------------------------------
(* Sequences. *)

LEMMA SetAt ==
  ASSUME NEW S, NEW q \in Seq(S), NEW k \in 1 .. Len(q), NEW e \in S
  PROVE  /\ [q EXCEPT ![k] = e] \in Seq(S)
         /\ Len([q EXCEPT ![k] = e]) = Len(q)
         /\ [q EXCEPT ![k] = e][k] = e
         /\ \A j \in 1 .. Len(q) : j # k => [q EXCEPT ![k] = e][j] = q[j]
  OBVIOUS

LEMMA Cut ==
  ASSUME NEW S, NEW q \in Seq(S), NEW k \in 1 .. Len(q)
  PROVE  /\ SubSeq(q, 1, k) \in Seq(S)
         /\ Len(SubSeq(q, 1, k)) = k
         /\ \A j \in 1 .. k : SubSeq(q, 1, k)[j] = q[j]
  OBVIOUS

LEMMA CutAndSet ==
  ASSUME NEW S, NEW q \in Seq(S), NEW k \in 1 .. Len(q), NEW e \in S
  PROVE  LET r == [SubSeq(q, 1, k) EXCEPT ![k] = e]
         IN  /\ r \in Seq(S) /\ Len(r) = k /\ r[k] = e
             /\ \A j \in 1 .. k : j # k => r[j] = q[j]
<1> DEFINE s == SubSeq(q, 1, k)
<1>1. s \in Seq(S) /\ Len(s) = k /\ \A j \in 1 .. k : s[j] = q[j]
  BY Cut
<1> HIDE DEF s
<1>2. k \in 1 .. Len(s)
  BY <1>1
<1>3. /\ [s EXCEPT ![k] = e] \in Seq(S) /\ Len([s EXCEPT ![k] = e]) = k
      /\ [s EXCEPT ![k] = e][k] = e
      /\ \A j \in 1 .. k : j # k => [s EXCEPT ![k] = e][j] = q[j]
  BY <1>1, <1>2, SetAt
<1> QED
  BY <1>3 DEF s

LEMMA Pushed ==
  ASSUME NEW S, NEW q \in Seq(S), NEW e \in S
  PROVE  /\ Append(q, e) \in Seq(S)
         /\ Len(Append(q, e)) = Len(q) + 1
         /\ Append(q, e)[Len(q) + 1] = e
         /\ \A j \in 1 .. Len(q) : Append(q, e)[j] = q[j]
  OBVIOUS

LEMMA Popped ==
  ASSUME NEW S, NEW q \in Seq(S), Len(q) > 1
  PROVE  /\ SubSeq(q, 1, Len(q) - 1) \in Seq(S)
         /\ Len(SubSeq(q, 1, Len(q) - 1)) = Len(q) - 1
         /\ \A j \in 1 .. Len(q) - 1 : SubSeq(q, 1, Len(q) - 1)[j] = q[j]
  OBVIOUS

LEMMA Neighbours ==
  ASSUME NEW k \in Nat, NEW j \in 1 .. k
  PROVE  /\ j \in Int /\ k \in Int
         /\ j > 1 => j - 1 \in 1 .. k
         /\ j # k => j + 1 \in 1 .. k
  OBVIOUS

-----------------------------------------------------------------------------
(* Frames and calls. *)

LEMMA FrameFacts ==
  ASSUME TypeOK, CallsNest, NEW i \in DOMAIN frames
  PROVE  /\ i \in 1 .. Len(frames) /\ frames[i] \in FrameType
         /\ frames[i].env \in [Names -> Kinds \cup {NoKind}]
         /\ frames[i].call \in 1 .. Len(calls)
         /\ calls[frames[i].call] \in CallType
         /\ calls[frames[i].call].vars \in [Names -> Values]
<1>1. /\ frames \in Seq(FrameType) /\ i \in 1 .. Len(frames) /\ Len(frames) \in Nat
      /\ calls \in Seq(CallType)
  BY DEF TypeOK
<1>2. frames[i] \in FrameType /\ frames[Len(frames)].call = Len(calls)
  BY <1>1 DEF TypeOK
<1>3. frames[i].call <= Len(calls)
  <2>1. i <= Len(frames) /\ Len(frames) \in DOMAIN frames
    BY <1>1
  <2> QED
    BY <1>2, <2>1 DEF CallsNest
<1>4. /\ frames[i].env \in [Names -> Kinds \cup {NoKind}]
      /\ frames[i].call \in 1 .. MaxCalls + 1
  BY <1>2 DEF FrameType
<1>5. frames[i].call \in 1 .. Len(calls)
  BY <1>1, <1>3, <1>4, Vocabulary
<1>6. calls[frames[i].call] \in CallType
  BY <1>1, <1>5
<1> QED
  BY <1>1, <1>2, <1>4, <1>5, <1>6 DEF CallType

-----------------------------------------------------------------------------
(* What an expression evaluates to. *)

LEMMA ReadableType ==
  ASSUME TypeOK, NEW i \in DOMAIN frames, NEW c \in DOMAIN calls,
         NEW x \in Readable(frames[i].env, calls[c].vars)
  PROVE  x \in Values /\ x.at <= Len(heap)
<1> DEFINE v == calls[c].vars
<1>1. v \in [Names -> Values] /\ \A n \in Names : v[n].at <= Len(heap)
  <2>1. calls[c] \in CallType
    BY DEF TypeOK
  <2> QED
    BY <2>1 DEF TypeOK, CallType
<1>2. Len(heap) \in Nat /\ MaxMaps \in Nat
  BY Vocabulary DEF TypeOK
<1>3. CASE x \in Literals
  BY <1>2, <1>3 DEF Literals, Val, Values
<1>4. CASE \E n \in Names : x = v[n]
  BY <1>1, <1>4
<1>5. ASSUME NEW n \in Names, v[n].at # 0, NEW f \in Fields, x = heap[v[n].at][f]
      PROVE  x \in Values /\ x.at <= Len(heap)
  <2>1. v[n].at \in 1 .. Len(heap)
    BY <1>1, <1>2, <1>5 DEF Values
  <2>2. v[n].at \in DOMAIN heap /\ heap[v[n].at] \in [Fields -> Values]
    BY <2>1 DEF TypeOK
  <2> QED
    BY <1>5, <2>2 DEF TypeOK
<1> QED
  BY <1>3, <1>4, <1>5 DEF Readable

-----------------------------------------------------------------------------
(* An assignment. *)

(* The environment and the variables after it, name by name. *)
LEMMA StoredFacts ==
  ASSUME TypeOK, CallsNest, DeclaredHasItsKind, SetIsDeclared,
         NEW i \in DOMAIN frames, Innermost(i),
         NEW n \in Names, NEW fd \in Fields \cup {Whole},
         NEW x \in Values, x.at <= Len(heap),
         Storable(frames[i].env, calls[frames[i].call].vars, n, fd, x)
  PROVE  LET c == frames[i].call
             v == calls[c].vars
             e == frames[i].env
             E == Declared(e, v, n, fd, x)
             V == SetVars(v, n, fd, x)
         IN  /\ E \in [Names -> Kinds \cup {NoKind}]
             /\ V \in [Names -> Values]
             /\ \A m \in Names : m # n => E[m] = e[m] /\ V[m] = v[m]
             /\ e[n] # NoKind => E[n] = e[n]
             /\ E[n] # NoKind => V[n].kind = E[n]
             /\ V[n].kind # NoKind
             /\ E[n] # NoKind \/ n \in calls[c].hidden
<1> DEFINE c == frames[i].call
           v == calls[c].vars
           e == frames[i].env
           E == Declared(e, v, n, fd, x)
           V == SetVars(v, n, fd, x)
<1>2. e \in [Names -> Kinds \cup {NoKind}] /\ v \in [Names -> Values]
  BY FrameFacts
<1>3. e[n] # NoKind => v[n].kind = e[n]
  BY DEF DeclaredHasItsKind
<1>4. v[n].kind # NoKind => e[n] # NoKind \/ n \in calls[c].hidden
  BY DEF SetIsDeclared
<1>5. "map" \in Kinds /\ NoKind \notin Kinds
  BY Vocabulary DEF Kinds
<1> HIDE DEF c, v, e
<1>6. CASE fd = Whole
  <2>1. e[n] = NoKind /\ x.kind \in Kinds
    BY <1>6 DEF Storable, c, v, e
  <2>2. E = [e EXCEPT ![n] = x.kind] /\ V = [v EXCEPT ![n] = x]
    BY <1>6 DEF Declared, SetVars
  <2> HIDE DEF E, V
  <2> QED
    BY <1>2, <1>5, <2>1, <2>2 DEF c, v, e, E, V
<1>7. CASE fd # Whole /\ v[n].kind = NoKind
  <2> DEFINE x0 == Val("map", Len(heap) + 1)
  <2>1. e[n] = NoKind /\ Len(heap) < MaxMaps
    BY <1>7 DEF Storable, c, v, e
  <2>2. x0 \in Values /\ x0.kind = "map"
    BY <2>1, <1>5, Vocabulary DEF TypeOK, Val, Values
  <2>3. E = [e EXCEPT ![n] = "map"] /\ V = [v EXCEPT ![n] = x0]
    BY <1>7 DEF Declared, SetVars
  <2> HIDE DEF E, V, x0
  <2> QED
    BY <1>2, <1>5, <2>1, <2>2, <2>3 DEF c, v, e, E, V
<1>8. CASE fd # Whole /\ v[n].kind # NoKind
  <2>1. E = e /\ V = v
    BY <1>8 DEF Declared, SetVars
  <2> HIDE DEF E, V
  <2> QED
    BY <1>2, <1>3, <1>4, <1>8, <2>1 DEF c, v, e, E, V
<1> QED
  BY <1>6, <1>7, <1>8

(* The maps after it. *)
LEMMA HeapFacts ==
  ASSUME TypeOK, CallsNest, NEW i \in DOMAIN frames,
         NEW n \in Names, NEW fd \in Fields \cup {Whole},
         NEW x \in Values, x.at <= Len(heap),
         Storable(frames[i].env, calls[frames[i].call].vars, n, fd, x)
  PROVE  LET v == calls[frames[i].call].vars
             H == SetHeap(v, n, fd, x)
             V == SetVars(v, n, fd, x)
         IN  /\ H \in Seq([Fields -> Values])
             /\ Len(H) \in 1 .. MaxMaps /\ Len(heap) <= Len(H)
             /\ \A k \in DOMAIN H, f \in Fields : H[k][f].at <= Len(H)
             /\ \A m \in Names : V[m].at <= Len(H)
<1> DEFINE v == calls[frames[i].call].vars
           H == SetHeap(v, n, fd, x)
           V == SetVars(v, n, fd, x)
<1>1. /\ heap \in Seq([Fields -> Values]) /\ Len(heap) \in 1 .. MaxMaps
      /\ MaxMaps \in Nat
      /\ \A k \in DOMAIN heap, f \in Fields : heap[k][f].at <= Len(heap)
  BY Vocabulary DEF TypeOK
<1>2. v \in [Names -> Values] /\ \A m \in Names : v[m].at <= Len(heap)
  BY FrameFacts DEF TypeOK
<1>3. \A y \in Values : y.at \in 0 .. MaxMaps
  BY DEF Values
<1> HIDE DEF v
<1>4. CASE fd = Whole
  <2>1. H = heap /\ V = [v EXCEPT ![n] = x]
    BY <1>4 DEF SetHeap, SetVars
  <2> QED
    BY <1>1, <1>2, <1>3, <2>1 DEF v
<1>5. CASE fd # Whole /\ v[n].kind = NoKind
  <2> DEFINE r == [NoFields EXCEPT ![fd] = x]
  <2>1. Len(heap) < MaxMaps
    BY <1>5 DEF Storable, v
  <2>2. H = Append(heap, r) /\ V = [v EXCEPT ![n] = Val("map", Len(heap) + 1)]
    BY <1>5 DEF SetHeap, SetVars
  <2>3. r \in [Fields -> Values] /\ \A f \in Fields : r[f].at <= Len(heap)
    <3>1. Unset \in Values /\ Unset.at = 0
      BY <1>1 DEF Unset, Val, Values
    <3> QED
      BY <1>1, <1>5, <3>1 DEF NoFields
  <2> HIDE DEF r
  <2>4. /\ H \in Seq([Fields -> Values]) /\ Len(H) = Len(heap) + 1
        /\ H[Len(heap) + 1] = r
        /\ \A k \in 1 .. Len(heap) : H[k] = heap[k]
    BY <1>1, <2>2, <2>3, Pushed
  <2>5. ASSUME NEW k \in DOMAIN H, NEW f \in Fields
        PROVE  H[k][f].at <= Len(H)
    <3>1. CASE k = Len(heap) + 1
      <4>1. r[f] \in Values /\ r[f].at <= Len(heap) /\ H[k][f] = r[f]
        BY <2>3, <2>4, <3>1
      <4> QED
        BY <1>1, <1>3, <2>4, <4>1
    <3>2. CASE k \in 1 .. Len(heap)
      <4>1. heap[k][f] \in Values /\ heap[k][f].at <= Len(heap) /\ H[k][f] = heap[k][f]
        BY <1>1, <2>4, <3>2
      <4> QED
        BY <1>1, <1>3, <2>4, <4>1
    <3> QED
      BY <1>1, <2>4, <3>1, <3>2
  <2>6. ASSUME NEW m \in Names
        PROVE  V[m].at <= Len(H)
    <3>1. v[m] \in Values /\ v[m].at <= Len(heap)
      BY <1>2
    <3>2. V[m] = v[m] \/ V[m].at = Len(heap) + 1
      BY <1>2, <2>2 DEF Val
    <3> QED
      BY <1>1, <1>3, <2>4, <3>1, <3>2
  <2> HIDE DEF H, V
  <2> QED
    BY <1>1, <2>1, <2>4, <2>5, <2>6 DEF v, H, V
<1>6. CASE fd # Whole /\ v[n].kind # NoKind
  <2> DEFINE a == v[n].at
  <2>1. a \in 1 .. Len(heap)
    BY <1>1, <1>2, <1>3, <1>6 DEF Storable, v
  <2>2. H = [heap EXCEPT ![a][fd] = x] /\ V = v
    BY <1>6 DEF SetHeap, SetVars
  <2>3. heap[a] \in [Fields -> Values] /\ [heap[a] EXCEPT ![fd] = x] \in [Fields -> Values]
    BY <1>1, <1>6, <2>1
  <2>4. H = [heap EXCEPT ![a] = [heap[a] EXCEPT ![fd] = x]]
    BY <2>2
  <2>5. /\ H \in Seq([Fields -> Values]) /\ Len(H) = Len(heap)
        /\ H[a] = [heap[a] EXCEPT ![fd] = x]
        /\ \A k \in 1 .. Len(heap) : k # a => H[k] = heap[k]
    BY <1>1, <2>1, <2>3, <2>4, SetAt
  <2> HIDE DEF a, H
  <2>6. ASSUME NEW k \in DOMAIN H, NEW f \in Fields
        PROVE  H[k][f].at <= Len(H)
    <3>1. k \in 1 .. Len(heap)
      BY <2>5
    <3>2. heap[k] \in [Fields -> Values] /\ heap[k][f].at <= Len(heap)
      BY <1>1, <3>1
    <3> QED
      BY <2>1, <2>5, <3>1, <3>2
  <2> QED
    BY <1>1, <1>2, <2>2, <2>5, <2>6 DEF v, H
<1> QED
  BY <1>4, <1>5, <1>6

(* An assignment in the innermost body of a call keeps the invariant. *)
LEMMA AssignedKeeps ==
  ASSUME IInv, NEW i \in DOMAIN frames, Innermost(i), frames[i].kind # "switch",
         NEW n \in Names, NEW fd \in Fields \cup {Whole},
         NEW x \in Values, x.at <= Len(heap), Assigned(i, n, fd, x),
         trig' \in 1 .. Triggers, result' \in {"running", "error", "done"},
         steps' \in 0 .. MaxSteps
  PROVE  IInv'
<1> USE DEF IInv
<1> DEFINE c == frames[i].call
           v == calls[c].vars
           e == frames[i].env
           E == Declared(e, v, n, fd, x)
           V == SetVars(v, n, fd, x)
           H == SetHeap(v, n, fd, x)
           F == [frames[i] EXCEPT !.env = E, !.own = frames[i].own \cup {n}]
           C == [calls[c] EXCEPT !.vars = V]
<1>1. Storable(e, v, n, fd, x)
  BY DEF Assigned
<1>2. /\ E \in [Names -> Kinds \cup {NoKind}]
      /\ V \in [Names -> Values]
      /\ \A m \in Names : m # n => E[m] = e[m] /\ V[m] = v[m]
      /\ e[n] # NoKind => E[n] = e[n]
      /\ E[n] # NoKind => V[n].kind = E[n]
      /\ V[n].kind # NoKind
      /\ E[n] # NoKind \/ n \in calls[c].hidden
  BY <1>1, StoredFacts
<1>3. /\ H \in Seq([Fields -> Values])
      /\ Len(H) \in 1 .. MaxMaps /\ Len(heap) <= Len(H)
      /\ \A k \in DOMAIN H, f \in Fields : H[k][f].at <= Len(H)
      /\ \A m \in Names : V[m].at <= Len(H)
  BY <1>1, HeapFacts
<1>4. /\ i \in 1 .. Len(frames) /\ frames[i] \in FrameType
      /\ c \in 1 .. Len(calls) /\ calls[c] \in CallType
      /\ frames \in Seq(FrameType) /\ calls \in Seq(CallType)
  BY FrameFacts DEF TypeOK
<1>5. /\ frames' = [SubSeq(frames, 1, i) EXCEPT ![i] = F]
      /\ calls' = [SubSeq(calls, 1, c) EXCEPT ![c] = C]
      /\ heap' = H
  <2> DEFINE sc == SubSeq(calls, 1, c)
  <2>1. sc[c] = calls[c]
    BY <1>4, Cut
  <2>2. frames' = [SubSeq(frames, 1, i) EXCEPT ![i] = F] /\ heap' = H
    BY Zenon DEF Assigned
  <2>3. calls' = [sc EXCEPT ![c] = [sc[c] EXCEPT !.vars = V]]
    BY Zenon DEF Assigned
  <2> HIDE DEF sc
  <2>4. calls' = [sc EXCEPT ![c] = C]
    BY <2>1, <2>3
  <2> QED
    BY <2>2, <2>4 DEF sc
<1>6. /\ F \in FrameType /\ F.call = c /\ F.env = E /\ F.kind = frames[i].kind
      /\ F.own = frames[i].own \cup {n}
  BY <1>2, <1>4 DEF FrameType
<1>7. /\ C \in CallType /\ C.vars = V /\ C.hidden = calls[c].hidden
      /\ C.fn = calls[c].fn
  BY <1>2, <1>4 DEF CallType
<1> HIDE DEF F, C, E, V, H, v, e, c
<1>8. /\ frames' \in Seq(FrameType) /\ Len(frames') = i /\ frames'[i] = F
      /\ \A j \in 1 .. i : j # i => frames'[j] = frames[j]
  BY <1>4, <1>5, <1>6, CutAndSet
<1>9. /\ calls' \in Seq(CallType) /\ Len(calls') = c /\ calls'[c] = C
      /\ \A j \in 1 .. c : j # c => calls'[j] = calls[j]
  BY <1>4, <1>5, <1>7, CutAndSet
<1>10. TypeOK'
  <2>1. c <= Len(calls) /\ i <= Len(frames) /\ c \in 1 .. MaxCalls + 1 /\ i \in 1 .. MaxFrames
    BY <1>4, Vocabulary DEF TypeOK
  <2>2. ASSUME NEW k \in DOMAIN calls', NEW m \in Names
        PROVE  calls'[k].vars[m].at <= Len(heap')
    <3>1. CASE k = c
      <4>1. calls'[k].vars = V
        BY <1>7, <1>9, <3>1
      <4> QED
        BY <1>3, <1>5, <4>1
    <3>2. CASE k # c
      <4>1. k \in 1 .. c /\ k \in DOMAIN calls /\ calls'[k] = calls[k]
        BY <1>4, <1>9, <3>2
      <4>2. calls[k].vars[m].at <= Len(heap) /\ calls[k].vars[m] \in Values
        <5>1. calls[k] \in CallType
          BY <1>4, <4>1
        <5> QED
          BY <4>1, <5>1 DEF TypeOK, CallType
      <4>3. calls[k].vars[m].at \in Nat /\ Len(heap) \in Nat /\ Len(H) \in Nat
        <5> HIDE DEF IInv
        <5>1. \A w \in Values : w.at \in 0 .. MaxMaps
          BY DEF Values
        <5>2. heap \in Seq([Fields -> Values])
          BY DEF IInv, TypeOK
        <5> QED
          BY <1>3, <4>2, <5>1, <5>2, Vocabulary
      <4> QED
        BY <1>3, <1>5, <4>1, <4>2, <4>3
    <3> QED
      BY <3>1, <3>2
  <2>3. frames'[Len(frames')].call = Len(calls')
    BY <1>6, <1>8, <1>9
  <2>4. heap' \in Seq([Fields -> Values]) /\ Len(heap') \in 1 .. MaxMaps
        /\ \A k \in DOMAIN heap', f \in Fields : heap'[k][f].at <= Len(heap')
    BY <1>3, <1>5
  <2>5. Len(frames') \in 1 .. MaxFrames /\ Len(calls') \in 1 .. MaxCalls + 1
    BY <1>8, <1>9, <2>1
  <2> QED
    BY <1>8, <1>9, <2>2, <2>3, <2>4, <2>5 DEF TypeOK
<1>11. ASSUME NEW j \in DOMAIN frames'
       PROVE  /\ j \in 1 .. i /\ j \in DOMAIN frames /\ i \in Int /\ j \in Int
              /\ frames[j].call \in 1 .. c /\ frames[j].call \in DOMAIN calls'
              /\ frames'[j].call = frames[j].call
              /\ frames'[j].kind = frames[j].kind
              /\ j # i => frames'[j] = frames[j]
  <2>1. j \in 1 .. i /\ j \in DOMAIN frames
    BY <1>4, <1>8
  <2>2. frames[j].call <= c /\ frames[j].call \in 1 .. Len(calls)
    BY <1>4, <2>1, FrameFacts DEF CallsNest, c
  <2> QED
    BY <1>4, <1>6, <1>8, <1>9, <2>1, <2>2 DEF c
<1>12. CallsNest'
  <2>1. ASSUME NEW k \in DOMAIN calls', k > 1
        PROVE  calls'[k].fn \in Functions
    BY <1>4, <1>7, <1>9, <2>1 DEF CallsNest
  <2>2. ASSUME NEW j \in DOMAIN frames', NEW k \in DOMAIN frames', j <= k
        PROVE  frames'[j].call <= frames'[k].call
    BY <1>11, <2>2 DEF CallsNest
  <2>3. ASSUME NEW j \in DOMAIN frames', frames'[j].kind = "switch"
        PROVE  FALSE
    <3>1. j = Len(frames) /\ j # i
      BY <1>11, <2>3 DEF CallsNest
    <3> QED
      BY <1>4, <1>11, <3>1
  <2> QED
    BY <2>1, <2>2, <2>3 DEF CallsNest, Outer
<1>13. EnvsGrow'
  <2>1. ASSUME NEW j \in DOMAIN frames', NEW k \in DOMAIN frames', j <= k,
               frames'[j].call = frames'[k].call, NEW m \in Names,
               frames'[j].env[m] # NoKind
        PROVE  frames'[k].env[m] = frames'[j].env[m]
    <3>1. CASE j = i
      BY <1>11, <2>1, <3>1
    <3>2. CASE j # i
      <4>1. frames[j].env[m] # NoKind /\ frames[k].env[m] = frames[j].env[m]
        BY <1>11, <2>1, <3>2 DEF EnvsGrow
      <4>2. CASE k = i
        <5>1. e[m] = frames[j].env[m] /\ frames'[k].env = E
          BY <1>6, <1>8, <4>1, <4>2 DEF e
        <5>2. E[m] = e[m]
          BY <1>2, <4>1, <5>1
        <5> QED
          BY <1>11, <3>2, <5>1, <5>2
      <4>3. CASE k # i
        BY <1>11, <3>2, <4>1, <4>3
      <4> QED
        BY <4>2, <4>3
    <3> QED
      BY <3>1, <3>2
  <2> QED
    BY <2>1 DEF EnvsGrow
<1>14. GrownByOwn'
  <2>1. ASSUME NEW j \in DOMAIN frames', j > 1, frames'[j - 1].call = frames'[j].call,
               NEW m \in Names, frames'[j].env[m] # NoKind
        PROVE  frames'[j - 1].env[m] # NoKind \/ m \in frames'[j].own
    <3>1. j - 1 \in DOMAIN frames' /\ j - 1 # i /\ frames'[j - 1] = frames[j - 1]
      BY <1>8, <1>11, <2>1
    <3>2. Outer(j)
      BY <1>11, <2>1, <3>1 DEF Outer
    <3>3. CASE j = i
      <4>1. frames'[j].env = E /\ frames'[j].own = frames[j].own \cup {n}
        BY <1>6, <1>8, <3>3
      <4>2. m = n \/ e[m] # NoKind
        BY <1>2, <2>1, <4>1
      <4>3. m \in frames'[j].own \/ frames[j].env[m] # NoKind
        BY <3>3, <4>1, <4>2 DEF e
      <4> QED
        BY <1>11, <3>1, <3>2, <4>1, <4>3 DEF GrownByOwn
    <3>4. CASE j # i
      BY <1>11, <2>1, <3>1, <3>2, <3>4 DEF GrownByOwn
    <3> QED
      BY <3>3, <3>4
  <2> QED
    BY <2>1 DEF GrownByOwn, Outer
<1>15. SetIsDeclared'
  <2>1. ASSUME NEW j \in DOMAIN frames',
               j = Len(frames') \/ frames'[j + 1].call # frames'[j].call,
               NEW m \in Names, calls'[frames'[j].call].vars[m].kind # NoKind
        PROVE  frames'[j].env[m] # NoKind \/ m \in calls'[frames'[j].call].hidden
    <3>1. CASE j = i
      <4>1. /\ frames'[j].env = E /\ calls'[frames'[j].call].vars = V
            /\ calls'[frames'[j].call].hidden = calls[c].hidden
        BY <1>6, <1>7, <1>8, <1>9, <3>1
      <4>2. v[m].kind # NoKind => e[m] # NoKind \/ m \in calls[c].hidden
        BY DEF SetIsDeclared, v, e, c
      <4> QED
        BY <1>2, <2>1, <4>1, <4>2
    <3>2. CASE j # i
      <4>1. j + 1 \in DOMAIN frames' /\ frames'[j + 1].call # frames'[j].call
        BY <1>8, <1>11, <2>1, <3>2
      <4>2. /\ Innermost(j) /\ frames[j].call # c /\ frames'[j] = frames[j]
            /\ calls'[frames[j].call] = calls[frames[j].call]
        <5>1. frames[j + 1].call # frames[j].call
          BY <1>11, <4>1
        <5>2. frames[j].call < frames[j + 1].call /\ frames[j + 1].call <= c
          <6>1. frames[j].call <= frames[j + 1].call
            BY <1>11, <4>1 DEF CallsNest
          <6> QED
            BY <1>11, <4>1, <5>1, <6>1
        <5>3. frames[j].call # c
          BY <1>11, <4>1, <5>2
        <5> QED
          BY <1>9, <1>11, <3>2, <5>1, <5>3 DEF Innermost
      <4> QED
        BY <1>11, <2>1, <4>2 DEF SetIsDeclared
    <3> QED
      BY <3>1, <3>2
  <2> QED
    BY <2>1 DEF SetIsDeclared, Innermost
<1>16. DeclaredHasItsKind'
  <2>1. ASSUME NEW j \in DOMAIN frames', NEW m \in Names, frames'[j].env[m] # NoKind
        PROVE  calls'[frames'[j].call].vars[m].kind = frames'[j].env[m]
    <3>1. e[m] # NoKind => v[m].kind = e[m]
      BY DEF DeclaredHasItsKind, e, v, c
    <3>2. E[m] # NoKind => V[m].kind = E[m]
      BY <1>2, <3>1
    <3>3. CASE j = i
      BY <1>6, <1>7, <1>8, <1>9, <2>1, <3>2, <3>3
    <3>4. CASE j # i /\ frames[j].call = c
      <4>1. frames[j].env[m] # NoKind /\ frames'[j].env = frames[j].env
        BY <1>11, <2>1, <3>4
      <4>2. e[m] = frames[j].env[m]
        BY <1>11, <3>4, <4>1 DEF EnvsGrow, e, c
      <4>3. E[m] = e[m]
        BY <1>2, <4>1, <4>2
      <4> QED
        BY <1>7, <1>9, <1>11, <3>2, <3>4, <4>1, <4>2, <4>3
    <3>5. CASE j # i /\ frames[j].call # c
      BY <1>9, <1>11, <2>1, <3>5 DEF DeclaredHasItsKind
    <3> QED
      BY <3>3, <3>4, <3>5
  <2> QED
    BY <2>1 DEF DeclaredHasItsKind
<1>17. HiddenOnlyByNesting'
  <2>1. ASSUME NEW j \in DOMAIN frames', NEW m \in frames'[j].own
        PROVE  frames'[j].env[m] # NoKind \/ m \in calls'[frames'[j].call].hidden
    <3>1. calls'[frames'[j].call].hidden = calls[frames[j].call].hidden
      BY <1>7, <1>9, <1>11 DEF c
    <3>2. CASE j = i
      <4>1. frames'[j].env = E /\ (m = n \/ m \in frames[i].own) /\ frames[i].own \subseteq Names
        BY <1>4, <1>6, <1>8, <3>2 DEF FrameType
      <4>2. m \in frames[i].own => e[m] # NoKind \/ m \in calls[c].hidden
        BY DEF HiddenOnlyByNesting, e, c
      <4> QED
        BY <1>2, <3>1, <3>2, <4>1, <4>2 DEF c
    <3>3. CASE j # i
      BY <1>11, <2>1, <3>1, <3>3 DEF HiddenOnlyByNesting
    <3> QED
      BY <3>2, <3>3
  <2> QED
    BY <2>1 DEF HiddenOnlyByNesting
<1> QED
  BY <1>10, <1>12, <1>13, <1>14, <1>15, <1>16, <1>17

(* The facts about the innermost frame that every other step starts from. *)
LEMMA TopFacts ==
  ASSUME IInv
  PROVE  LET L == Len(frames)
         IN  /\ L \in 1 .. MaxFrames /\ L \in DOMAIN frames /\ Innermost(L)
             /\ MaxFrames \in Nat /\ frames \in Seq(FrameType)
             /\ frames[L] \in FrameType /\ frames[L].call = Len(calls)
             /\ frames[L].env \in [Names -> Kinds \cup {NoKind}]
             /\ frames[L].own \subseteq Names
             /\ calls \in Seq(CallType) /\ Len(calls) \in 1 .. MaxCalls + 1
             /\ MaxCalls \in Nat
             /\ \A j \in 1 .. L : /\ j \in DOMAIN frames /\ frames[j] \in FrameType
                                 /\ frames[j].call \in 1 .. Len(calls)
<1> USE DEF IInv
<1>1. frames \in Seq(FrameType) /\ Len(frames) \in 1 .. MaxFrames /\ MaxFrames \in Nat
  BY Vocabulary DEF TypeOK
<1>2. \A j \in 1 .. Len(frames) : /\ j \in DOMAIN frames /\ frames[j] \in FrameType
                                 /\ frames[j].call \in 1 .. Len(calls)
  BY <1>1, FrameFacts
<1>3. frames[Len(frames)].own \subseteq Names
  BY <1>1, <1>2 DEF FrameType
<1> QED
  BY <1>1, <1>2, <1>3, FrameFacts, Vocabulary DEF TypeOK, Innermost

(* A nested body or switch starts with the environment of the body it is in. *)
LEMMA OpenKeeps ==
  ASSUME IInv, NEW kind \in {"body", "switch"}, Open(kind)
  PROVE  IInv'
<1> USE DEF IInv
<1> DEFINE L == Len(frames)
           F == Frame(kind, Len(calls), Top.env)
<1>1. /\ L \in 1 .. MaxFrames /\ L \in DOMAIN frames /\ Innermost(L)
      /\ MaxFrames \in Nat /\ frames \in Seq(FrameType)
      /\ frames[L] \in FrameType /\ frames[L].call = Len(calls)
      /\ frames[L].env \in [Names -> Kinds \cup {NoKind}]
      /\ Len(calls) \in 1 .. MaxCalls + 1
      /\ \A j \in 1 .. L : /\ j \in DOMAIN frames /\ frames[j] \in FrameType
                          /\ frames[j].call \in 1 .. Len(calls)
  BY TopFacts
<1>2. /\ F \in FrameType /\ F.call = frames[L].call /\ F.env = frames[L].env
      /\ F.own = {} /\ F.kind = kind
  BY <1>1 DEF Frame, FrameType, Top
<1>3. /\ frames' = Append(frames, F) /\ UNCHANGED <<trig, calls, heap, result>>
      /\ L < MaxFrames /\ frames[L].kind = "body" /\ steps' \in 0 .. MaxSteps
  BY Vocabulary DEF Open, AtElement, In, Top, TypeOK
<1> HIDE DEF F
<1>4. /\ frames' \in Seq(FrameType) /\ Len(frames') = L + 1 /\ frames'[L + 1] = F
      /\ \A j \in 1 .. L : frames'[j] = frames[j]
  BY <1>1, <1>2, <1>3, Pushed
<1>5. ASSUME NEW j \in DOMAIN frames'
      PROVE  /\ j \in 1 .. L + 1 /\ j \in Int /\ L \in Int
             /\ j # L + 1 => j \in 1 .. L /\ j \in DOMAIN frames /\ frames'[j] = frames[j]
             /\ j = L + 1 => frames'[j] = F
  BY <1>1, <1>4
<1>6. TypeOK'
  BY <1>1, <1>2, <1>3, <1>4 DEF TypeOK
<1>7. CallsNest'
  <2>1. ASSUME NEW j \in DOMAIN frames', NEW k \in DOMAIN frames', j <= k
        PROVE  frames'[j].call <= frames'[k].call
    <3>1. CASE k = L + 1
      BY <1>1, <1>2, <1>5, <3>1
    <3>2. CASE k # L + 1
      BY <1>5, <2>1, <3>2 DEF CallsNest
    <3> QED
      BY <3>1, <3>2
  <2>2. ASSUME NEW j \in DOMAIN frames', frames'[j].kind = "switch"
        PROVE  /\ j > 1 /\ frames'[j - 1].call = frames'[j].call
               /\ j = Len(frames') /\ frames'[j].own = {}
    <3>1. j = L + 1
      BY <1>3, <1>5, <2>2 DEF CallsNest
    <3> QED
      BY <1>1, <1>2, <1>4, <1>5, <3>1
  <2> QED
    BY <1>3, <2>1, <2>2 DEF CallsNest, Outer
<1>8. EnvsGrow'
  <2>1. ASSUME NEW j \in DOMAIN frames', NEW k \in DOMAIN frames', j <= k,
               frames'[j].call = frames'[k].call, NEW m \in Names,
               frames'[j].env[m] # NoKind
        PROVE  frames'[k].env[m] = frames'[j].env[m]
    <3>1. CASE j = L + 1
      BY <1>5, <2>1, <3>1
    <3>2. CASE j # L + 1 /\ k = L + 1
      <4>1. j <= L /\ frames[j].call = frames[L].call /\ frames[j].env[m] # NoKind
        BY <1>2, <1>5, <2>1, <3>2
      <4>2. frames[L].env[m] = frames[j].env[m]
        BY <1>1, <1>5, <3>2, <4>1 DEF EnvsGrow
      <4> QED
        BY <1>2, <1>5, <3>2, <4>2
    <3>3. CASE j # L + 1 /\ k # L + 1
      BY <1>5, <2>1, <3>3 DEF EnvsGrow
    <3> QED
      BY <3>1, <3>2, <3>3
  <2> QED
    BY <2>1 DEF EnvsGrow
<1>9. GrownByOwn'
  <2>1. ASSUME NEW j \in DOMAIN frames', j > 1, frames'[j - 1].call = frames'[j].call,
               NEW m \in Names, frames'[j].env[m] # NoKind
        PROVE  frames'[j - 1].env[m] # NoKind \/ m \in frames'[j].own
    <3>1. j - 1 \in 1 .. L /\ frames'[j - 1] = frames[j - 1]
      BY <1>4, <1>5, <2>1
    <3>2. CASE j = L + 1
      BY <1>2, <1>5, <2>1, <3>1, <3>2
    <3>3. CASE j # L + 1
      BY <1>5, <2>1, <3>1, <3>3 DEF GrownByOwn, Outer
    <3> QED
      BY <3>2, <3>3
  <2> QED
    BY <2>1 DEF GrownByOwn, Outer
<1>10. SetIsDeclared'
  <2>1. ASSUME NEW j \in DOMAIN frames',
               j = Len(frames') \/ frames'[j + 1].call # frames'[j].call,
               NEW m \in Names, calls'[frames'[j].call].vars[m].kind # NoKind
        PROVE  frames'[j].env[m] # NoKind \/ m \in calls'[frames'[j].call].hidden
    <3>1. CASE j = L + 1
      BY <1>1, <1>2, <1>3, <1>5, <2>1, <3>1 DEF SetIsDeclared
    <3>2. CASE j # L + 1
      <4>1. j # L /\ j + 1 \in 1 .. L
        BY <1>2, <1>4, <1>5, <2>1, <3>2
      <4>2. Innermost(j)
        BY <1>4, <1>5, <2>1, <3>2, <4>1 DEF Innermost
      <4> QED
        BY <1>3, <1>5, <2>1, <3>2, <4>2 DEF SetIsDeclared
    <3> QED
      BY <3>1, <3>2
  <2> QED
    BY <2>1 DEF SetIsDeclared, Innermost
<1>11. DeclaredHasItsKind'
  BY <1>1, <1>2, <1>3, <1>5 DEF DeclaredHasItsKind
<1>12. HiddenOnlyByNesting'
  BY <1>1, <1>2, <1>3, <1>5 DEF HiddenOnlyByNesting
<1> QED
  BY <1>6, <1>7, <1>8, <1>9, <1>10, <1>11, <1>12

(* A called function starts with its input variable alone. *)
LEMMA CallKeeps ==
  ASSUME IInv, CallFunction
  PROVE  IInv'
<1> USE DEF IInv
<1>1. PICK fn \in Functions, n \in Names, fd \in Fields \cup {Whole},
           x \in Readable(Top.env, Active.vars) :
        /\ x.kind \in Kinds
        /\ calls' = Append(calls, Call([Empty EXCEPT ![Input[fn]] = x], fn, n, fd))
        /\ frames' = Append(frames, Frame("body", Len(calls) + 1,
                              [Undeclared EXCEPT ![Input[fn]] = x.kind]))
  BY DEF CallFunction
<1> DEFINE L == Len(frames)
           c == Len(calls)
           E == [Undeclared EXCEPT ![Input[fn]] = x.kind]
           V == [Empty EXCEPT ![Input[fn]] = x]
           F == Frame("body", c + 1, E)
           C == Call(V, fn, n, fd)
<1>2. /\ L \in 1 .. MaxFrames /\ L \in DOMAIN frames
      /\ MaxFrames \in Nat /\ frames \in Seq(FrameType)
      /\ calls \in Seq(CallType) /\ c \in 1 .. MaxCalls + 1 /\ MaxCalls \in Nat
      /\ \A j \in 1 .. L : /\ j \in DOMAIN frames /\ frames[j] \in FrameType
                          /\ frames[j].call \in 1 .. c
  BY TopFacts
<1>3. /\ frames[L].kind = "body" /\ UNCHANGED <<trig, heap, result>>
      /\ L < MaxFrames /\ c <= MaxCalls /\ steps' \in 0 .. MaxSteps
  BY Vocabulary DEF CallFunction, AtElement, In, Top, TypeOK
<1>4. x \in Values /\ x.at <= Len(heap)
  BY <1>2, ReadableType DEF Top, Active
<1>5. /\ E \in [Names -> Kinds \cup {NoKind}] /\ V \in [Names -> Values]
      /\ \A m \in Names : /\ V[m].at <= Len(heap)
                         /\ E[m] = V[m].kind
  <2>1. Unset \in Values /\ Unset.at = 0 /\ Unset.kind = NoKind
    BY Vocabulary DEF Unset, Val, Values
  <2>2. Input[fn] \in Names /\ Len(heap) \in Nat
    BY Vocabulary DEF TypeOK
  <2> QED
    BY <1>1, <1>4, <2>1, <2>2 DEF Undeclared, Empty
<1> HIDE DEF E, V
<1>6. /\ F \in FrameType /\ F.call = c + 1 /\ F.env = E /\ F.own = {} /\ F.kind = "body"
  BY <1>2, <1>3, <1>5 DEF Frame, FrameType
<1>7. C \in CallType /\ C.vars = V /\ C.fn = fn
  BY <1>5 DEF Call, CallType
<1>8. frames' = Append(frames, F) /\ calls' = Append(calls, C)
  BY <1>1 DEF E, V
<1> HIDE DEF F, C
<1>9. /\ frames' \in Seq(FrameType) /\ Len(frames') = L + 1 /\ frames'[L + 1] = F
      /\ \A j \in 1 .. L : frames'[j] = frames[j]
  BY <1>2, <1>6, <1>8, Pushed
<1>10. /\ calls' \in Seq(CallType) /\ Len(calls') = c + 1 /\ calls'[c + 1] = C
       /\ \A j \in 1 .. c : calls'[j] = calls[j]
  BY <1>2, <1>7, <1>8, Pushed
<1>11. ASSUME NEW j \in DOMAIN frames'
       PROVE  /\ j \in 1 .. L + 1 /\ j \in Int /\ L \in Int /\ c \in Int
              /\ j # L + 1 => /\ j \in 1 .. L /\ j \in DOMAIN frames
                             /\ frames'[j] = frames[j] /\ frames[j].call \in 1 .. c
                             /\ calls'[frames[j].call] = calls[frames[j].call]
              /\ j = L + 1 => frames'[j] = F
  BY <1>2, <1>9, <1>10
<1>12. TypeOK'
  <2>1. ASSUME NEW k \in DOMAIN calls', NEW m \in Names
        PROVE  calls'[k].vars[m].at <= Len(heap')
    <3>1. CASE k = c + 1
      BY <1>3, <1>5, <1>7, <1>10, <3>1
    <3>2. CASE k # c + 1
      <4>1. k \in DOMAIN calls /\ calls'[k] = calls[k]
        BY <1>2, <1>10, <3>2
      <4> QED
        BY <1>3, <4>1 DEF TypeOK
    <3> QED
      BY <3>1, <3>2
  <2> QED
    BY <1>2, <1>3, <1>6, <1>9, <1>10, <2>1 DEF TypeOK
<1>13. CallsNest'
  <2>1. ASSUME NEW k \in DOMAIN calls', k > 1
        PROVE  calls'[k].fn \in Functions
    <3>1. k = c + 1 \/ (k \in DOMAIN calls /\ calls'[k] = calls[k])
      BY <1>2, <1>10
    <3> QED
      BY <1>7, <1>10, <2>1, <3>1 DEF CallsNest
  <2>2. ASSUME NEW j \in DOMAIN frames', NEW k \in DOMAIN frames', j <= k
        PROVE  frames'[j].call <= frames'[k].call
    <3>1. CASE k = L + 1
      BY <1>6, <1>11, <3>1
    <3>2. CASE k # L + 1
      BY <1>11, <2>2, <3>2 DEF CallsNest
    <3> QED
      BY <3>1, <3>2
  <2>3. ASSUME NEW j \in DOMAIN frames'
        PROVE  frames'[j].kind # "switch"
    BY <1>3, <1>6, <1>11 DEF CallsNest
  <2> QED
    BY <2>1, <2>2, <2>3 DEF CallsNest
<1>14. EnvsGrow'
  <2>1. ASSUME NEW j \in DOMAIN frames', NEW k \in DOMAIN frames', j <= k,
               frames'[j].call = frames'[k].call, NEW m \in Names,
               frames'[j].env[m] # NoKind
        PROVE  frames'[k].env[m] = frames'[j].env[m]
    <3>1. CASE j = L + 1
      BY <1>11, <2>1, <3>1
    <3>2. CASE j # L + 1
      <4>1. k # L + 1
        BY <1>6, <1>11, <2>1, <3>2
      <4> QED
        BY <1>11, <2>1, <3>2, <4>1 DEF EnvsGrow
    <3> QED
      BY <3>1, <3>2
  <2> QED
    BY <2>1 DEF EnvsGrow
<1>15. GrownByOwn'
  <2>1. ASSUME NEW j \in DOMAIN frames', j > 1, frames'[j - 1].call = frames'[j].call,
               NEW m \in Names, frames'[j].env[m] # NoKind
        PROVE  frames'[j - 1].env[m] # NoKind \/ m \in frames'[j].own
    <3>1. j - 1 \in DOMAIN frames' /\ j - 1 # L + 1
      BY <1>9, <1>11, <2>1
    <3>2. j # L + 1
      BY <1>6, <1>11, <2>1, <3>1
    <3> QED
      BY <1>11, <2>1, <3>1, <3>2 DEF GrownByOwn, Outer
  <2> QED
    BY <2>1 DEF GrownByOwn, Outer
<1>16. SetIsDeclared'
  <2>1. ASSUME NEW j \in DOMAIN frames',
               j = Len(frames') \/ frames'[j + 1].call # frames'[j].call,
               NEW m \in Names, calls'[frames'[j].call].vars[m].kind # NoKind
        PROVE  frames'[j].env[m] # NoKind \/ m \in calls'[frames'[j].call].hidden
    <3>1. CASE j = L + 1
      BY <1>5, <1>6, <1>7, <1>10, <1>11, <2>1, <3>1
    <3>2. CASE j # L + 1
      <4>1. Innermost(j)
        BY <1>9, <1>11, <2>1, <3>2 DEF Innermost
      <4> QED
        BY <1>11, <2>1, <3>2, <4>1 DEF SetIsDeclared
    <3> QED
      BY <3>1, <3>2
  <2> QED
    BY <2>1 DEF SetIsDeclared, Innermost
<1>17. DeclaredHasItsKind'
  <2>1. ASSUME NEW j \in DOMAIN frames', NEW m \in Names, frames'[j].env[m] # NoKind
        PROVE  calls'[frames'[j].call].vars[m].kind = frames'[j].env[m]
    <3>1. CASE j = L + 1
      BY <1>5, <1>6, <1>7, <1>10, <1>11, <3>1
    <3>2. CASE j # L + 1
      BY <1>11, <2>1, <3>2 DEF DeclaredHasItsKind
    <3> QED
      BY <3>1, <3>2
  <2> QED
    BY <2>1 DEF DeclaredHasItsKind
<1>18. HiddenOnlyByNesting'
  BY <1>6, <1>11 DEF HiddenOnlyByNesting
<1> QED
  BY <1>12, <1>13, <1>14, <1>15, <1>16, <1>17, <1>18

(* A nested body or switch ends: its environment is forgotten. *)
LEMMA LeaveKeeps ==
  ASSUME IInv, Outer(Len(frames)), Leave, UNCHANGED steps
  PROVE  IInv'
<1> USE DEF IInv
<1> DEFINE L == Len(frames)
           c == Len(calls)
           C == [calls[c] EXCEPT !.hidden = calls[c].hidden \cup frames[L].own]
<1>1. /\ L \in 1 .. MaxFrames /\ L \in DOMAIN frames /\ Innermost(L)
      /\ MaxFrames \in Nat /\ frames \in Seq(FrameType) /\ frames[L].call = c
      /\ frames[L].own \subseteq Names
      /\ calls \in Seq(CallType) /\ c \in 1 .. MaxCalls + 1 /\ MaxCalls \in Nat
      /\ \A j \in 1 .. L : /\ j \in DOMAIN frames /\ frames[j] \in FrameType
                          /\ frames[j].call \in 1 .. c
  BY TopFacts
<1>2. /\ C \in CallType /\ C.vars = calls[c].vars /\ C.fn = calls[c].fn
      /\ C.hidden = calls[c].hidden \cup frames[L].own
  <2>1. calls[c] \in CallType
    BY <1>1
  <2> QED
    BY <1>1, <2>1 DEF CallType
<1>3. /\ frames' = SubSeq(frames, 1, L - 1) /\ calls' = [calls EXCEPT ![c] = C]
      /\ UNCHANGED <<trig, heap, result, steps>> /\ L > 1 /\ frames[L - 1].call = c
  BY <1>1 DEF Leave, Top, Outer
<1> HIDE DEF C
<1>4. /\ frames' \in Seq(FrameType) /\ Len(frames') = L - 1
      /\ \A j \in 1 .. L - 1 : frames'[j] = frames[j]
  BY <1>1, <1>3, Popped
<1>5. /\ calls' \in Seq(CallType) /\ Len(calls') = c /\ calls'[c] = C
      /\ \A j \in 1 .. c : j # c => calls'[j] = calls[j]
  BY <1>1, <1>2, <1>3, SetAt
<1>6. ASSUME NEW k \in 1 .. c
      PROVE  /\ calls'[k].vars = calls[k].vars /\ calls'[k].fn = calls[k].fn
             /\ calls[k].hidden \subseteq calls'[k].hidden
  BY <1>2, <1>5
<1>7. ASSUME NEW j \in DOMAIN frames'
      PROVE  /\ j \in 1 .. L - 1 /\ j \in Int /\ L \in Int /\ j \in DOMAIN frames
             /\ frames'[j] = frames[j] /\ frames[j].call \in 1 .. c
  BY <1>1, <1>4
<1>8. TypeOK'
  <2>1. \A k \in DOMAIN calls', m \in Names : calls'[k].vars[m].at <= Len(heap')
    <3>1. DOMAIN calls' = 1 .. c /\ DOMAIN calls = 1 .. c
      BY <1>1, <1>5
    <3> QED
      BY <1>3, <1>6, <3>1 DEF TypeOK
  <2>2. Len(frames') = L - 1 /\ L - 1 \in 1 .. MaxFrames /\ frames'[L - 1] = frames[L - 1]
    BY <1>1, <1>3, <1>4
  <2>3. frames'[Len(frames')].call = Len(calls')
    BY <1>3, <1>5, <2>2
  <2> QED
    BY <1>1, <1>3, <1>4, <1>5, <2>1, <2>2, <2>3 DEF TypeOK
<1>9. CallsNest'
  <2>1. \A k \in DOMAIN calls' : k > 1 => calls'[k].fn \in Functions
    BY <1>1, <1>5, <1>6 DEF CallsNest
  <2>2. \A j \in DOMAIN frames' : frames'[j].kind # "switch"
    BY <1>7 DEF CallsNest
  <2> QED
    BY <1>7, <2>1, <2>2 DEF CallsNest
<1>10. EnvsGrow'
  BY <1>7 DEF EnvsGrow
<1>11. GrownByOwn'
  <2>1. ASSUME NEW j \in DOMAIN frames', j > 1
        PROVE  j - 1 \in DOMAIN frames'
    BY <1>4, <1>7, <2>1
  <2> QED
    BY <1>7, <2>1 DEF GrownByOwn, Outer
<1>12. SetIsDeclared'
  <2>1. ASSUME NEW j \in DOMAIN frames',
               j = Len(frames') \/ frames'[j + 1].call # frames'[j].call,
               NEW m \in Names, calls'[frames'[j].call].vars[m].kind # NoKind
        PROVE  frames'[j].env[m] # NoKind \/ m \in calls'[frames'[j].call].hidden
    <3>1. CASE j = L - 1
      <4>1. calls[c].vars[m].kind # NoKind /\ frames[j].call = c
        BY <1>1, <1>3, <1>6, <1>7, <2>1, <3>1
      <4>2. frames[L].env[m] # NoKind \/ m \in calls[c].hidden
        BY <1>1, <4>1 DEF SetIsDeclared
      <4>3. frames[L].env[m] # NoKind => frames[j].env[m] # NoKind \/ m \in frames[L].own
        BY <1>1, <3>1 DEF GrownByOwn
      <4> QED
        BY <1>2, <1>5, <1>7, <4>1, <4>2, <4>3
    <3>2. CASE j # L - 1
      <4>1. j + 1 \in DOMAIN frames' /\ Innermost(j)
        BY <1>4, <1>7, <2>1, <3>2 DEF Innermost
      <4>2. calls[frames[j].call].vars[m].kind # NoKind
        BY <1>6, <1>7, <2>1
      <4> QED
        BY <1>6, <1>7, <4>1, <4>2 DEF SetIsDeclared
    <3> QED
      BY <3>1, <3>2
  <2> QED
    BY <2>1 DEF SetIsDeclared, Innermost
<1>13. DeclaredHasItsKind'
  BY <1>6, <1>7 DEF DeclaredHasItsKind
<1>14. HiddenOnlyByNesting'
  BY <1>6, <1>7 DEF HiddenOnlyByNesting
<1> QED
  BY <1>8, <1>9, <1>10, <1>11, <1>12, <1>13, <1>14

LEMMA SetTop ==
  ASSUME IInv, NEW F \in FrameType, frames' = [frames EXCEPT ![Len(frames)] = F]
  PROVE  /\ frames' \in Seq(FrameType) /\ Len(frames') = Len(frames)
         /\ frames'[Len(frames)] = F
         /\ \A j \in 1 .. Len(frames) : j # Len(frames) => frames'[j] = frames[j]
<1>1. Len(frames) \in 1 .. Len(frames) /\ frames \in Seq(FrameType)
  BY TopFacts
<1> QED
  BY <1>1, SetAt

(* A switch becomes what it has chosen, or puts the default aside. *)
LEMMA SwitchKeeps ==
  ASSUME IInv, Top.kind = "switch",
         NEW F \in FrameType, F.call = Top.call, F.env = Top.env, F.own = {},
         frames' \in Seq(FrameType), Len(frames') = Len(frames),
         frames'[Len(frames)] = F,
         \A j \in 1 .. Len(frames) : j # Len(frames) => frames'[j] = frames[j],
         UNCHANGED <<trig, calls, heap, result>>, steps' \in 0 .. MaxSteps
  PROVE  IInv'
<1> USE DEF IInv
<1> DEFINE L == Len(frames)
<1>1. /\ L \in 1 .. MaxFrames /\ L \in DOMAIN frames /\ frames \in Seq(FrameType)
      /\ MaxFrames \in Nat
      /\ \A j \in 1 .. L : j \in DOMAIN frames
  BY TopFacts
<1>2. frames[L].own = {} /\ Outer(L) /\ F.call = frames[L].call /\ F.env = frames[L].env
  BY <1>1 DEF CallsNest, Top
<1>3. /\ frames' \in Seq(FrameType) /\ Len(frames') = L /\ frames'[L] = F
      /\ \A j \in 1 .. L : j # L => frames'[j] = frames[j]
  OBVIOUS
<1> HIDE DEF L
<1>4. ASSUME NEW j \in DOMAIN frames'
      PROVE  /\ j \in 1 .. L /\ j \in Int /\ L \in Int /\ j \in DOMAIN frames
             /\ frames'[j].call = frames[j].call /\ frames'[j].env = frames[j].env
             /\ frames'[j].own = frames[j].own
             /\ j # L => frames'[j] = frames[j]
             /\ j > 1 => j - 1 \in DOMAIN frames'
             /\ j # L => j + 1 \in DOMAIN frames'
  <2>1. /\ j \in 1 .. L /\ DOMAIN frames' = 1 .. L /\ L \in Nat
        /\ j \in DOMAIN frames
    BY <1>1, <1>3
  <2>2. /\ j \in Int /\ L \in Int
        /\ j > 1 => j - 1 \in 1 .. L
        /\ j # L => j + 1 \in 1 .. L
    BY <2>1, Neighbours
  <2>3. CASE j = L
    BY <1>2, <1>3, <2>1, <2>2, <2>3
  <2>4. CASE j # L
    BY <1>3, <2>1, <2>2, <2>4
  <2> QED
    BY <2>3, <2>4
<1>5. TypeOK'
  BY <1>1, <1>2, <1>3 DEF TypeOK
<1>6. CallsNest'
  <2>1. ASSUME NEW j \in DOMAIN frames', frames'[j].kind = "switch"
        PROVE  /\ j > 1 /\ frames'[j - 1].call = frames'[j].call
               /\ j = Len(frames') /\ frames'[j].own = {}
    <3>1. j = L
      BY <1>4, <2>1 DEF CallsNest
    <3> QED
      BY <1>2, <1>3, <1>4, <3>1 DEF Outer
  <2> QED
    BY <1>4, <2>1 DEF CallsNest, Outer
<1>7. EnvsGrow'
  BY <1>4 DEF EnvsGrow
<1>8. GrownByOwn'
  BY <1>4 DEF GrownByOwn, Outer
<1>9. SetIsDeclared'
  <2>1. ASSUME NEW j \in DOMAIN frames', Innermost(j)'
        PROVE  Innermost(j)
    BY <1>3, <1>4, <2>1 DEF Innermost
  <2> QED
    BY <1>4, <2>1 DEF SetIsDeclared
<1>10. DeclaredHasItsKind'
  BY <1>4 DEF DeclaredHasItsKind
<1>11. HiddenOnlyByNesting'
  BY <1>4 DEF HiddenOnlyByNesting
<1> QED
  BY <1>5, <1>6, <1>7, <1>8, <1>9, <1>10, <1>11

-----------------------------------------------------------------------------
(* The start of a trigger. *)

Starting ==
  /\ trig \in 1 .. Triggers /\ result = "running" /\ steps \in 0 .. MaxSteps
  /\ frames = TriggerFrames(trig) /\ calls = TriggerCalls(trig)
  /\ heap \in Seq([Fields -> Values]) /\ Len(heap) \in 1 .. MaxMaps
  /\ \A i \in DOMAIN heap, f \in Fields : heap[i][f].at <= Len(heap)

LEMMA StartKeeps == Starting => IInv
<1> SUFFICES ASSUME Starting
             PROVE  IInv
  OBVIOUS
<1> DEFINE n == EventVar[trig]
           E == [Undeclared EXCEPT ![n] = "map"]
           V == [Empty EXCEPT ![n] = Message]
           F == Frame("body", 1, E)
           C == Call(V, NoFunction, n, Whole)
<1>1. n \in Names /\ Len(heap) \in 1 .. MaxMaps /\ MaxMaps \in Nat
  BY Vocabulary DEF Starting
<1>2. /\ E \in [Names -> Kinds \cup {NoKind}] /\ V \in [Names -> Values]
      /\ \A m \in Names : /\ V[m].at <= Len(heap)
                         /\ E[m] = V[m].kind
  <2>1. Unset \in Values /\ Unset.at = 0 /\ Unset.kind = NoKind
    BY <1>1 DEF Unset, Val, Values
  <2>2. Message \in Values /\ Message.at = 1 /\ Message.kind = "map"
    BY <1>1 DEF Message, Val, Values, Kinds
  <2> QED
    BY <1>1, <2>1, <2>2 DEF Undeclared, Empty, Kinds
<1> HIDE DEF E, V
<1>3. /\ F \in FrameType /\ F.call = 1 /\ F.env = E /\ F.own = {} /\ F.kind = "body"
  BY <1>2, Vocabulary DEF Frame, FrameType
<1>4. C \in CallType /\ C.vars = V
  BY <1>1, <1>2 DEF Call, CallType
<1>5. frames = <<F>> /\ calls = <<C>>
  BY DEF Starting, TriggerFrames, TriggerCalls, E, V
<1> HIDE DEF F, C, n
<1>6. /\ Len(frames) = 1 /\ DOMAIN frames = {1} /\ frames[1] = F
      /\ Len(calls) = 1 /\ DOMAIN calls = {1} /\ calls[1] = C
      /\ frames \in Seq(FrameType) /\ calls \in Seq(CallType)
  BY <1>3, <1>4, <1>5
<1>7. TypeOK
  BY <1>2, <1>3, <1>4, <1>6, Vocabulary DEF TypeOK, Starting
<1>8. CallsNest /\ EnvsGrow /\ GrownByOwn /\ HiddenOnlyByNesting
  BY <1>3, <1>6 DEF CallsNest, EnvsGrow, GrownByOwn, HiddenOnlyByNesting, Outer
<1>9. SetIsDeclared /\ DeclaredHasItsKind
  BY <1>2, <1>3, <1>4, <1>6 DEF SetIsDeclared, DeclaredHasItsKind
<1> QED
  BY <1>7, <1>8, <1>9 DEF IInv

LEMMA InitInv == Init => IInv
<1>1. Init => Starting
  BY Vocabulary, MessageIsThere DEF Init, Starting
<1> QED
  BY <1>1, StartKeeps

LEMMA NextTriggerKeeps ==
  ASSUME IInv, NextTrigger
  PROVE  IInv'
<1>1. Starting'
  BY Vocabulary DEF IInv, TypeOK, NextTrigger, In, Starting
<1>2. Starting' => IInv'
  BY StartKeeps, PTL
<1> QED
  BY <1>1, <1>2

-----------------------------------------------------------------------------
(* Every step keeps the invariant. *)

LEMMA StepKeeps == IInv /\ [Next]_vars => IInv'
<1> SUFFICES ASSUME IInv, [Next]_vars
             PROVE  IInv'
  OBVIOUS
<1> DEFINE L == Len(frames)
<1>1. /\ L \in 1 .. MaxFrames /\ L \in DOMAIN frames /\ Innermost(L)
      /\ frames[L] \in FrameType /\ frames[L].call = Len(calls)
      /\ Len(calls) \in DOMAIN calls /\ Len(calls) \in Nat
      /\ frames[L].env \in [Names -> Kinds \cup {NoKind}]
      /\ \A j \in 1 .. L : /\ j \in DOMAIN frames /\ frames[j] \in FrameType
                          /\ frames[j].call \in 1 .. Len(calls)
  BY TopFacts
<1>2. /\ trig \in 1 .. Triggers /\ result \in {"running", "error", "done"}
      /\ steps \in 0 .. MaxSteps /\ MaxSteps \in Nat
  BY Vocabulary DEF IInv, TypeOK
<1>3. CASE Assign
  <2>1. PICK n \in Names, fd \in Fields \cup {Whole}, x \in Readable(Top.env, Active.vars) :
          Assigned(L, n, fd, x)
    BY <1>3 DEF Assign
  <2>2. x \in Values /\ x.at <= Len(heap)
    BY <1>1, ReadableType DEF Top, Active, IInv
  <2>3. frames[L].kind # "switch" /\ steps' \in 0 .. MaxSteps /\ UNCHANGED <<trig, result>>
    BY <1>2, <1>3 DEF Assign, AtElement, In, Top
  <2> QED
    BY <1>1, <1>2, <2>1, <2>2, <2>3, AssignedKeeps
<1>4. CASE Open("body") \/ Open("switch")
  BY <1>4, OpenKeeps
<1>5. CASE CallFunction
  BY <1>5, CallKeeps
<1>6. CASE Fail
  <2>1. UNCHANGED <<trig, frames, calls, heap, steps>> /\ result' = "error"
    BY <1>6 DEF Fail
  <2> QED
    BY <2>1 DEF IInv, TypeOK, CallsNest, EnvsGrow, GrownByOwn, SetIsDeclared,
                DeclaredHasItsKind, HiddenOnlyByNesting, Outer, Innermost
<1>7. CASE EndNested
  <2>1. Outer(L)
    BY <1>1, <1>7 DEF EndNested, Nested, Outer
  <2> QED
    BY <1>7, <2>1, LeaveKeeps DEF EndNested
<1>8. CASE Return
  <2> DEFINE x == Active.vars[Output[Active.fn]]
  <2>1. /\ L > 1 /\ frames[L - 1].call # Len(calls) /\ UNCHANGED <<trig, result, steps>>
        /\ Assigned(L - 1, Active.to, Active.field, x)
    BY <1>8 DEF Return, Nested
  <2>2. L - 1 \in DOMAIN frames /\ Innermost(L - 1) /\ frames[L - 1].call \in 1 .. Len(calls)
    BY <1>1, <2>1 DEF Innermost
  <2>3. frames[L - 1].kind # "switch"
    BY <1>1, <2>2 DEF IInv, CallsNest
  <2>4. Active \in CallType /\ Active.fn \in Functions
    <3>1. Len(calls) > 1
      BY <1>1, <2>1, <2>2
    <3> QED
      BY <1>1, <3>1 DEF IInv, TypeOK, CallsNest, Active
  <2>5. /\ Active.to \in Names /\ Active.field \in Fields \cup {Whole}
        /\ Output[Active.fn] \in Names /\ x \in Values
    BY <2>4, Vocabulary DEF CallType
  <2>6. x.at <= Len(heap)
    BY <1>1, <2>5 DEF IInv, TypeOK, Active
  <2> QED
    BY <1>2, <2>1, <2>2, <2>3, <2>5, <2>6, AssignedKeeps
<1>9. CASE NextTrigger
  BY <1>9, NextTriggerKeeps
<1>10. CASE Done
  <2>1. UNCHANGED <<trig, frames, calls, heap, steps>> /\ result' = "done"
    BY <1>10 DEF Done
  <2> QED
    BY <2>1 DEF IInv, TypeOK, CallsNest, EnvsGrow, GrownByOwn, SetIsDeclared,
                DeclaredHasItsKind, HiddenOnlyByNesting, Outer, Innermost
<1>11. ASSUME NEW kind \in {"body", "switch"}, Top.kind = "switch", Become(kind),
              steps' \in 0 .. MaxSteps
       PROVE  IInv'
  <2> DEFINE F == Frame(kind, Len(calls), Top.env)
  <2>1. F \in FrameType /\ F.call = Top.call /\ F.env = Top.env /\ F.own = {}
    BY <1>1 DEF Frame, FrameType, Top
  <2> HIDE DEF F
  <2>2. frames' = [frames EXCEPT ![L] = F] /\ UNCHANGED <<trig, calls, heap, result>>
    BY <1>11 DEF Become, F
  <2> QED
    BY <1>1, <1>11, <2>1, <2>2, SetTop, SwitchKeeps
<1>12. CASE TakeCase
  BY <1>2, <1>11, <1>12 DEF TakeCase, AtElement, In
<1>13. CASE Default
  <2> DEFINE F == [frames[L] EXCEPT !.default = TRUE]
  <2>1. /\ frames' = [frames EXCEPT ![L] = F] /\ UNCHANGED <<trig, calls, heap, result>>
        /\ Top.kind = "switch" /\ steps' \in 0 .. MaxSteps
    BY <1>2, <1>13 DEF Default, AtElement, In
  <2>2. /\ F \in FrameType /\ F.call = Top.call /\ F.env = Top.env /\ F.own = {}
    BY <1>1, <2>1 DEF FrameType, Top, IInv, CallsNest
  <2> HIDE DEF F
  <2> QED
    BY <1>1, <2>1, <2>2, SetTop, SwitchKeeps
<1>14. CASE EndSwitch
  <2>1. Top.kind = "switch" /\ UNCHANGED steps
    BY <1>14 DEF EndSwitch, In
  <2>2. Outer(L)
    BY <1>1, <2>1 DEF IInv, CallsNest, Top
  <2> QED
    BY <1>2, <1>11, <1>14, <2>1, <2>2, LeaveKeeps DEF EndSwitch
<1>15. CASE UNCHANGED vars
  BY <1>15 DEF vars, IInv, TypeOK, CallsNest, EnvsGrow, GrownByOwn, SetIsDeclared,
               DeclaredHasItsKind, HiddenOnlyByNesting, Outer, Innermost
<1> QED
  BY <1>3, <1>4, <1>5, <1>6, <1>7, <1>8, <1>9, <1>10, <1>12, <1>13, <1>14, <1>15 DEF Next

(* Theorem: the invariant holds in every reachable state of the evaluation  *)
(* of a message, for every body, every message and every set of functions.  *)
THEOREM Invariance == Spec => []IInv
  BY InitInv, StepKeeps, PTL DEF Spec

(* Theorem: variables, environments and maps hold values of their types in   *)
(* every state: no name refers to a map that does not exist.                *)
THEOREM TypeCorrect == Spec => []TypeOK
<1>1. IInv => TypeOK
  BY DEF IInv
<1> QED
  BY <1>1, Invariance, PTL

(* Theorem: what the environments declare and what the variables hold never *)
(* disagree (setOneVariable checks an expression against the one and        *)
(* evaluates it against the other).                                         *)
THEOREM Agreement == Spec => []DeclaredHasItsKind
<1>1. IInv => DeclaredHasItsKind
  BY DEF IInv
<1> QED
  BY <1>1, Invariance, PTL

(* Theorem: a body cannot read what it assigned only if a nested body, now  *)
(* ended, had assigned the same variable before.                            *)
THEOREM OnlyByNesting == Spec => []HiddenOnlyByNesting
<1>1. IInv => HiddenOnlyByNesting
  BY DEF IInv
<1> QED
  BY <1>1, Invariance, PTL
=============================================================================
