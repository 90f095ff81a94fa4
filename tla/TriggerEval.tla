----------------------------- MODULE TriggerEval -----------------------------
(***************************************************************************)
(* How Processor.ProcessMessage evaluates the bodies of the triggers of    *)
(* one event source on one message.                                        *)
(*                                                                         *)
(* The evaluator keeps two records of the variables of a trigger: the map  *)
(* "variables" with their values, one per trigger or function call, which  *)
(* every nested body shares, and the CEL environment "env" with their      *)
(* declarations, which each evalArrayObject holds for itself.  An          *)
(* expression must first be checked against env, then evaluated against    *)
(* variables.  Values that are maps are references: two variables, a       *)
(* caller and a function, or two triggers may hold the same map.           *)
(*                                                                         *)
(* The statements of a body are not fixed: the next one is any that the    *)
(* language has, so a behaviour is the run of some body.  An "if" or a     *)
(* case with one assignment behaves as one with a body of that assignment, *)
(* and an "if" that is not taken changes nothing.                          *)
(***************************************************************************)
EXTENDS Naturals, Sequences

CONSTANTS
  Names,      \* names of variables
  Fields,     \* names of the components of a map
  Scalars,    \* CEL types of values that are no maps
  Functions,  \* the user defined functions
  Input,      \* the input variable of a function
  Output,     \* the output variable of a function
  Triggers,   \* the number of triggers of the event source
  EventVar,   \* the input variable of a trigger
  Received,   \* the maps of the message, the first one is the message
  MaxMaps,    \* bound: maps that ever exist
  MaxFrames,  \* bound: bodies nested in each other, calls included
  MaxCalls,   \* bound: function calls nested in each other
  MaxSteps    \* bound: statements and switch elements of all bodies

Whole == "whole"   \* the assignment of a variable, not of a component
Kinds == Scalars \cup {"map"}   \* types a variable can be declared with
Untyped == "null"                \* the type of the other values
NoKind == "none"                 \* no value at all

(* A value: its type, and where it is if it is a map that can be assigned   *)
(* to (a Go map[string]interface{}); a map literal of CEL is not (at = 0).  *)
Val(k, a) == [kind |-> k, at |-> a]
Unset == Val(NoKind, 0)
Values == [kind : Kinds \cup {Untyped, NoKind}, at : 0 .. MaxMaps]

ASSUME Vocabulary ==
  /\ NoKind \notin Kinds \cup {Untyped} /\ Untyped \notin Kinds
  /\ Whole \notin Fields
  /\ Input \in [Functions -> Names]
  /\ Output \in [Functions -> Names]
  /\ Triggers \in Nat \ {0}
  /\ EventVar \in [1 .. Triggers -> Names]
  /\ MaxMaps \in Nat /\ MaxFrames \in Nat \ {0}
  /\ MaxCalls \in Nat /\ MaxSteps \in Nat

ASSUME MessageIsThere ==
  /\ Received \in Seq([Fields -> Values])
  /\ Len(Received) \in 1 .. MaxMaps
  /\ \A i \in DOMAIN Received, f \in Fields : Received[i][f].at <= Len(Received)

VARIABLES
  trig,    \* the trigger being evaluated
  frames,  \* the bodies and switches under way, the innermost last
  calls,   \* the trigger and the function calls under way, the last is active
  heap,    \* the maps
  result,  \* of ProcessMessage
  steps    \* how many statements and switch elements were reached

vars == <<trig, frames, calls, heap, result, steps>>

(* A frame: a body or a switch of call "call", the environment it sees,     *)
(* whether a default was met, and (history) what it has assigned itself.    *)
Frame(kind, call, env) ==
  [kind |-> kind, call |-> call, env |-> env, default |-> FALSE, own |-> {}]

(* A call: its variables, the function, the place its result goes to, and   *)
(* (history) the names assigned by nested bodies that have ended.           *)
Call(v, fn, n, fd) ==
  [vars |-> v, fn |-> fn, to |-> n, field |-> fd, hidden |-> {}]

NoFunction == "no function"
Undeclared == [n \in Names |-> NoKind]
Empty == [n \in Names |-> Unset]
NoFields == [f \in Fields |-> Unset]

(* initializeCELEnv: the input variable holds the message itself. *)
Message == Val("map", 1)
TriggerFrames(k) ==
  <<Frame("body", 1, [Undeclared EXCEPT ![EventVar[k]] = "map"])>>
TriggerCalls(k) ==
  <<Call([Empty EXCEPT ![EventVar[k]] = Message], NoFunction, EventVar[k], Whole)>>

Init ==
  /\ trig = 1
  /\ frames = TriggerFrames(1)
  /\ calls = TriggerCalls(1)
  /\ heap = Received
  /\ result = "running"
  /\ steps = 0

FrameType ==
  [kind : {"body", "switch"}, call : 1 .. MaxCalls + 1,
   env : [Names -> Kinds \cup {NoKind}], default : BOOLEAN, own : SUBSET Names]
CallType ==
  [vars : [Names -> Values], fn : Functions \cup {NoFunction}, to : Names,
   field : Fields \cup {Whole}, hidden : SUBSET Names]

(* The variables hold values of their types; no value refers to a map that  *)
(* does not exist; the innermost frame belongs to the active call.          *)
TypeOK ==
  /\ trig \in 1 .. Triggers
  /\ result \in {"running", "error", "done"}
  /\ steps \in 0 .. MaxSteps
  /\ frames \in Seq(FrameType) /\ Len(frames) \in 1 .. MaxFrames
  /\ calls \in Seq(CallType) /\ Len(calls) \in 1 .. MaxCalls + 1
  /\ heap \in Seq([Fields -> Values]) /\ Len(heap) \in 1 .. MaxMaps
  /\ \A i \in DOMAIN heap, f \in Fields : heap[i][f].at <= Len(heap)
  /\ \A c \in DOMAIN calls, n \in Names : calls[c].vars[n].at <= Len(heap)
  /\ frames[Len(frames)].call = Len(calls)

-----------------------------------------------------------------------------
(* Where the evaluation is. *)

Top == frames[Len(frames)]
Active == calls[Len(calls)]
In(kind) == result = "running" /\ Top.kind = kind
AtElement(kind) == In(kind) /\ steps < MaxSteps /\ steps' = steps + 1

(* What an expression that is checked in env can evaluate to: a literal, a  *)
(* variable, or a component of one that is a map.                           *)
Literals == {Val(k, 0) : k \in Kinds \cup {Untyped}}
Readable(env, v) ==
  LET Known == {n \in Names : env[n] # NoKind}
      Parts == {heap[v[n].at][f] : n \in {m \in Known : v[m].at # 0}, f \in Fields}
  IN  Literals \cup {v[n] : n \in Known} \cup {p \in Parts : p.kind # NoKind}

\* variant: a declared name may be declared again
StorableAgain(env, v, n, fd, x) ==
  \/ fd = Whole /\ x.kind \in Kinds
  \/ fd # Whole /\ v[n].kind = NoKind /\ Len(heap) < MaxMaps
  \/ fd # Whole /\ v[n].kind # NoKind /\ v[n].at # 0

(* createOneVariable: when it succeeds, what it changes.  A name can be     *)
(* declared once in an environment; a component is set in a map that        *)
(* exists, or in a new one, for which the name is declared.                 *)
Storable(env, v, n, fd, x) ==
  \/ fd = Whole /\ x.kind \in Kinds /\ env[n] = NoKind
  \/ fd # Whole /\ v[n].kind = NoKind /\ env[n] = NoKind /\ Len(heap) < MaxMaps
  \/ fd # Whole /\ v[n].kind # NoKind /\ v[n].at # 0

\* variant: the new map of a component is not declared
DeclaredLate(env, v, n, fd, x) ==
  IF fd = Whole THEN [env EXCEPT ![n] = x.kind] ELSE env

Declared(env, v, n, fd, x) ==
  IF fd = Whole THEN [env EXCEPT ![n] = x.kind]
  ELSE IF v[n].kind = NoKind THEN [env EXCEPT ![n] = "map"] ELSE env

SetVars(v, n, fd, x) ==
  IF fd = Whole THEN [v EXCEPT ![n] = x]
  ELSE IF v[n].kind = NoKind THEN [v EXCEPT ![n] = Val("map", Len(heap) + 1)] ELSE v

\* variant: no map is made for a component of a new name
SetHeapInPlace(v, n, fd, x) ==
  IF fd = Whole \/ v[n].kind = NoKind THEN heap
  ELSE [heap EXCEPT ![v[n].at][fd] = x]

SetHeap(v, n, fd, x) ==
  IF fd = Whole THEN heap
  ELSE IF v[n].kind = NoKind THEN Append(heap, [NoFields EXCEPT ![fd] = x])
  ELSE [heap EXCEPT ![v[n].at][fd] = x]

(* Statement "n: x" or "n.fd: x" of the frame i, in its call c: the         *)
(* frames and the calls that remain, the frame and the call updated.        *)
Assigned(i, n, fd, x) ==
  LET c == frames[i].call
      v == calls[c].vars
      e == frames[i].env
      own == frames[i].own
  IN  /\ Storable(e, v, n, fd, x)
      /\ frames' = [SubSeq(frames, 1, i) EXCEPT ![i] =
           [frames[i] EXCEPT !.env = Declared(e, v, n, fd, x), !.own = own \cup {n}]]
      /\ calls' = [SubSeq(calls, 1, c) EXCEPT ![c].vars = SetVars(v, n, fd, x)]
      /\ heap' = SetHeap(v, n, fd, x)

-----------------------------------------------------------------------------
(* Statements of a body (evalArrayObject). *)

Assign ==
  /\ AtElement("body")
  /\ \E n \in Names, fd \in Fields \cup {Whole} :
       \E x \in Readable(Top.env, Active.vars) : Assigned(Len(frames), n, fd, x)
  /\ UNCHANGED <<trig, result>>

(* The body of an "if" that is taken, or a body by itself; a switch.  Both  *)
(* start from the environment of the body they are in.                      *)
Open(kind) ==
  /\ AtElement("body")
  /\ Len(frames) < MaxFrames
  /\ frames' = Append(frames, Frame(kind, Len(calls), Top.env))
  /\ UNCHANGED <<trig, calls, heap, result>>

(* A statement that calls a function: parameter x, the result to n or n.fd. *)
CallFunction ==
  /\ AtElement("body")
  /\ Len(frames) < MaxFrames /\ Len(calls) <= MaxCalls
  /\ \E fn \in Functions, n \in Names, fd \in Fields \cup {Whole} :
       \E x \in Readable(Top.env, Active.vars) :
         /\ x.kind \in Kinds
         /\ calls' = Append(calls, Call([Empty EXCEPT ![Input[fn]] = x], fn, n, fd))
         /\ frames' = Append(frames, Frame("body", Len(calls) + 1,
                               [Undeclared EXCEPT ![Input[fn]] = x.kind]))
  /\ UNCHANGED <<trig, heap, result>>

(* Any statement can fail: a syntax error, a name that is not declared, a   *)
(* name declared again, a component of something that is no map, an error   *)
(* of a function.  Every error ends the evaluation of the message.          *)
Fail ==
  /\ result = "running"
  /\ result' = "error"
  /\ UNCHANGED <<trig, frames, calls, heap, steps>>

-----------------------------------------------------------------------------
(* The end of a body.  The environment of a nested one is forgotten: the    *)
(* assignment to env at the call of evalBody, evalIf or evalSwitch declares *)
(* a new variable.                                                          *)
Nested == Len(frames) > 1 /\ frames[Len(frames) - 1].call = Len(calls)

Leave ==
  /\ frames' = SubSeq(frames, 1, Len(frames) - 1)
  /\ calls' = [calls EXCEPT ![Len(calls)].hidden = @ \cup Top.own]
  /\ UNCHANGED <<trig, heap, result>>

EndNested == In("body") /\ Nested /\ Leave /\ UNCHANGED steps

(* callCEL: the output variable must be set, and is what is assigned. *)
Return ==
  /\ In("body") /\ ~Nested /\ Len(frames) > 1
  /\ LET x == Active.vars[Output[Active.fn]]
     IN  /\ x.kind # NoKind
         /\ Assigned(Len(frames) - 1, Active.to, Active.field, x)
  /\ UNCHANGED <<trig, result, steps>>

(* The next trigger starts from scratch, but for the maps of the message. *)
NextTrigger ==
  /\ In("body") /\ Len(frames) = 1
  /\ trig < Triggers
  /\ trig' = trig + 1
  /\ frames' = TriggerFrames(trig + 1)
  /\ calls' = TriggerCalls(trig + 1)
  /\ UNCHANGED <<heap, result, steps>>

Done ==
  /\ In("body") /\ Len(frames) = 1
  /\ trig = Triggers
  /\ result' = "done"
  /\ UNCHANGED <<trig, frames, calls, heap, steps>>

-----------------------------------------------------------------------------
(* Elements of a switch (evalSwitch): a case that is taken replaces it, the *)
(* default is put aside, and evaluated when no case was taken.              *)

Become(kind) ==
  /\ frames' = [frames EXCEPT ![Len(frames)] = Frame(kind, Len(calls), Top.env)]
  /\ UNCHANGED <<trig, calls, heap, result>>

TakeCase == AtElement("switch") /\ (Become("body") \/ Become("switch"))

Default ==
  /\ AtElement("switch") /\ ~Top.default
  /\ frames' = [frames EXCEPT ![Len(frames)].default = TRUE]
  /\ UNCHANGED <<trig, calls, heap, result>>

EndSwitch ==
  /\ In("switch")
  /\ IF Top.default THEN Become("body") ELSE Leave
  /\ UNCHANGED steps

Next ==
  \/ Assign \/ Open("body") \/ Open("switch") \/ CallFunction \/ Fail
  \/ EndNested \/ Return \/ NextTrigger \/ Done
  \/ TakeCase \/ Default \/ EndSwitch

Spec == Init /\ [][Next]_vars

-----------------------------------------------------------------------------
(* Properties. *)

(* The two records agree: in every body under way, also of the callers, a   *)
(* name the environment declares has a value, and it has the declared type. *)
(* So what passes the CEL check never meets a missing variable or a value   *)
(* of another type, whatever nested bodies and functions have assigned.     *)
DeclaredHasItsKind ==
  \A i \in DOMAIN frames, n \in Names :
    frames[i].env[n] # NoKind =>
      calls[frames[i].call].vars[n].kind = frames[i].env[n]

(* A body under way can read what it has assigned itself, except for a name *)
(* that a nested body, which has ended, had assigned before.                *)
HiddenOnlyByNesting ==
  \A i \in DOMAIN frames : \A n \in frames[i].own :
    frames[i].env[n] # NoKind \/ n \in calls[frames[i].call].hidden

(* What makes the two inductive.  Frames of one call are next to each       *)
(* other, in the order of the calls; a switch is inside a body, is the      *)
(* innermost frame and assigns nothing; only a function can be called.      *)
Innermost(i) == i = Len(frames) \/ frames[i + 1].call # frames[i].call
Outer(i) == i > 1 /\ frames[i - 1].call = frames[i].call

CallsNest ==
  /\ \A c \in DOMAIN calls : c > 1 => calls[c].fn \in Functions
  /\ \A i, j \in DOMAIN frames : i <= j => frames[i].call <= frames[j].call
  /\ \A i \in DOMAIN frames : frames[i].kind = "switch" =>
       Outer(i) /\ i = Len(frames) /\ frames[i].own = {}

(* A nested body declares what the bodies around it do, and what it has     *)
(* assigned itself.                                                         *)
EnvsGrow ==
  \A i, j \in DOMAIN frames : i <= j /\ frames[i].call = frames[j].call =>
    \A n \in Names :
      frames[i].env[n] # NoKind => frames[j].env[n] = frames[i].env[n]
GrownByOwn ==
  \A i \in DOMAIN frames : Outer(i) =>
    \A n \in Names :
      frames[i].env[n] # NoKind => frames[i - 1].env[n] # NoKind \/ n \in frames[i].own

(* What has a value is declared in the innermost body of the call, or was   *)
(* declared in a nested body that has ended.                                *)
SetIsDeclared ==
  \A i \in DOMAIN frames : Innermost(i) =>
    \A n \in Names :
      calls[frames[i].call].vars[n].kind # NoKind =>
        frames[i].env[n] # NoKind \/ n \in calls[frames[i].call].hidden

IInv ==
  /\ TypeOK /\ CallsNest /\ EnvsGrow /\ GrownByOwn /\ SetIsDeclared
  /\ DeclaredHasItsKind /\ HiddenOnlyByNesting

(* README: an assignment to "build.pr" makes a variable "build": a body can *)
(* read whatever it has assigned itself.                                    *)
OwnIsReadable ==
  \A i \in DOMAIN frames : \A n \in frames[i].own : frames[i].env[n] # NoKind

(* README: the input JSON message is stored in the input variable before    *)
(* the statements of the body process it: of each trigger, not only of the  *)
(* first one.  The histories "own" and "hidden" are empty only before the   *)
(* first assignment of a trigger.                                           *)
Started == frames = TriggerFrames(trig) /\ calls = TriggerCalls(trig)
MessageAsReceived ==
  Started => SubSeq(heap, 1, Len(Received)) = Received
=============================================================================
