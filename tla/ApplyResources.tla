--------------------------- MODULE ApplyResources ---------------------------
(***************************************************************************)
(* The built-in function applyResources: the templates of a directory are  *)
(* read and substituted, all of them, and only then are the resources they *)
(* became created in the cluster, one request after another.  The first    *)
(* error ends the call; what was created stays.  Listener goroutines call  *)
(* it concurrently, and others use the same cluster.                       *)
(*                                                                         *)
(* A template with given variables becomes a resource (identified by its   *)
(* group, version, plural, namespace and name), or it cannot be            *)
(* substituted, or it becomes something that is no complete resource.      *)
(***************************************************************************)
EXTENDS Naturals, Sequences

CONSTANTS
  Callers,     \* the listener goroutines
  Dirs,        \* what triggers pass as directory
  Inside,      \* those that are below the directory of the triggers
  Templates,   \* template files
  Glob,        \* Glob[d][x]: the files of d that end in x, sorted
  Variables,   \* what triggers pass as variables
  Resources,   \* what can exist in the cluster
  Become,      \* Become[t][v]: what template t becomes with variables v
  MaxCalls     \* bound: calls ever made

Broken == "broken"    \* the template cannot be substituted
Invalid == "invalid"  \* the outcome is not a resource createResource accepts
Suffixes == {"yaml", "yml"}

ASSUME DirectoryTable ==
  /\ Inside \subseteq Dirs /\ Dirs # {} /\ Variables # {}
  /\ Glob \in [Dirs -> [Suffixes -> Seq(Templates)]]
  /\ Become \in [Templates -> [Variables -> Resources \cup {Broken, Invalid}]]
  /\ {Broken, Invalid} \cap Resources = {}
  /\ MaxCalls \in Nat

VARIABLES
  dryrun,   \* the setting "dryrun"
  cluster,  \* the resources that exist
  pc,       \* pc[c]: where the call of c is
  dir,      \* dir[c]: its directory
  var,      \* var[c]: its variables
  texts,    \* texts[c]: what the templates became
  next,     \* next[c]: which of them is created next
  result,   \* result[c]: what the last call of c returned
  calls,    \* calls made
  made,     \* history: made[c], what the call of c has created, in order
  deleted   \* history: resources that others have deleted

callVars == <<pc, dir, var, texts, next, result, made>>
vars == <<dryrun, cluster, callVars, calls, deleted>>

(* findFiles: all that end in "yaml", then all that end in "yml". *)
FindFiles(d) == Glob[d]["yaml"] \o Glob[d]["yml"]

(* What the files of directory d become with variables v. *)
Plan(d, v) == [i \in DOMAIN FindFiles(d) |-> Become[FindFiles(d)[i]][v]]
PlanOf(c) == Plan(dir[c], var[c])
Elements(seq) == {seq[i] : i \in DOMAIN seq}

(* Left over from before: any resources. *)
Init ==
  /\ dryrun \in BOOLEAN
  /\ cluster \in SUBSET Resources
  /\ pc = [c \in Callers |-> "idle"]
  /\ dir = [c \in Callers |-> CHOOSE d \in Dirs : TRUE]
  /\ var = [c \in Callers |-> CHOOSE v \in Variables : TRUE]
  /\ texts = [c \in Callers |-> <<>>]
  /\ next = [c \in Callers |-> 1]
  /\ result = [c \in Callers |-> "none"]
  /\ calls = 0
  /\ made = [c \in Callers |-> <<>>]
  /\ deleted = {}

(* The variables hold values of their types; a call that creates is at one  *)
(* of its texts or past the last.                                           *)
TypeOK ==
  /\ dryrun \in BOOLEAN
  /\ cluster \subseteq Resources
  /\ pc \in [Callers -> {"idle", "substitute", "create"}]
  /\ dir \in [Callers -> Dirs]
  /\ var \in [Callers -> Variables]
  /\ texts \in [Callers -> Seq(Resources \cup {Invalid})]
  /\ next \in [Callers -> Nat \ {0}]
  /\ result \in [Callers -> {"none", "", "error"}]
  /\ calls \in 0 .. MaxCalls
  /\ made \in [Callers -> Seq(Resources)]
  /\ deleted \subseteq Resources
  /\ \A c \in Callers : pc[c] = "create" => next[c] \in 1 .. Len(texts[c]) + 1

-----------------------------------------------------------------------------
(* One call, by c. *)

Goto(c, label) == pc' = [pc EXCEPT ![c] = label]
Return(c, r) == Goto(c, "idle") /\ result' = [result EXCEPT ![c] = r]

Call(c) ==
  /\ pc[c] = "idle"
  /\ calls < MaxCalls
  /\ calls' = calls + 1
  /\ \E d \in Dirs : dir' = [dir EXCEPT ![c] = d]
  /\ \E v \in Variables : var' = [var EXCEPT ![c] = v]
  /\ result' = [result EXCEPT ![c] = "none"]
  /\ made' = [made EXCEPT ![c] = <<>>]
  /\ Goto(c, "substitute")
  /\ UNCHANGED <<dryrun, cluster, texts, next, deleted>>

\* variant: a template that cannot be substituted is noticed later
SubstituteSome(c) ==
  /\ pc[c] = "substitute"
  /\ dir[c] \in Inside
  /\ texts' = [texts EXCEPT ![c] = PlanOf(c)]
  /\ next' = [next EXCEPT ![c] = 1]
  /\ IF dryrun THEN Return(c, "") ELSE Goto(c, "create") /\ UNCHANGED result
  /\ UNCHANGED <<dryrun, cluster, dir, var, calls, made, deleted>>

(* Every file is read and substituted, before anything is created. *)
Substitute(c) ==
  /\ pc[c] = "substitute"
  /\ dir[c] \in Inside
  /\ Broken \notin Elements(PlanOf(c))
  /\ texts' = [texts EXCEPT ![c] = PlanOf(c)]
  /\ next' = [next EXCEPT ![c] = 1]
  /\ IF dryrun THEN Return(c, "") ELSE Goto(c, "create") /\ UNCHANGED result
  /\ UNCHANGED <<dryrun, cluster, dir, var, calls, made, deleted>>

(* A directory outside, a file that cannot be read, a broken template. *)
SubstituteFails(c) ==
  /\ pc[c] = "substitute"
  /\ \/ dir[c] \notin Inside
     \/ FindFiles(dir[c]) # <<>>
  /\ Return(c, "error")
  /\ UNCHANGED <<dryrun, cluster, dir, var, texts, next, calls, made, deleted>>

-----------------------------------------------------------------------------
(* createResource for the next text of c. *)

Text(c) == texts[c][next[c]]
AtText(c) == pc[c] = "create" /\ next[c] <= Len(texts[c])

\* variant: a resource that exists is replaced
Replaced(c) ==
  /\ Text(c) \in Resources
  /\ cluster' = cluster \cup {Text(c)}
  /\ made' = [made EXCEPT ![c] = Append(@, Text(c))]

(* The cluster has the resource now, which it had not before. *)
Added(c) ==
  /\ Text(c) \in Resources \ cluster
  /\ cluster' = cluster \cup {Text(c)}
  /\ made' = [made EXCEPT ![c] = Append(@, Text(c))]

Create(c) ==
  /\ AtText(c)
  /\ Added(c)
  /\ next' = [next EXCEPT ![c] = @ + 1]
  /\ UNCHANGED <<dryrun, pc, dir, var, texts, result, calls, deleted>>

\* variant: an error is passed over
CreateSkips(c) ==
  /\ AtText(c)
  /\ Added(c) \/ UNCHANGED <<cluster, made>>
  /\ next' = [next EXCEPT ![c] = @ + 1]
  /\ UNCHANGED <<dryrun, pc, dir, var, texts, result, calls, deleted>>

(* The resource is there already, the cluster refuses, or its answer is     *)
(* lost after it has created the resource; or there is nothing to create.   *)
CreateFails(c) ==
  /\ AtText(c)
  /\ Added(c) \/ UNCHANGED <<cluster, made>>
  /\ Return(c, "error")
  /\ UNCHANGED <<dryrun, dir, var, texts, next, calls, deleted>>

Finish(c) ==
  /\ pc[c] = "create"
  /\ next[c] > Len(texts[c])
  /\ Return(c, "")
  /\ UNCHANGED <<dryrun, cluster, dir, var, texts, next, calls, made, deleted>>

-----------------------------------------------------------------------------
(* Others who use the cluster. *)

OthersCreate ==
  /\ \E r \in Resources \ cluster : cluster' = cluster \cup {r}
  /\ UNCHANGED <<dryrun, callVars, calls, deleted>>

OthersDelete ==
  /\ \E r \in cluster :
       /\ cluster' = cluster \ {r}
       /\ deleted' = deleted \cup {r}
  /\ UNCHANGED <<dryrun, callVars, calls>>

CallerStep(c) ==
  \/ Call(c) \/ Substitute(c) \/ SubstituteFails(c)
  \/ Create(c) \/ CreateFails(c) \/ Finish(c)

Next ==
  \/ \E c \in Callers : CallerStep(c)
  \/ OthersCreate \/ OthersDelete

Spec == Init /\ [][Next]_vars

-----------------------------------------------------------------------------
(* Properties. *)

(* A call creates something only when it is no dry run and every template   *)
(* of its directory has been substituted, the ones it never got to included.*)
AllSubstituteFirst ==
  \A c \in Callers : made[c] # <<>> =>
    ~dryrun /\ dir[c] \in Inside /\ Broken \notin Elements(PlanOf(c))

(* What a call has created is what the first files become, in their order:  *)
(* an error in the middle leaves no gap.                                    *)
AppliesInOrder ==
  \A c \in Callers :
    /\ Len(made[c]) <= Len(PlanOf(c))
    /\ \A i \in DOMAIN made[c] : made[c][i] = PlanOf(c)[i]

(* The empty string means that this call has created every resource of the  *)
(* directory, and that each is there unless somebody has deleted it.        *)
OkMeansApplied ==
  \A c \in Callers : result[c] = "" /\ ~dryrun =>
    /\ made[c] = PlanOf(c)
    /\ \A i \in DOMAIN made[c] : made[c][i] \in cluster \cup deleted

(* Two calls never both create one resource, however their requests mix and *)
(* whatever answers are lost, unless it was deleted in between.             *)
OneCreator ==
  \A c, d \in Callers : c # d =>
    Elements(made[c]) \cap Elements(made[d]) \subseteq deleted

(* What makes them inductive: what a call has created is what came before   *)
(* "next", or one more at the end of the call; nothing that was created     *)
(* has gone but by deletion.                                                *)
Created ==
  \A c \in Callers :
    /\ Elements(made[c]) \subseteq cluster \cup deleted
    /\ pc[c] = "substitute" => made[c] = <<>>
    /\ pc[c] # "idle" => result[c] # ""
    /\ pc[c] = "create" =>
         /\ ~dryrun /\ dir[c] \in Inside
         /\ texts[c] = PlanOf(c) /\ Broken \notin Elements(PlanOf(c))
         /\ Len(made[c]) = next[c] - 1

IInv ==
  /\ TypeOK /\ Created
  /\ AllSubstituteFirst /\ AppliesInOrder /\ OkMeansApplied /\ OneCreator
=============================================================================
