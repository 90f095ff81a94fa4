----------------------------- MODULE TriggerLoad -----------------------------
(***************************************************************************)
(* Processor.Initialize: the YAML files of the directory are read one      *)
(* after another, and what they state is added to the definitions: the     *)
(* settings, the triggers by their event source, the functions by name.    *)
(*                                                                         *)
(* Doc[t] is what a text states.  A trigger without a usable eventSource   *)
(* has source None, a function without a usable name has name None; an     *)
(* entry of a list that is refused is not ok, and a list that is none      *)
(* stands for a list with such an entry.                                   *)
(***************************************************************************)
EXTENDS TriggerFiles, FiniteSets

CONSTANTS
  Yaml,        \* the names of the directory that may end in ".yaml", sorted
  Yml,         \* those that may end in ".yml", sorted
  NoYaml,      \* texts that are not YAML
  Doc,         \* Doc[t]: what the others state
  Sources,     \* names of event sources
  Functions,   \* names of functions
  Triggers     \* triggers, but for their source

None == "none"
Dry == {"true", "false", "unstated"}
TriggerType == [source : Sources \cup {None}, body : Triggers, ok : BOOLEAN]
FunctionType == [name : Functions \cup {None}, ok : BOOLEAN]

ASSUME DocumentTable ==
  /\ Yaml \in Seq(Paths) /\ Yml \in Seq(Paths)
  /\ NoYaml \subseteq Texts
  /\ \A t \in Texts \ NoYaml :
       /\ Doc[t].dryrun \in Dry
       /\ Doc[t].triggers \in Seq(TriggerType)
       /\ Doc[t].functions \in Seq(FunctionType)
  /\ None \notin Sources /\ None \notin Functions

VARIABLES
  files,      \* the files found
  file,       \* the next one to read
  setting,    \* Setting, as far as dryrun goes
  triggers,   \* EventTriggers
  functions   \* Functions: where each was declared, <<file, position>>

loadVars == <<files, file, setting, triggers, functions>>
Undeclared == <<0, 0>>

LoadInit ==
  /\ files = <<>>
  /\ file = 1
  /\ setting = <<>>
  /\ triggers = [s \in Sources |-> <<>>]
  /\ functions = [f \in Functions |-> Undeclared]

(* What "files" and "triggers" hold is said by LoadedSoFar.                  *)
LoadTypeOK ==
  /\ file \in Nat \ {0}
  /\ setting \in Seq(Dry)
  /\ DOMAIN triggers = Sources
  /\ functions \in [Functions -> Nat \X Nat]

(* The elements of a sequence that are in a set, in their order.            *)
Elements(seq) == {seq[i] : i \in DOMAIN seq}
Those(seq, set) ==
  LET found[i \in 0 .. Len(seq)] ==
        IF i = 0 THEN <<>>
        ELSE IF seq[i] \in set THEN Append(found[i - 1], seq[i])
        ELSE found[i - 1]
  IN found[Len(seq)]

(* findFiles: the names are those of files and of directories.              *)
Find ==
  /\ pc = "find"
  /\ LET present == {p \in Paths : disk[p] # Absent}
     IN files' = Those(Yaml, present) \o Those(Yml, present)
  /\ files' # <<>>
  /\ pc' = "load"
  /\ UNCHANGED <<options, outside, fileVars, file, setting, triggers, functions>>

-----------------------------------------------------------------------------
(* ReadTriggerDefinition, for the next file. *)

Text == disk[files[file]]
Readable == Text \in Texts \ NoYaml
OfSource(d, s) == {t \in Elements(d.triggers) : t.source = s}

(* Functions without a name, or with one that is no string, are passed over. *)
Named(d) == {i \in DOMAIN d.functions : d.functions[i].name # None}

NewFunctions(d) ==
  /\ \A i \in Named(d) : functions[d.functions[i].name] = Undeclared
  /\ \A i, j \in Named(d) : d.functions[i].name = d.functions[j].name => i = j

Acceptable(d) ==
  /\ \A t \in Elements(d.triggers) : t.ok
  /\ \A i \in Named(d) : d.functions[i].ok
  /\ NewFunctions(d)

\* variant: the triggers of a source in this file replace those of others
Replacing(d) ==
  [s \in Sources |->
     LET here == Those(d.triggers, OfSource(d, s))
     IN IF here = <<>> THEN triggers[s] ELSE here]

Appended(d) ==
  [s \in Sources |-> triggers[s] \o Those(d.triggers, OfSource(d, s))]

Declared(d) ==
  [f \in Functions |->
     IF \E i \in Named(d) : d.functions[i].name = f
     THEN <<file, CHOOSE i \in Named(d) : d.functions[i].name = f>>
     ELSE functions[f]]

Load ==
  /\ pc = "load"
  /\ file \in DOMAIN files
  /\ Readable
  /\ Acceptable(Doc[Text])
  /\ setting' = Append(setting, Doc[Text].dryrun)
  /\ triggers' = Appended(Doc[Text])
  /\ functions' = Declared(Doc[Text])
  /\ file' = file + 1
  /\ UNCHANGED <<pc, options, outside, fileVars, files>>

LoadedAll ==
  /\ pc = "load"
  /\ file \notin DOMAIN files
  /\ pc' = "listen"
  /\ UNCHANGED <<options, outside, fileVars, loadVars>>

(* isDryRun: the first setting that is a boolean.                           *)
IsDryRun ==
  \E i \in DOMAIN setting :
    setting[i] = "true" /\ \A j \in 1 .. i - 1 : setting[j] = "unstated"

-----------------------------------------------------------------------------
(* What the first n files found state, without the order of the code:       *)
(* positions of triggers and functions in these files.                      *)

DocOf(i) == Doc[disk[files[i]]]
TriggerAt(a) == DocOf(a[1]).triggers[a[2]]
For(s, n) ==
  UNION {{<<i, j>> : j \in {k \in DOMAIN DocOf(i).triggers :
                               DocOf(i).triggers[k].source = s}} : i \in 1 .. n}
Before(a, b) == a[1] < b[1] \/ (a[1] = b[1] /\ a[2] < b[2])
NameAt(a) == DocOf(a[1]).functions[a[2]].name
FunctionsAt(n) == UNION {{<<i, j>> : j \in Named(DocOf(i))} : i \in 1 .. n}

(* Each source has the triggers that the files state for it, all of them,   *)
(* in the order of the files and in the files; each named function is       *)
(* stated once and known.                                                   *)
TriggersRead(s, n) ==
  /\ Len(triggers[s]) = Cardinality(For(s, n))
  /\ \A a \in For(s, n) :
       triggers[s][1 + Cardinality({b \in For(s, n) : Before(b, a)})] = TriggerAt(a)
FunctionsRead(n) ==
  /\ \A a, b \in FunctionsAt(n) : NameAt(a) = NameAt(b) => a = b
  /\ \A a \in FunctionsAt(n) : functions[NameAt(a)] = a
=============================================================================
