------------------------------ MODULE BuiltIns ------------------------------
(***************************************************************************)
(* An expression of a trigger that calls built-in functions: functions of  *)
(* strings one after another on the result of the one before, or a         *)
(* download.  A panic inside a function is left as it is.                  *)
(***************************************************************************)
EXTENDS Names, DownloadYaml, Integers

CONSTANT Inputs   \* strings an expression may start with

ASSUME InputStrings == Inputs \subseteq Seq(Chars)

VARIABLES
  made,    \* the function that was called last
  input,   \* its argument
  value    \* what it returned

stringVars == <<made, input, value>>
vars == <<stringVars, downloadVars>>

Init ==
  /\ DownloadInit
  /\ \/ step = "call" /\ made = "none" /\ value = <<>>
     \/ /\ step = "none" /\ made = "start"
        /\ <<message, secrets>> = CHOOSE unused \in Messages \X SecretLists : TRUE
        /\ value \in Inputs
  /\ input = value

Applied(function, r) ==
  /\ made \notin {"none", "panic"}
  /\ made' = function
  /\ input' = value
  /\ value' = r
  /\ UNCHANGED downloadVars

DomainName == Applied("toDomainName", ToDomainName(value))
Label == Applied("toLabel", ToLabel(value))

(* A negative index is out of range.                                        *)
Substring ==
  \E index \in -1 .. Len(value) + 1 :
    IF index < 0 THEN Applied("panic", <<>>)
    ELSE Applied("substring", SubSeq(value, 1, IF index > Len(value) THEN Len(value) ELSE index))

Next ==
  \/ DomainName \/ Label \/ Substring
  \/ made = "none" /\ DownloadStep /\ UNCHANGED stringVars

Spec == Init /\ [][Next]_vars

-----------------------------------------------------------------------------
(* Properties. *)

(* toDomainName returns a domain name by the rules of its comment, whatever *)
(* it is given and wherever the length is cut, and nothing only for nothing;*)
(* its parts are those of a name in the DNS where no dash was next to a dot.*)
DomainIsLegal ==
  made = "toDomainName" =>
    IF input = <<>> THEN value = <<>>
    ELSE LegalDomainName(value) /\ (DashesInside(input) => PartsLegal(value))

(* toLabel, when there is something behind the slash, returns what the      *)
(* comments of ToDomainName and ToLabelName say of its two parts; and this  *)
(* is a label of Kubernetes unless what is before the slash has a dash next *)
(* to a dot, or to a byte that becomes one.                                 *)
LabelIsLegal ==
  made = "toLabel" /\ NamePart(input) # <<>> =>
    /\ LegalLabel(value)
    /\ DashesInside(PrefixPart(input)) => KubernetesLabel(value)

(* What is legal already is not changed.                                    *)
KeepsTheLegal ==
  /\ made = "toDomainName" /\ LegalDomainName(input) => value = input
  /\ made = "toLabel" /\ LegalLabel(input) => value = input
=============================================================================
