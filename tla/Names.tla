------------------------------- MODULE Names -------------------------------
(***************************************************************************)
(* ToDomainName and ToLabel: any string becomes a domain name, or a label  *)
(* of Kubernetes.  A string is a sequence of bytes, and a byte one of a    *)
(* few that the code tells apart: "a" is any of a-z and 1-9, "#" any byte  *)
(* that belongs in no name.                                                *)
(***************************************************************************)
EXTENDS Naturals, Sequences

CONSTANTS
  MaxName,   \* maxNameLength
  MaxLabel   \* maxLabelLength

ASSUME Lengths == MaxName \in Nat /\ MaxLabel \in Nat /\ MaxName >= 3 /\ MaxLabel >= 3

LowerAlnum == {"a", "0"}
Alnum == LowerAlnum \cup {"A"}
DomainChars == LowerAlnum \cup {".", "-"}
LabelChars == Alnum \cup {".", "-", "_"}
Chars == LabelChars \cup {"/", "#"}

ToLower(s) == [i \in DOMAIN s |-> IF s[i] = "A" THEN "a" ELSE s[i]]

(* Bytes that are not valid become dots; before a byte that may not be the  *)
(* first comes a zero.                                                      *)
Converted(s, first, valid) ==
  LET body == [i \in DOMAIN s |-> IF s[i] \in valid THEN s[i] ELSE "."]
  IN IF s = <<>> \/ s[1] \in first THEN body ELSE <<"0">> \o body

\* variant: the zero is appended at the limit, too
EndedLong(s, max, last) ==
  LET t == SubSeq(s, 1, IF Len(s) > max THEN max ELSE Len(s))
  IN IF t = <<>> \/ t[Len(t)] \in last THEN t ELSE Append(t, "0")

\* variant: the limit is never reached
EndedShort(s, max, last) ==
  LET t == SubSeq(s, 1, IF Len(s) > max - 1 THEN max - 1 ELSE Len(s))
  IN IF t = <<>> \/ t[Len(t)] \in last THEN t
     ELSE Append(SubSeq(t, 1, Len(t) - 1), "0")

(* The string is cut to the maximal length; when it ends badly, a zero is   *)
(* appended, or at the limit takes the place of the last two bytes.         *)
Ended(s, max, last) ==
  LET t == SubSeq(s, 1, IF Len(s) > max THEN max ELSE Len(s))
  IN CASE t = <<>> \/ t[Len(t)] \in last -> t
       [] t # <<>> /\ t[Len(t)] \notin last /\ Len(t) < max - 1 -> Append(t, "0")
       [] OTHER -> Append(SubSeq(t, 1, Len(t) - 2), "0")

(* strings.ReplaceAll(s, "..", "."): from left to right, without overlap.   *)
DotsAt(s, i) == i < Len(s) /\ s[i] = "." /\ s[i + 1] = "."
ReplaceDots(s) ==
  LET from[i \in Nat] ==
        IF i > Len(s) THEN <<>>
        ELSE IF DotsAt(s, i) THEN <<".">> \o from[i + 2]
        ELSE <<s[i]>> \o from[i + 1]
  IN from[1]

\* variant: replaced once
SingleDotsOnce(s) == ReplaceDots(s)

(* The loop: as long as there are two dots, but not at the beginning.       *)
SingleDots(s) ==
  LET loop[t \in Seq(Chars)] ==
        IF ~DotsAt(t, 1) /\ \E i \in 2 .. Len(t) : DotsAt(t, i)
        THEN loop[ReplaceDots(t)] ELSE t
  IN loop[s]

ToDomainName(s) ==
  Ended(SingleDots(Converted(ToLower(s), LowerAlnum, DomainChars)), MaxName, LowerAlnum)

ToLabelName(s) == Ended(Converted(s, Alnum, LabelChars), MaxLabel, Alnum)

(* What is before and after the first slash.                                *)
Slashes(s) == {i \in DOMAIN s : s[i] = "/"}
FirstSlash(s) == CHOOSE i \in Slashes(s) : \A j \in Slashes(s) : i <= j
PrefixPart(s) == IF Slashes(s) = {} THEN <<>> ELSE SubSeq(s, 1, FirstSlash(s) - 1)
NamePart(s) == IF Slashes(s) = {} THEN s ELSE SubSeq(s, FirstSlash(s) + 1, Len(s))

(* The name "nolabel" is assigned to a variable that is not used any more.  *)
ToLabel(s) ==
  LET prefix == ToDomainName(PrefixPart(s))
      name == ToLabelName(NamePart(s))
  IN IF prefix = <<>> THEN name
     ELSE IF name = <<>> THEN prefix ELSE prefix \o <<"/">> \o name

-----------------------------------------------------------------------------
(* The rules the comments of the functions give.                            *)

Legal(s, max, ends, valid) ==
  /\ Len(s) \in 1 .. max
  /\ \A i \in DOMAIN s : s[i] \in valid
  /\ s[1] \in ends /\ s[Len(s)] \in ends
LegalDomainName(s) ==
  Legal(s, MaxName, LowerAlnum, DomainChars) /\ \A i \in DOMAIN s : ~DotsAt(s, i)
LegalLabelName(s) == Legal(s, MaxLabel, Alnum, LabelChars)
LegalLabel(s) ==
  \/ LegalLabelName(s)
  \/ Slashes(s) # {} /\ LegalDomainName(PrefixPart(s)) /\ LegalLabelName(NamePart(s))

(* The rules Kubernetes has besides for the prefix of a label: each of its  *)
(* parts, between dots, begins and ends with a letter or digit.             *)
PartsLegal(s) ==
  \A i \in 1 .. Len(s) - 1 :
    /\ s[i] = "." => s[i + 1] \in LowerAlnum
    /\ s[i + 1] = "." => s[i] \in LowerAlnum
KubernetesLabel(s) ==
  LegalLabel(s) /\ (Slashes(s) # {} => PartsLegal(PrefixPart(s)))

(* No dash is next to a dot, or to a byte that becomes one.                 *)
DashesInside(s) ==
  \A i \in 1 .. Len(s) - 1 :
    /\ s[i] = "-" => s[i + 1] \in Alnum \cup {"-"}
    /\ s[i + 1] = "-" => s[i] \in Alnum \cup {"-"}
=============================================================================
