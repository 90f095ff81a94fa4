--------------------------- MODULE BuiltInsProofs ---------------------------
(***************************************************************************)
(* The choice of a secret and the commit of a download, for any secrets    *)
(* and messages; the legality of the names that ToDomainName and ToLabel   *)
(* make, for strings of any length.                                        *)
(***************************************************************************)
EXTENDS BuiltIns, WellFoundedInduction, TLAPS

USE DEF NoSecret, HasPreferred

-----------------------------------------------------------------------------
(* Downloads. *)

LEMMA ListIsSeq == DownloadTypeOK => list \in Seq(Secret)
<1>1. <<>> \in Seq(Secret)
  OBVIOUS
<1>2. SecretLists \subseteq Seq(Secret)
  BY RepositoryTable
<1>3. DownloadTypeOK => list \in SecretLists \cup {<<>>}
  BY DEF DownloadTypeOK
<1> QED
  BY <1>1, <1>2, <1>3, Zenon

LEMMA InitInvariant == Init => DownloadIInv
<1> SUFFICES ASSUME Init PROVE DownloadIInv
  OBVIOUS
<1>1. message \in Messages /\ message.commit \in Commits
  BY RepositoryTable DEF Init, DownloadInit, Message
<1>2. step \in {"none", "call"}
  BY DEF Init
<1>3. DownloadTypeOK
  BY <1>1, RepositoryTable DEF Init, DownloadInit, DownloadTypeOK, Nothing, Results
<1>4. Before /\ Scanned /\ SecretIsPreferred /\ ContentOfTheCommit /\ head \in heads
  BY <1>2 DEF Init, DownloadInit, Before, Scanned, SecretIsPreferred, ContentOfTheCommit
<1> QED
  BY <1>2, <1>3, <1>4 DEF DownloadIInv

(* Whoever pushes or edits secrets changes nothing the call has read.       *)
LEMMA OthersKeep ==
  ASSUME DownloadIInv, Push \/ EditSecrets
  PROVE  DownloadIInv'
<1>1. UNCHANGED <<step, callVars>> /\ heads \subseteq heads'
  BY DEF Push, EditSecrets, callVars
<1>2. DownloadTypeOK' /\ (head \in heads)'
  BY RepositoryTable DEF DownloadIInv, DownloadTypeOK, Push, EditSecrets, callVars
<1>3. Before' /\ Scanned' /\ SecretIsPreferred'
  BY <1>1 DEF DownloadIInv, Before, Scanned, SecretIsPreferred, callVars
<1>4. ContentOfTheCommit'
  BY <1>1 DEF DownloadIInv, ContentOfTheCommit, callVars
<1> QED
  BY <1>1, <1>2, <1>3, <1>4 DEF DownloadIInv

(* A step that ends the call, or passes from "scan" or "chosen" on.         *)
LEMMA CallTypes ==
  ASSUME DownloadIInv, UNCHANGED others, message' = message,
         list' \in SecretLists \cup {<<>>}, at' \in Nat \ {0}, left' \subseteq Annotations,
         secret' \in 0 .. Len(list'),
         result' \in Results
  PROVE  DownloadTypeOK' /\ (head \in heads)'
<1>1. /\ message' \in Messages /\ secrets' \in SecretLists /\ head' \in Commits
      /\ changes' \in 0 .. MaxChanges /\ heads' \subseteq Commits /\ head' \in heads'
  BY DEF DownloadIInv, DownloadTypeOK, others
<1> QED
  BY <1>1 DEF DownloadTypeOK

LEMMA ResultTypes == Nothing \in Results /\ \A e \in BOOLEAN : Failed(e) \in Results
  BY DEF Nothing, Failed, Results

LEMMA ListSecretsKeeps == DownloadIInv /\ ListSecrets => DownloadIInv'
<1> SUFFICES ASSUME DownloadIInv, ListSecrets PROVE DownloadIInv'
  OBVIOUS
<1>1. /\ secrets \in Seq(Secret) /\ list' = secrets
      /\ at' = 1 /\ secret' = 0 /\ step' = "scan"
  BY RepositoryTable DEF DownloadIInv, DownloadTypeOK, Before, ListSecrets
<1>2. left' = IF secrets = <<>> THEN {} ELSE secrets[1].annotations
  BY DEF ListSecrets
<1>3. secrets # <<>> => 1 \in DOMAIN secrets /\ secrets[1] \in Secret
  BY <1>1
<1>4. left' \subseteq Annotations
  BY <1>2, <1>3 DEF Secret
<1>5. DownloadTypeOK' /\ (head \in heads)'
  BY <1>1, <1>4 DEF DownloadIInv, DownloadTypeOK, ListSecrets, others
<1>6. Scanned'
  BY <1>1, <1>2, <1>3 DEF Scanned
<1> QED
  BY <1>1, <1>5, <1>6 DEF DownloadIInv, Before, SecretIsPreferred, ContentOfTheCommit

(* The loop over the annotations.                                           *)
LEMMA ScanKeeps == DownloadIInv /\ Scan => DownloadIInv'
<1> SUFFICES ASSUME DownloadIInv, Scan PROVE DownloadIInv'
  OBVIOUS
<1>1. PICK a \in left :
        /\ left' = left \ {a} /\ secret' = at
        /\ step' = IF a \in Preferred THEN "chosen" ELSE step
  BY DEF Scan
<1>2. step = "scan" /\ UNCHANGED <<message, list, at, result, others>>
  BY DEF Scan
<1>3. list # <<>> /\ at \in DOMAIN list /\ left \subseteq list[at].annotations
  BY <1>1, <1>2 DEF DownloadIInv, Scanned
<1>4. list \in Seq(Secret) /\ at \in 1 .. Len(list)
  BY <1>3, ListIsSeq DEF DownloadIInv
<1>5. DownloadTypeOK' /\ (head \in heads)'
  <2>1. secret' \in 0 .. Len(list') /\ left' \subseteq Annotations
    BY <1>1, <1>2, <1>4 DEF DownloadIInv, DownloadTypeOK
  <2> QED
    BY <1>2, <2>1, CallTypes DEF DownloadIInv, DownloadTypeOK, others
<1>6. /\ \A i \in 1 .. at - 1 : ~HasPreferred(i)
      /\ (list[at].annotations \ left) \cap Preferred = {}
  BY <1>2, <1>3 DEF DownloadIInv, Scanned
<1>7. CASE a \in Preferred
  <2>1. SecretIsPreferred'
    <3>1. HasPreferred(at)
      BY <1>1, <1>3, <1>7
    <3> QED
      BY <1>1, <1>2, <1>3, <1>6, <3>1 DEF SecretIsPreferred
  <2> QED
    BY <1>1, <1>5, <1>7, <2>1 DEF DownloadIInv, Before, Scanned, ContentOfTheCommit
<1>8. CASE a \notin Preferred
  <2>1. Scanned'
    <3>1. (list[at].annotations \ left') \cap Preferred = {}
      BY <1>1, <1>6, <1>8
    <3> QED
      BY <1>1, <1>2, <1>3, <1>4, <1>6, <3>1 DEF Scanned
  <2> QED
    BY <1>1, <1>2, <1>5, <1>8, <2>1
      DEF DownloadIInv, Before, SecretIsPreferred, ContentOfTheCommit
<1> QED
  BY <1>7, <1>8

LEMMA NextSecretKeeps == DownloadIInv /\ NextSecret => DownloadIInv'
<1> SUFFICES ASSUME DownloadIInv, NextSecret PROVE DownloadIInv'
  OBVIOUS
<1>1. /\ step = "scan" /\ left = {} /\ at < Len(list) /\ at' = at + 1
      /\ left' = list[at'].annotations
      /\ UNCHANGED <<step, message, list, secret, result, others>>
  BY DEF NextSecret
<1>2. list \in Seq(Secret) /\ at \in Nat \ {0} /\ secret \in 0 .. Len(list)
  BY ListIsSeq DEF DownloadIInv, DownloadTypeOK
<1>3. at \in DOMAIN list /\ at' \in DOMAIN list /\ list # <<>>
  BY <1>1, <1>2
<1>4. left' \subseteq Annotations
  <2>1. list[at'] \in Secret
    BY <1>2, <1>3
  <2>2. list[at'].annotations \subseteq Annotations
    BY <2>1 DEF Secret
  <2> QED
    BY <1>1, <2>2
<1>5. DownloadTypeOK' /\ (head \in heads)'
  <2>1. at' \in Nat \ {0} /\ secret' \in 0 .. Len(list')
    BY <1>1, <1>2
  <2> QED
    BY <1>1, <1>4, <2>1, CallTypes DEF DownloadIInv, DownloadTypeOK, others
<1>6. /\ list[at].annotations \cap Preferred = {}
      /\ secret # at => list[at].annotations = {}
      /\ \A i \in 1 .. at - 1 : ~HasPreferred(i)
      /\ secret # NoSecret => secret <= at /\ list[secret].annotations # {}
      /\ \A i \in 1 .. at - 1 : list[i].annotations # {} => i <= secret
  BY <1>1, <1>3 DEF DownloadIInv, Scanned
<1>7. \A i \in 1 .. at' - 1 : i = at \/ i \in 1 .. at - 1
  BY <1>1, <1>2
<1>8. Scanned'
  BY <1>1, <1>2, <1>3, <1>6, <1>7 DEF Scanned
<1> QED
  BY <1>1, <1>5, <1>8 DEF DownloadIInv, Before, SecretIsPreferred, ContentOfTheCommit

LEMMA EndScanKeeps == DownloadIInv /\ EndScan => DownloadIInv'
<1> SUFFICES ASSUME DownloadIInv, EndScan PROVE DownloadIInv'
  OBVIOUS
<1>1. /\ step = "scan" /\ left = {} /\ at >= Len(list) /\ step' = "chosen"
      /\ UNCHANGED <<callVars, others>>
  BY DEF EndScan
<1>2. list \in Seq(Secret) /\ at \in Nat \ {0} /\ secret \in 0 .. Len(list)
  BY ListIsSeq DEF DownloadIInv, DownloadTypeOK
<1>3. DownloadTypeOK' /\ (head \in heads)'
  BY <1>1 DEF DownloadIInv, DownloadTypeOK, callVars, others
<1>4. SecretIsPreferred'
  <2>1. CASE list = <<>>
    BY <1>1, <2>1 DEF SecretIsPreferred, callVars
  <2>2. CASE list # <<>>
    <3>1. at = Len(list) /\ at \in DOMAIN list
      BY <1>1, <1>2, <2>2 DEF DownloadIInv, Scanned
    <3>2. /\ list[at].annotations \cap Preferred = {}
          /\ secret # at => list[at].annotations = {}
          /\ \A i \in 1 .. at - 1 : ~HasPreferred(i)
          /\ secret # NoSecret => secret <= at /\ list[secret].annotations # {}
          /\ \A i \in 1 .. at - 1 : list[i].annotations # {} => i <= secret
      BY <1>1, <2>2 DEF DownloadIInv, Scanned
    <3>3. \A i \in DOMAIN list : i = at \/ i \in 1 .. at - 1
      BY <1>2, <3>1
    <3>4. \A i \in DOMAIN list : ~HasPreferred(i)
      BY <3>2, <3>3
    <3>5. \A i \in DOMAIN list : list[i].annotations # {} => i <= secret
      BY <1>2, <3>1, <3>2, <3>3
    <3>6. \A i \in DOMAIN list : list[i].annotations # {} => list[secret].annotations # {}
      BY <1>2, <3>2, <3>5
    <3> QED
      BY <1>1, <3>4, <3>5, <3>6 DEF SecretIsPreferred, callVars
  <2> QED
    BY <2>1, <2>2
<1> QED
  BY <1>1, <1>3, <1>4 DEF DownloadIInv, Before, Scanned, ContentOfTheCommit

(* The steps that end the call, or do so at times.                          *)
LEMMA OtherStepsKeep ==
  ASSUME DownloadIInv, Refuse \/ ListFails \/ UseSecret \/ Get \/ GetFails
  PROVE  DownloadIInv'
<1>1. /\ step \in {"call", "chosen", "get"}
      /\ step' \in {"get", "returned", "error", "panic"}
      /\ step' = "get" => step = "chosen"
      /\ UNCHANGED <<message, list, at, left, secret, others>>
  BY DEF Refuse, ListFails, UseSecret, Get, GetFails, Return, callVars
<1>2. /\ result \in Results /\ message \in Messages /\ message \in Message
      /\ head \in Commits
  BY RepositoryTable DEF DownloadIInv, DownloadTypeOK
<1>3. Asked \in (IF message.kind = "other" THEN heads ELSE {message.commit})
        /\ Asked \in Commits
  BY <1>2, RepositoryTable DEF Asked, Ref, DownloadIInv, Message
<1>4. \/ result' = result /\ step' # "returned"
      \/ result' = Nothing \/ result' = Failed(FALSE)
      \/ result' = Received(Asked)
  BY DEF Refuse, ListFails, UseSecret, Get, GetFails, Return, callVars
<1>5. Received(Asked) \in Results
  BY <1>3, ResultTypes DEF Received, Results
<1>6. DownloadTypeOK' /\ (head \in heads)'
  <2>1. result' \in Results
    BY <1>2, <1>4, <1>5, ResultTypes
  <2> QED
    BY <1>1, <2>1, CallTypes DEF DownloadIInv, DownloadTypeOK, others
<1>7. SecretIsPreferred'
  BY <1>1 DEF DownloadIInv, SecretIsPreferred
<1>8. ContentOfTheCommit'
  <2>1. /\ Received(Asked).exists => FileAt[Asked] \notin {"missing", "nofile"}
        /\ ~Received(Asked).error /\ Received(Asked).exists =>
             Received(Asked).content = Asked /\ FileAt[Asked] = "yaml"
    BY <1>3, RepositoryTable DEF Received, Failed, FileKinds
  <2>2. ~Nothing.exists /\ ~Failed(FALSE).exists
    BY DEF Nothing, Failed
  <2> QED
    BY <1>1, <1>3, <1>4, <2>1, <2>2 DEF ContentOfTheCommit, others
<1> QED
  BY <1>1, <1>6, <1>7, <1>8 DEF DownloadIInv, Before, Scanned

LEMMA StepInvariant == DownloadIInv /\ [Next]_vars => DownloadIInv'
<1> SUFFICES ASSUME DownloadIInv, [Next]_vars PROVE DownloadIInv'
  OBVIOUS
<1>1. CASE UNCHANGED downloadVars
  <2>1. UNCHANGED <<step, message, list, at, left, secret, result,
                    secrets, head, changes, heads>>
    BY <1>1 DEF downloadVars, callVars, others
  <2> QED
    BY <2>1 DEF DownloadIInv, DownloadTypeOK, Before, Scanned, SecretIsPreferred,
                ContentOfTheCommit
<1>2. CASE DownloadStep
  BY <1>2, OthersKeep, ListSecretsKeeps, ScanKeeps, NextSecretKeeps, EndScanKeeps,
     OtherStepsKeep DEF DownloadStep
<1>3. DomainName \/ Label \/ Substring => UNCHANGED downloadVars
  BY DEF DomainName, Label, Substring, Applied
<1> QED
  BY <1>1, <1>2, <1>3 DEF Next, vars

(* The inductive invariant of downloads holds in every reachable state.     *)
THEOREM Invariance == Spec => []DownloadIInv
  BY InitInvariant, StepInvariant, PTL DEF Spec

(* getGitHubSecretForRepo: the preferred secret, in whatever order the      *)
(* annotations come.                                                        *)
THEOREM PreferredSecret == Spec => []SecretIsPreferred
<1>1. DownloadIInv => SecretIsPreferred
  BY DEF DownloadIInv
<1> QED
  BY <1>1, Invariance, PTL

(* DownloadYAML: the content is that of the commit of the message, wherever *)
(* the branch is.                                                           *)
THEOREM RightContent == Spec => []ContentOfTheCommit
<1>1. DownloadIInv => ContentOfTheCommit
  BY DEF DownloadIInv
<1> QED
  BY <1>1, Invariance, PTL

-----------------------------------------------------------------------------
(* Induction. *)

(* A set of numbers has a least element; so what holds of 0, and of n + 1   *)
(* when it holds of n, holds of every number.  The sets take the place of   *)
(* the predicates of the library's theorems.                                *)
LEMMA LeastNatural ==
  ASSUME NEW T, T \subseteq Nat, T # {}
  PROVE  \E x \in T : \A y \in T : x <= y
<1> DEFINE R == {ss \in Nat \X Nat : ss[1] < ss[2]}
<1>1. IsWellFoundedOn(R, Nat)
  BY NatLessThanWellFounded DEF OpToRel
<1>2. PICK x \in T : \A y \in T : <<y, x>> \notin R
  <2> HIDE DEF R
  <2> QED
    BY <1>1, WFMin
<1>3. ASSUME NEW y \in T PROVE ~(y < x)
  <2>1. <<y, x>> \in Nat \X Nat /\ <<y, x>>[1] = y /\ <<y, x>>[2] = x
    OBVIOUS
  <2> QED
    BY <1>2, <2>1
<1> QED
  BY <1>2, <1>3

LEMMA Induction ==
  ASSUME NEW T, 0 \in T, \A n \in Nat : n \in T => n + 1 \in T
  PROVE  \A n \in Nat : n \in T
<1> DEFINE U == Nat \ T
<1>1. SUFFICES ASSUME U # {} PROVE FALSE
  OBVIOUS
<1>2. PICK x \in U : \A y \in U : x <= y
  <2>1. U \subseteq Nat
    OBVIOUS
  <2> HIDE DEF U
  <2> QED
    BY <1>1, <2>1, LeastNatural
<1>3. x \in Nat /\ x # 0 /\ x - 1 \in Nat /\ x - 1 \notin U
  BY <1>2
<1> QED
  BY <1>2, <1>3

-----------------------------------------------------------------------------
(* ReplaceDots. *)

(* The function that ReplaceDots defines is there: it is given from the end *)
(* of the string on, one byte more at a time.                               *)
LEMMA ReplaceDotsIs ==
  ASSUME NEW s \in Seq(Chars)
  PROVE  \E from :
           /\ ReplaceDots(s) = from[1]
           /\ \A i \in Nat : from[i] =
                IF i > Len(s) THEN <<>>
                ELSE IF DotsAt(s, i) THEN <<".">> \o from[i + 2]
                ELSE <<s[i]>> \o from[i + 1]
<1> DEFINE At(g, i) ==
             IF i > Len(s) THEN <<>>
             ELSE IF DotsAt(s, i) THEN <<".">> \o g[i + 2]
             ELSE <<s[i]>> \o g[i + 1]
           T == {n \in Nat : \E g : \A i \in Nat : i + n > Len(s) => g[i] = At(g, i)}
<1>1. 0 \in T
  <2>1. \A i \in Nat : i + 0 > Len(s) => [j \in Nat |-> <<>>][i] = At([j \in Nat |-> <<>>], i)
    OBVIOUS
  <2> QED
    BY <2>1
<1>2. ASSUME NEW n \in Nat, n \in T PROVE n + 1 \in T
  <2>1. PICK g : \A i \in Nat : i + n > Len(s) => g[i] = At(g, i)
    BY <1>2
  <2> DEFINE h == [j \in Nat |-> At(g, j)]
  <2>2. ASSUME NEW i \in Nat, i + (n + 1) > Len(s) PROVE h[i] = At(h, i)
    <3>1. i + 1 \in Nat /\ i + 2 \in Nat /\ i + 1 + n > Len(s) /\ i + 2 + n > Len(s)
      BY <2>2
    <3>2. h[i + 1] = g[i + 1] /\ h[i + 2] = g[i + 2]
      BY <2>1, <3>1
    <3> QED
      BY <3>2
  <2> HIDE DEF h
  <2> QED
    BY <2>2
<1>3. Len(s) + 1 \in T
  <2> HIDE DEF T
  <2> QED
    BY <1>1, <1>2, Induction
<1>4. PICK g : \A i \in Nat : i + (Len(s) + 1) > Len(s) => g[i] = At(g, i)
  BY <1>3
<1> DEFINE f == [i \in Nat |-> At(g, i)]
<1>5. f = [i \in Nat |-> At(f, i)]
  <2>1. \A i \in Nat : f[i] = g[i]
    BY <1>4
  <2> QED
    BY <2>1
<1> DEFINE from == CHOOSE k : k = [i \in Nat |-> At(k, i)]
<1>6. from = [i \in Nat |-> At(from, i)]
  <2> HIDE DEF f
  <2> QED
    BY <1>5
<1>7. ReplaceDots(s) = from[1]
  BY DEF ReplaceDots
<1> HIDE DEF from
<1> QED
  BY <1>6, <1>7

LEMMA Preceded ==
  ASSUME NEW S, NEW x \in S, NEW g \in Seq(S)
  PROVE  LET t == <<x>> \o g
         IN t \in Seq(S) /\ Len(t) = 1 + Len(g) /\ t[1] = x /\ t # <<>>
<1>1. <<x>> \in Seq(S) /\ Len(<<x>>) = 1 /\ <<x>>[1] = x /\ Len(g) \in Nat
  OBVIOUS
<1> DEFINE t == <<x>> \o g
<1>2. t \in Seq(S) /\ Len(t) = 1 + Len(g) /\ t[1] = x
  BY <1>1
<1> HIDE DEF t
<1>3. t # <<>>
  BY <1>1, <1>2
<1> QED
  BY <1>2, <1>3 DEF t

(* No dash is next to a dot.                                                *)
Apart(s) ==
  \A i \in 1 .. Len(s) - 1 :
    /\ s[i] = "." => s[i + 1] # "-"
    /\ s[i] = "-" => s[i + 1] # "."

LEMMA ApartPreceded ==
  ASSUME NEW S, NEW x \in S, NEW g \in Seq(S), Apart(g),
         g # <<>> => (x = "." => g[1] # "-") /\ (x = "-" => g[1] # ".")
  PROVE  Apart(<<x>> \o g)
<1> DEFINE t == <<x>> \o g
<1>1. Len(g) \in Nat /\ Len(t) = 1 + Len(g) /\ t[1] = x
  BY Preceded
<1>2. \A i \in 1 .. Len(g) : t[i + 1] = g[i]
  OBVIOUS
<1> HIDE DEF t
<1> SUFFICES ASSUME NEW i \in 1 .. Len(t) - 1
             PROVE  (t[i] = "." => t[i + 1] # "-") /\ (t[i] = "-" => t[i + 1] # ".")
  BY DEF Apart, t
<1>3. CASE i = 1
  <2>1. t[i + 1] = g[1] /\ g # <<>>
    BY <1>1, <1>2, <1>3
  <2> QED
    BY <1>1, <1>3, <2>1
<1>4. CASE i > 1
  <2>1. i - 1 \in 1 .. Len(g) - 1
    BY <1>1, <1>4
  <2>2. t[i] = g[i - 1] /\ t[i + 1] = g[(i - 1) + 1]
    <3>1. (i - 1) \in 1 .. Len(g) /\ i \in 1 .. Len(g) /\ (i - 1) + 1 = i
      BY <1>1, <2>1
    <3>2. t[(i - 1) + 1] = g[i - 1] /\ t[i + 1] = g[i]
      BY <1>2, <3>1
    <3> QED
      BY <3>1, <3>2
  <2> QED
    BY <2>1, <2>2 DEF Apart
<1> QED
  BY <1>1, <1>3, <1>4

(* Replacing gives a string of the same bytes and the same first byte, that *)
(* is shorter when there was something to replace; it puts no dash next to  *)
(* a dot.                                                                   *)
LEMMA ReplaceDotsShortens ==
  ASSUME NEW valid, valid \subseteq Chars, NEW s \in Seq(valid)
  PROVE  LET t == ReplaceDots(s)
         IN /\ t \in Seq(valid) /\ Len(t) <= Len(s)
            /\ s # <<>> => t # <<>> /\ t[1] = s[1]
            /\ (\E i \in 1 .. Len(s) : DotsAt(s, i)) => Len(t) < Len(s)
            /\ Apart(s) => Apart(t)
<1>0. s \in Seq(Chars) /\ Len(s) \in Nat /\ \A i \in 1 .. Len(s) : s[i] \in valid
  OBVIOUS
<1>1. PICK from :
        /\ ReplaceDots(s) = from[1]
        /\ \A i \in Nat : from[i] =
             IF i > Len(s) THEN <<>>
             ELSE IF DotsAt(s, i) THEN <<".">> \o from[i + 2]
             ELSE <<s[i]>> \o from[i + 1]
  BY <1>0, ReplaceDotsIs
<1> DEFINE Rest(i) == Len(s) + 1 - i
           Fine(i) ==
             /\ from[i] \in Seq(valid)
             /\ i <= Len(s) + 1 => Len(from[i]) <= Rest(i)
             /\ i <= Len(s) => from[i] # <<>> /\ from[i][1] = s[i]
             /\ i <= Len(s) /\ (\E j \in i .. Len(s) : DotsAt(s, j)) => Len(from[i]) < Rest(i)
             /\ Apart(s) => Apart(from[i])
           T == {n \in Nat : \A i \in Nat \ {0} : i + n > Len(s) => Fine(i)}
<1>2. 0 \in T
  <2>1. ASSUME NEW i \in Nat \ {0}, i + 0 > Len(s) PROVE Fine(i)
    <3>1. i \in Nat /\ i > Len(s) /\ ~(i <= Len(s))
      BY <1>0, <2>1
    <3>2. from[i] = <<>>
      BY <1>1, <3>1
    <3>3. <<>> \in Seq(valid) /\ Len(<<>>) = 0 /\ Apart(<<>>)
      BY DEF Apart
    <3> QED
      BY <1>0, <3>1, <3>2, <3>3
  <2> HIDE DEF Fine
  <2> QED
    BY <2>1
<1>3. ASSUME NEW n \in Nat, n \in T PROVE n + 1 \in T
  <2> HIDE DEF Fine
  <2> SUFFICES ASSUME NEW i \in Nat \ {0}, i + (n + 1) > Len(s) PROVE Fine(i)
    OBVIOUS
  <2> USE DEF Fine
  <2>1. i \in Nat
    OBVIOUS
  <2>2. from[i] =
          IF i > Len(s) THEN <<>>
          ELSE IF DotsAt(s, i) THEN <<".">> \o from[i + 2]
          ELSE <<s[i]>> \o from[i + 1]
    BY <1>1, <2>1
  <2>3. i <= Len(s) => ~(i > Len(s))
    BY <1>0, <2>1
  <2>4. Fine(i + 1) /\ Fine(i + 2)
    <3>1. /\ i + 1 \in Nat \ {0} /\ i + 1 + n > Len(s)
          /\ i + 2 \in Nat \ {0} /\ i + 2 + n > Len(s)
      BY <1>0
    <3> HIDE DEF Fine
    <3>2. \A k \in Nat \ {0} : k + n > Len(s) => Fine(k)
      BY <1>3
    <3> QED
      BY <3>1, <3>2
  <2>5. CASE i > Len(s)
    <3>1. from[i] = <<>>
      BY <1>1, <2>5
    <3>2. Apart(from[i])
      BY <3>1 DEF Apart
    <3> QED
      BY <1>0, <2>5, <3>1, <3>2
  <2>6. CASE i <= Len(s) /\ DotsAt(s, i)
    <3> DEFINE g == from[i + 2]
    <3>1. from[i] = <<".">> \o g
      BY <2>2, <2>3, <2>6
    <3>2. i + 1 <= Len(s) /\ s[i] = "." /\ "." \in valid
      BY <1>0, <2>6 DEF DotsAt
    <3>3. g \in Seq(valid) /\ Len(g) <= Len(s) + 1 - (i + 2)
      BY <1>0, <2>4, <3>2
    <3> HIDE DEF g
    <3>4. /\ from[i] \in Seq(valid) /\ Len(from[i]) = 1 + Len(g)
          /\ from[i][1] = "." /\ from[i] # <<>>
      BY <3>1, <3>2, <3>3, Preceded
    <3>5. Len(from[i]) < Rest(i)
      BY <1>0, <3>2, <3>3, <3>4
    <3>6. ASSUME Apart(s) PROVE Apart(from[i])
      <4>1. Apart(g)
        BY <2>4, <3>6 DEF g
      <4>2. ASSUME g # <<>> PROVE g[1] # "-"
        <5>1. i + 2 <= Len(s)
          <6> DEFINE k == i + 2
          <6>1. k \in Nat /\ from[k] # <<>>
            BY <4>2 DEF g
          <6> HIDE DEF k
          <6>2. ~(k > Len(s))
            BY <1>1, <6>1
          <6> QED
            BY <1>0, <6>1, <6>2 DEF k
        <5>2. g[1] = s[i + 2]
          BY <2>4, <5>1 DEF g
        <5>3. i + 1 \in 1 .. Len(s) - 1 /\ s[i + 1] = "."
          BY <1>0, <2>6, <5>1 DEF DotsAt
        <5>4. s[(i + 1) + 1] # "-"
          BY <3>6, <5>3 DEF Apart
        <5> QED
          BY <5>2, <5>4
      <4> QED
        BY <3>1, <3>2, <3>3, <4>1, <4>2, ApartPreceded
    <3> QED
      BY <1>0, <2>6, <3>2, <3>4, <3>5, <3>6
  <2>7. CASE i <= Len(s) /\ ~DotsAt(s, i)
    <3> DEFINE g == from[i + 1]
    <3>1. from[i] = <<s[i]>> \o g
      BY <2>2, <2>3, <2>7
    <3>2. /\ g \in Seq(valid) /\ Len(g) <= Len(s) + 1 - (i + 1)
          /\ i + 1 <= Len(s) /\ (\E j \in i + 1 .. Len(s) : DotsAt(s, j))
               => Len(g) < Len(s) + 1 - (i + 1)
      BY <1>0, <2>4, <2>7
    <3> HIDE DEF g
    <3>3. /\ from[i] \in Seq(valid) /\ Len(from[i]) = 1 + Len(g)
          /\ from[i][1] = s[i] /\ from[i] # <<>>
      <4>1. s[i] \in valid
        BY <1>0, <2>7
      <4> QED
        BY <3>1, <3>2, <4>1, Preceded
    <3>4. ASSUME NEW j \in i .. Len(s), DotsAt(s, j)
          PROVE  Len(from[i]) < Rest(i)
      <4>1. j \in i + 1 .. Len(s) /\ i + 1 <= Len(s)
        <5>1. j # i
          BY <2>7, <3>4
        <5> QED
          BY <1>0, <5>1
      <4>2. Len(g) < Len(s) + 1 - (i + 1)
        BY <3>2, <3>4, <4>1
      <4> QED
        BY <1>0, <3>1, <3>2, <3>3, <4>2
    <3>5. ASSUME Apart(s) PROVE Apart(from[i])
      <4>1. Apart(g) /\ s[i] \in valid
        BY <1>0, <2>4, <2>7, <3>5 DEF g
      <4>2. ASSUME g # <<>> PROVE (s[i] = "." => g[1] # "-") /\ (s[i] = "-" => g[1] # ".")
        <5>1. i + 1 <= Len(s)
          <6> DEFINE k == i + 1
          <6>1. k \in Nat /\ from[k] # <<>>
            BY <4>2 DEF g
          <6> HIDE DEF k
          <6>2. ~(k > Len(s))
            BY <1>1, <6>1
          <6> QED
            BY <1>0, <6>1, <6>2 DEF k
        <5>2. g[1] = s[i + 1] /\ i \in 1 .. Len(s) - 1
          BY <1>0, <2>4, <5>1 DEF g
        <5> QED
          BY <3>5, <5>2 DEF Apart
      <4> QED
        BY <3>1, <3>2, <4>1, <4>2, ApartPreceded
    <3> QED
      BY <1>0, <2>7, <3>1, <3>2, <3>3, <3>4, <3>5
  <2> QED
    BY <1>0, <2>5, <2>6, <2>7
<1>4. Len(s) \in T
  <2> HIDE DEF T
  <2> QED
    BY <1>0, <1>2, <1>3, Induction
<1>5. Fine(1)
  <2> HIDE DEF Fine
  <2> QED
    BY <1>0, <1>4
<1> QED
  BY <1>0, <1>1, <1>5

-----------------------------------------------------------------------------
(* SingleDots. *)

(* The function that SingleDots defines is there: a string is replaced by a *)
(* shorter one, and what two functions say of the shorter ones agrees.      *)
LEMMA SingleDotsIs ==
  \E loop :
    /\ \A s : SingleDots(s) = loop[s]
    /\ \A t \in Seq(Chars) : loop[t] =
         IF ~DotsAt(t, 1) /\ \E i \in 2 .. Len(t) : DotsAt(t, i)
         THEN loop[ReplaceDots(t)] ELSE t
<1> DEFINE More(t) == ~DotsAt(t, 1) /\ \E i \in 2 .. Len(t) : DotsAt(t, i)
           Step(g, t) == IF More(t) THEN g[ReplaceDots(t)] ELSE t
           Good(g, n) == \A t \in Seq(Chars) : Len(t) < n => g[t] = Step(g, t)
<1>1. ASSUME NEW t \in Seq(Chars), More(t)
      PROVE  ReplaceDots(t) \in Seq(Chars) /\ Len(ReplaceDots(t)) < Len(t)
  <2>1. \E i \in 1 .. Len(t) : DotsAt(t, i)
    BY <1>1
  <2> QED
    BY <2>1, ReplaceDotsShortens
<1> HIDE DEF More
<1>2. ASSUME NEW g, NEW h, NEW n \in Nat, Good(g, n), Good(h, n),
             NEW t \in Seq(Chars), Len(t) < n
      PROVE  g[t] = h[t]
  <2> DEFINE U == {k \in Nat : \E u \in Seq(Chars) : Len(u) = k /\ k < n /\ g[u] # h[u]}
  <2>1. SUFFICES ASSUME U # {} PROVE FALSE
    BY <1>2
  <2>2. PICK k \in U : \A j \in U : k <= j
    <3>1. U \subseteq Nat
      OBVIOUS
    <3> HIDE DEF U
    <3> QED
      BY <2>1, <3>1, LeastNatural
  <2>3. PICK u \in Seq(Chars) : Len(u) = k /\ k < n /\ g[u] # h[u]
    BY <2>2
  <2>4. g[u] = Step(g, u) /\ h[u] = Step(h, u)
    BY <1>2, <2>3
  <2>5. More(u) /\ g[ReplaceDots(u)] # h[ReplaceDots(u)]
    BY <2>3, <2>4
  <2> DEFINE r == ReplaceDots(u)
  <2>6. r \in Seq(Chars) /\ Len(r) < k /\ g[r] # h[r] /\ Len(r) \in Nat
    BY <1>1, <2>3, <2>5
  <2> HIDE DEF r
  <2>7. Len(r) \in U
    BY <2>2, <2>3, <2>6
  <2> QED
    BY <2>2, <2>6, <2>7
<1> DEFINE T == {n \in Nat : \E g : Good(g, n)}
<1>3. 0 \in T
  <2>1. Good(<<>>, 0)
    OBVIOUS
  <2> QED
    BY <2>1
<1>4. ASSUME NEW n \in Nat, n \in T PROVE n + 1 \in T
  <2>1. PICK g : Good(g, n)
    BY <1>4
  <2> DEFINE h == [t \in Seq(Chars) |-> Step(g, t)]
  <2>2. ASSUME NEW t \in Seq(Chars), Len(t) < n + 1 PROVE h[t] = Step(h, t)
    <3>1. CASE More(t)
      <4>1. ReplaceDots(t) \in Seq(Chars) /\ Len(ReplaceDots(t)) < n
        BY <1>1, <2>2, <3>1
      <4>2. h[ReplaceDots(t)] = g[ReplaceDots(t)]
        BY <2>1, <4>1
      <4> QED
        BY <3>1, <4>2
    <3>2. CASE ~More(t)
      BY <3>2
    <3> QED
      BY <3>1, <3>2
  <2> HIDE DEF h
  <2>3. Good(h, n + 1)
    BY <2>2
  <2> HIDE DEF Good
  <2> QED
    BY <2>3
<1> DEFINE G == [n \in Nat |-> CHOOSE g : Good(g, n)]
<1>5. ASSUME NEW n \in Nat PROVE Good(G[n], n)
  <2>1. n \in T
    <3> HIDE DEF T
    <3> QED
      BY <1>3, <1>4, Induction
  <2> HIDE DEF Good
  <2>2. PICK g : Good(g, n)
    BY <2>1
  <2> QED
    BY <2>2
<1> HIDE DEF G, T
<1> DEFINE f == [t \in Seq(Chars) |-> G[Len(t) + 1][t]]
<1>6. ASSUME NEW t \in Seq(Chars) PROVE f[t] = Step(f, t)
  <2>1. Len(t) + 1 \in Nat
    OBVIOUS
  <2>2. f[t] = Step(G[Len(t) + 1], t)
    BY <1>5, <2>1
  <2>3. CASE More(t)
    <3> DEFINE r == ReplaceDots(t)
               m == Len(r) + 1
               n == Len(t) + 1
    <3>1. r \in Seq(Chars) /\ Len(r) < Len(t) /\ m \in Nat /\ n \in Nat /\ m < n
      BY <1>1, <2>1, <2>3
    <3>2. Good(G[m], m) /\ Good(G[n], n)
      BY <1>5, <3>1
    <3>3. Good(G[n], m)
      BY <3>1, <3>2
    <3>4. G[m][r] = G[n][r]
      <4>1. Len(r) < m
        BY <3>1
      <4> HIDE DEF Good, m, n, r
      <4> QED
        BY <1>2, <3>1, <3>2, <3>3, <4>1
    <3>5. f[r] = G[m][r]
      BY <3>1
    <3> QED
      BY <2>2, <2>3, <3>4, <3>5
  <2>4. CASE ~More(t)
    BY <2>2, <2>4
  <2> QED
    BY <2>3, <2>4
<1>7. f = [t \in Seq(Chars) |-> Step(f, t)]
  <2> HIDE DEF Step
  <2> QED
    BY <1>6
<1> DEFINE loop == CHOOSE k : k = [t \in Seq(Chars) |-> Step(k, t)]
<1>8. loop = [t \in Seq(Chars) |-> Step(loop, t)]
  <2> HIDE DEF f, Step
  <2> QED
    BY <1>7
<1>9. \A s : SingleDots(s) = loop[s]
  BY DEF SingleDots, More
<1> HIDE DEF loop
<1> QED
  BY <1>8, <1>9 DEF More

Single(s) == \A i \in DOMAIN s : ~DotsAt(s, i)

(* A string that begins with another byte than a dot loses its double dots, *)
(* and keeps its first byte and what its bytes are.                         *)
LEMMA SingleDotsIsSingle ==
  ASSUME NEW valid, valid \subseteq Chars, NEW s \in Seq(valid), s # <<>>, s[1] # "."
  PROVE  LET t == SingleDots(s)
         IN /\ t \in Seq(valid) /\ t # <<>> /\ t[1] = s[1] /\ Single(t)
            /\ Apart(s) => Apart(t)
<1>1. PICK loop :
        /\ \A u : SingleDots(u) = loop[u]
        /\ \A u \in Seq(Chars) : loop[u] =
             IF ~DotsAt(u, 1) /\ \E i \in 2 .. Len(u) : DotsAt(u, i)
             THEN loop[ReplaceDots(u)] ELSE u
  BY SingleDotsIs
<1> DEFINE Starts(u) == u # <<>> /\ u[1] # "."
           Fine(u) ==
             /\ loop[u] \in Seq(valid) /\ loop[u] # <<>> /\ loop[u][1] = u[1] /\ Single(loop[u])
             /\ Apart(u) => Apart(loop[u])
           U == {k \in Nat : \E u \in Seq(valid) : Len(u) = k /\ Starts(u) /\ ~Fine(u)}
<1>2. ASSUME NEW u \in Seq(valid), Starts(u),
             \A r \in Seq(valid) : Len(r) < Len(u) /\ Starts(r) => Fine(r)
      PROVE  Fine(u)
  <2>1. u \in Seq(Chars) /\ Len(u) \in Nat /\ DOMAIN u = 1 .. Len(u) /\ ~DotsAt(u, 1)
    BY <1>2 DEF DotsAt
  <2>2. CASE \E i \in 2 .. Len(u) : DotsAt(u, i)
    <3> DEFINE r == ReplaceDots(u)
    <3>1. /\ r \in Seq(valid) /\ r # <<>> /\ r[1] = u[1] /\ Len(r) < Len(u)
          /\ Apart(u) => Apart(r)
      <4>1. \E i \in 1 .. Len(u) : DotsAt(u, i)
        BY <2>1, <2>2
      <4> QED
        BY <1>2, <4>1, ReplaceDotsShortens
    <3>2. loop[u] = loop[r]
      BY <1>1, <2>1, <2>2
    <3> HIDE DEF r
    <3>3. Fine(r)
      BY <1>2, <3>1
    <3> QED
      BY <3>1, <3>2, <3>3
  <2>3. CASE ~\E i \in 2 .. Len(u) : DotsAt(u, i)
    <3>1. loop[u] = u
      BY <1>1, <2>1, <2>3
    <3>2. Single(u)
      BY <2>1, <2>3 DEF Single
    <3> QED
      BY <1>2, <3>1, <3>2
  <2> QED
    BY <2>2, <2>3
<1>3. U = {}
  <2> HIDE DEF Starts, Fine
  <2> SUFFICES ASSUME U # {} PROVE FALSE
    OBVIOUS
  <2>1. PICK k \in U : \A j \in U : k <= j
    <3>1. U \subseteq Nat
      OBVIOUS
    <3> HIDE DEF U
    <3> QED
      BY <3>1, LeastNatural
  <2>2. PICK u \in Seq(valid) : Len(u) = k /\ Starts(u) /\ ~Fine(u)
    BY <2>1
  <2>3. ASSUME NEW r \in Seq(valid), Len(r) < Len(u), Starts(r) PROVE Fine(r)
    <3>1. Len(r) \in Nat /\ Len(r) \notin U
      BY <2>1, <2>2, <2>3
    <3> QED
      BY <2>3, <3>1
  <2> QED
    BY <1>2, <2>2, <2>3
<1>4. Fine(s)
  <2>1. Len(s) \in Nat /\ Starts(s)
    OBVIOUS
  <2> HIDE DEF Starts, Fine
  <2> QED
    BY <1>3, <2>1
<1> QED
  BY <1>1, <1>4

LEMMA SingleDotsOfSingle ==
  ASSUME NEW s \in Seq(Chars), Single(s)
  PROVE  SingleDots(s) = s
<1>1. ~\E i \in 2 .. Len(s) : DotsAt(s, i)
  <2>1. DOMAIN s = 1 .. Len(s) /\ Len(s) \in Nat
    OBVIOUS
  <2> QED
    BY <2>1 DEF Single
<1> QED
  BY <1>1, SingleDotsIs

-----------------------------------------------------------------------------
(* Converted and Ended. *)

(* What is converted is as valid as the bytes allowed, but for its end.     *)
LEMMA ConvertedIsValid ==
  ASSUME NEW s \in Seq(Chars), s # <<>>, NEW first, NEW valid,
         "0" \in first, "0" \in valid, "." \in valid, first \subseteq valid
  PROVE  LET t == Converted(s, first, valid)
         IN t \in Seq(valid) /\ Len(t) >= 1 /\ t[1] \in first
<1> DEFINE body == [i \in DOMAIN s |-> IF s[i] \in valid THEN s[i] ELSE "."]
<1>1. Len(s) \in Nat /\ Len(s) >= 1 /\ DOMAIN s = 1 .. Len(s)
  OBVIOUS
<1>2. body \in Seq(valid) /\ Len(body) = Len(s) /\ body[1] = IF s[1] \in valid THEN s[1] ELSE "."
  BY <1>1
<1> HIDE DEF body
<1>3. CASE s[1] \in first
  <2>1. Converted(s, first, valid) = body
    BY <1>3 DEF Converted, body
  <2> QED
    BY <1>1, <1>2, <1>3, <2>1
<1>4. CASE s[1] \notin first
  <2>1. Converted(s, first, valid) = <<"0">> \o body
    BY <1>4 DEF Converted, body
  <2>2. <<"0">> \in Seq(valid)
    OBVIOUS
  <2> QED
    BY <1>1, <1>2, <2>1, <2>2
<1> QED
  BY <1>3, <1>4

(* What is cut and ended is legal when it was valid and began well.         *)
LEMMA EndedIsLegal ==
  ASSUME NEW max \in Nat, max >= 3, NEW valid, NEW ends, "0" \in ends, ends \subseteq valid,
         NEW s \in Seq(valid), Len(s) >= 1, s[1] \in ends
  PROVE  Legal(Ended(s, max, ends), max, ends, valid)
<1> DEFINE n == IF Len(s) > max THEN max ELSE Len(s)
           t == SubSeq(s, 1, n)
<1>1. n \in 1 .. max /\ n <= Len(s) /\ n \in Nat
  OBVIOUS
<1>2. t \in Seq(valid) /\ Len(t) = n /\ t[1] = s[1] /\ t # <<>>
  BY <1>1
<1> HIDE DEF n, t
<1>3. CASE t[Len(t)] \in ends
  <2>1. Ended(s, max, ends) = t
    BY <1>3 DEF Ended, t, n
  <2> QED
    BY <1>1, <1>2, <1>3, <2>1 DEF Legal
<1>4. CASE t[Len(t)] \notin ends /\ Len(t) < max - 1
  <2>1. Ended(s, max, ends) = Append(t, "0")
    BY <1>2, <1>4 DEF Ended, t, n
  <2> QED
    BY <1>1, <1>2, <1>4, <2>1 DEF Legal
<1>5. CASE t[Len(t)] \notin ends /\ ~(Len(t) < max - 1)
  <2>1. Ended(s, max, ends) = Append(SubSeq(t, 1, Len(t) - 2), "0")
    BY <1>2, <1>5 DEF Ended, t, n
  <2>2. Len(t) >= 2
    BY <1>1, <1>2, <1>5
  <2> DEFINE u == SubSeq(t, 1, Len(t) - 2)
  <2>3. u \in Seq(valid) /\ Len(u) = Len(t) - 2 /\ (Len(u) > 0 => u[1] = t[1])
    BY <1>1, <1>2, <2>2
  <2> HIDE DEF u
  <2>4. Append(u, "0") \in Seq(valid) /\ Len(Append(u, "0")) = Len(u) + 1
    BY <2>3
  <2>5. Append(u, "0")[Len(u) + 1] = "0" /\ (Len(u) > 0 => Append(u, "0")[1] = u[1])
    BY <2>3
  <2> QED
    BY <1>1, <1>2, <2>1, <2>2, <2>3, <2>4, <2>5 DEF Legal, u
<1> QED
  BY <1>3, <1>4, <1>5

(* ToLabelName: the result is a legal name of a label for every string that *)
(* is not empty, wherever its length falls.                                 *)
THEOREM LabelNameIsLegal ==
  ASSUME NEW s \in Seq(Chars), s # <<>>
  PROVE  LegalLabelName(ToLabelName(s))
<1> DEFINE t == Converted(s, Alnum, LabelChars)
<1>1. /\ "0" \in Alnum /\ "0" \in LabelChars /\ "." \in LabelChars
      /\ Alnum \subseteq LabelChars
  BY DEF Alnum, LabelChars, LowerAlnum
<1>2. t \in Seq(LabelChars) /\ Len(t) >= 1 /\ t[1] \in Alnum
  BY <1>1, ConvertedIsValid
<1> HIDE DEF t
<1>3. Legal(Ended(t, MaxLabel, Alnum), MaxLabel, Alnum, LabelChars)
  BY <1>1, <1>2, Lengths, EndedIsLegal
<1> QED
  BY <1>3 DEF LegalLabelName, ToLabelName, t

(* What is cut and ended is the beginning of what it was, perhaps with a    *)
(* zero behind.                                                             *)
LEMMA EndedIsCut ==
  ASSUME NEW max \in Nat, max >= 3, NEW valid, NEW ends, NEW s \in Seq(valid)
  PROVE  \E u \in Seq(valid) :
           /\ Len(u) <= Len(s) /\ \A i \in 1 .. Len(u) : u[i] = s[i]
           /\ Ended(s, max, ends) \in {u, Append(u, "0")}
<1> DEFINE n == IF Len(s) > max THEN max ELSE Len(s)
           t == SubSeq(s, 1, n)
<1>1. n \in 0 .. Len(s) /\ n \in Nat /\ Len(s) \in Nat
  OBVIOUS
<1>2. t \in Seq(valid) /\ Len(t) = n /\ \A i \in 1 .. n : t[i] = s[i]
  BY <1>1
<1> HIDE DEF n, t
<1>3. CASE Ended(s, max, ends) \in {t, Append(t, "0")}
  BY <1>1, <1>2, <1>3
<1>4. CASE t # <<>> /\ t[Len(t)] \notin ends /\ ~(Len(t) < max - 1)
  <2> DEFINE u == SubSeq(t, 1, Len(t) - 2)
  <2>1. Ended(s, max, ends) = Append(u, "0")
    BY <1>2, <1>4 DEF Ended, t, n
  <2>2. Len(t) >= 2
    BY <1>1, <1>2, <1>4
  <2>3. u \in Seq(valid) /\ Len(u) <= n /\ \A i \in 1 .. Len(u) : u[i] = t[i]
    BY <1>1, <1>2, <2>2
  <2> HIDE DEF u
  <2> QED
    BY <1>1, <1>2, <2>1, <2>3
<1>5. CASE t # <<>> /\ t[Len(t)] \notin ends /\ Len(t) < max - 1
  <2>1. Ended(s, max, ends) = Append(t, "0")
    BY <1>5 DEF Ended, t, n
  <2> QED
    BY <1>3, <2>1
<1>6. CASE t = <<>> \/ t[Len(t)] \in ends
  <2>1. Ended(s, max, ends) = t
    BY <1>6 DEF Ended, t, n
  <2> QED
    BY <1>3, <2>1
<1> QED
  BY <1>4, <1>5, <1>6

(* So it makes no double dots, and puts no dash next to a dot.              *)
LEMMA EndedIsSingle ==
  ASSUME NEW max \in Nat, max >= 3, NEW valid, NEW ends,
         NEW s \in Seq(valid), Single(s)
  PROVE  /\ Single(Ended(s, max, ends))
         /\ Apart(s) => Apart(Ended(s, max, ends))
<1>1. PICK u \in Seq(valid) :
        /\ Len(u) <= Len(s) /\ \A i \in 1 .. Len(u) : u[i] = s[i]
        /\ Ended(s, max, ends) \in {u, Append(u, "0")}
  BY EndedIsCut
<1> DEFINE v == Append(u, "0")
<1>2. Len(u) \in Nat /\ Len(s) \in Nat /\ DOMAIN s = 1 .. Len(s) /\ DOMAIN u = 1 .. Len(u)
  OBVIOUS
<1>3. /\ DOMAIN v = 1 .. Len(u) + 1 /\ Len(v) = Len(u) + 1
      /\ v[Len(u) + 1] = "0" /\ \A i \in 1 .. Len(u) : v[i] = s[i]
  BY <1>1, <1>2
<1> HIDE DEF v
<1>4. Single(u) /\ Single(v)
  <2>1. \A i \in 1 .. Len(u) : ~DotsAt(s, i)
    BY <1>1, <1>2 DEF Single
  <2>2. \A i \in 1 .. Len(u) : ~DotsAt(u, i)
    BY <1>1, <1>2, <2>1 DEF DotsAt
  <2>3. \A i \in 1 .. Len(u) + 1 : ~DotsAt(v, i)
    BY <1>1, <1>2, <1>3, <2>1 DEF DotsAt
  <2> QED
    BY <1>2, <1>3, <2>2, <2>3 DEF Single
<1>5. ASSUME Apart(s) PROVE Apart(u) /\ Apart(v)
  <2>1. Apart(u)
    BY <1>1, <1>2, <1>5 DEF Apart
  <2>2. Apart(v)
    BY <1>1, <1>2, <1>3, <1>5 DEF Apart
  <2> QED
    BY <2>1, <2>2
<1> QED
  BY <1>1, <1>4, <1>5 DEF v

LEMMA EndedOfLegal ==
  ASSUME NEW max \in Nat, NEW valid, NEW ends, NEW s \in Seq(Chars),
         s = <<>> \/ Legal(s, max, ends, valid)
  PROVE  Ended(s, max, ends) = s
<1>1. Len(s) \in Nat /\ Len(s) <= max
  BY DEF Legal
<1>2. SubSeq(s, 1, IF Len(s) > max THEN max ELSE Len(s)) = s
  BY <1>1
<1>3. s = <<>> \/ s[Len(s)] \in ends
  BY DEF Legal
<1> QED
  BY <1>2, <1>3 DEF Ended

LEMMA ConvertedOfLegal ==
  ASSUME NEW s \in Seq(Chars), NEW max, NEW first, NEW valid,
         s = <<>> \/ Legal(s, max, first, valid)
  PROVE  Converted(s, first, valid) = s
<1>1. s = <<>> \/ s[1] \in first
  BY DEF Legal
<1>2. [i \in DOMAIN s |-> IF s[i] \in valid THEN s[i] ELSE "."] = s
  BY DEF Legal
<1> QED
  BY <1>1, <1>2 DEF Converted

-----------------------------------------------------------------------------
(* ToDomainName and ToLabel. *)

LEMMA LowerIsString ==
  ASSUME NEW s \in Seq(Chars)
  PROVE  ToLower(s) \in Seq(Chars) /\ Len(ToLower(s)) = Len(s)
<1>1. "a" \in Chars
  BY DEF Chars, LabelChars, Alnum, LowerAlnum
<1>2. Len(s) \in Nat /\ DOMAIN s = 1 .. Len(s) /\ \A i \in 1 .. Len(s) : s[i] \in Chars
  OBVIOUS
<1>3. ToLower(s) \in [1 .. Len(s) -> Chars]
  BY <1>1, <1>2 DEF ToLower
<1> QED
  BY <1>2, <1>3

(* Dashes that stay away from what becomes a dot stay away from dots.       *)
LEMMA ConvertedIsApart ==
  ASSUME NEW s \in Seq(Chars), DashesInside(s)
  PROVE  Apart(Converted(ToLower(s), LowerAlnum, DomainChars))
<1> DEFINE l == ToLower(s)
           body == [i \in DOMAIN l |-> IF l[i] \in DomainChars THEN l[i] ELSE "."]
<1>1. Len(s) \in Nat /\ DOMAIN s = 1 .. Len(s) /\ DOMAIN l = 1 .. Len(s)
  BY DEF ToLower
<1>2. /\ \A i \in 1 .. Len(s) : body[i] = "-" => s[i] = "-"
      /\ \A i \in 1 .. Len(s) : s[i] \in Alnum \cup {"-"} => body[i] # "."
  BY <1>1 DEF ToLower, DomainChars, LowerAlnum, Alnum
<1>3. body \in Seq(DomainChars) /\ Len(body) = Len(s)
  BY <1>1 DEF DomainChars
<1> HIDE DEF body
<1>4. Apart(body)
  BY <1>1, <1>2, <1>3 DEF Apart, DashesInside
<1>5. Apart(<<"0">> \o body)
  <2>1. "0" \in DomainChars
    BY DEF DomainChars, LowerAlnum
  <2> QED
    BY <1>3, <1>4, <2>1, ApartPreceded
<1>6. Converted(l, LowerAlnum, DomainChars) \in {body, <<"0">> \o body}
  BY DEF Converted, body
<1> QED
  BY <1>4, <1>5, <1>6

(* The parts of a legal domain name are legal when no dash is at a dot.     *)
LEMMA PartsOfApart ==
  ASSUME NEW t \in Seq(DomainChars), Single(t), Apart(t)
  PROVE  PartsLegal(t)
<1> SUFFICES ASSUME NEW i \in 1 .. Len(t) - 1
             PROVE  /\ t[i] = "." => t[i + 1] \in LowerAlnum
                    /\ t[i + 1] = "." => t[i] \in LowerAlnum
  BY DEF PartsLegal
<1>1. Len(t) \in Nat /\ DOMAIN t = 1 .. Len(t) /\ i \in 1 .. Len(t) /\ i + 1 \in 1 .. Len(t)
  OBVIOUS
<1>2. t[i] \in LowerAlnum \cup {".", "-"} /\ t[i + 1] \in LowerAlnum \cup {".", "-"}
  BY <1>1 DEF DomainChars
<1>3. ~(t[i] = "." /\ t[i + 1] = ".")
  <2>1. ~DotsAt(t, i) /\ i < Len(t)
    BY <1>1 DEF Single
  <2> QED
    BY <2>1 DEF DotsAt
<1>4. (t[i] = "." => t[i + 1] # "-") /\ (t[i] = "-" => t[i + 1] # ".")
  BY DEF Apart
<1> QED
  BY <1>2, <1>3, <1>4

(* ToDomainName: the result is a legal domain name for every string that is *)
(* not empty, wherever its length and its dots fall, and empty for the      *)
(* empty one.                                                               *)
THEOREM DomainNameIsLegal ==
  ASSUME NEW s \in Seq(Chars)
  PROVE  IF s = <<>> THEN ToDomainName(s) = <<>> ELSE LegalDomainName(ToDomainName(s))
<1> DEFINE l == ToLower(s)
           c == Converted(l, LowerAlnum, DomainChars)
           d == SingleDots(c)
<1>1. /\ "0" \in LowerAlnum /\ "0" \in DomainChars /\ "." \in DomainChars
      /\ LowerAlnum \subseteq DomainChars /\ DomainChars \subseteq Chars /\ "." \notin LowerAlnum
  BY DEF LowerAlnum, DomainChars, Chars, LabelChars, Alnum
<1>2. l \in Seq(Chars) /\ Len(l) = Len(s)
  BY LowerIsString
<1>3. CASE s = <<>>
  <2>1. l = <<>>
    BY <1>2, <1>3
  <2>2. c = <<>>
    BY <2>1 DEF Converted
  <2>3. Single(<<>>) /\ <<>> \in Seq(Chars)
    BY DEF Single
  <2>4. d = <<>>
    BY <2>2, <2>3, SingleDotsOfSingle
  <2>5. Ended(<<>>, MaxName, LowerAlnum) = <<>>
    BY Lengths, <2>3, EndedOfLegal
  <2> QED
    BY <1>3, <2>4, <2>5 DEF ToDomainName
<1>4. CASE s # <<>>
  <2>1. l # <<>>
    BY <1>2, <1>4
  <2> HIDE DEF l
  <2>2. c \in Seq(DomainChars) /\ Len(c) >= 1 /\ c[1] \in LowerAlnum
    BY <1>1, <1>2, <2>1, ConvertedIsValid
  <2> HIDE DEF c
  <2>3. c # <<>> /\ c[1] # "."
    BY <1>1, <2>2
  <2>4. d \in Seq(DomainChars) /\ d # <<>> /\ d[1] = c[1] /\ Single(d)
    BY <1>1, <2>2, <2>3, SingleDotsIsSingle
  <2> HIDE DEF d
  <2>5. Len(d) >= 1 /\ d[1] \in LowerAlnum
    BY <2>2, <2>4
  <2>6. Legal(Ended(d, MaxName, LowerAlnum), MaxName, LowerAlnum, DomainChars)
    BY <1>1, <2>4, <2>5, Lengths, EndedIsLegal
  <2>7. Single(Ended(d, MaxName, LowerAlnum))
    BY <2>4, Lengths, EndedIsSingle
  <2> QED
    BY <1>4, <2>6, <2>7 DEF LegalDomainName, ToDomainName, Single, l, c, d
<1> QED
  BY <1>3, <1>4

(* And a name of the DNS, whose parts begin and end with letters or digits, *)
(* for every string in which no dash is next to what is or becomes a dot.   *)
THEOREM DomainPartsAreLegal ==
  ASSUME NEW s \in Seq(Chars), DashesInside(s)
  PROVE  PartsLegal(ToDomainName(s))
<1> DEFINE l == ToLower(s)
           c == Converted(l, LowerAlnum, DomainChars)
           d == SingleDots(c)
           e == Ended(d, MaxName, LowerAlnum)
<1>1. CASE s = <<>>
  <2>1. ToDomainName(s) = <<>>
    BY <1>1, DomainNameIsLegal
  <2> QED
    BY <2>1 DEF PartsLegal
<1>2. CASE s # <<>>
  <2>1. /\ "0" \in LowerAlnum /\ "0" \in DomainChars /\ "." \in DomainChars
        /\ LowerAlnum \subseteq DomainChars /\ DomainChars \subseteq Chars /\ "." \notin LowerAlnum
    BY DEF LowerAlnum, DomainChars, Chars, LabelChars, Alnum
  <2>2. l \in Seq(Chars) /\ l # <<>>
    BY <1>2, LowerIsString
  <2>3. Apart(c)
    BY ConvertedIsApart
  <2> HIDE DEF l
  <2>4. c \in Seq(DomainChars) /\ c # <<>> /\ c[1] # "."
    BY <2>1, <2>2, ConvertedIsValid
  <2> HIDE DEF c
  <2>5. d \in Seq(DomainChars) /\ d # <<>> /\ Single(d) /\ Apart(d) /\ d[1] = c[1]
    BY <2>1, <2>3, <2>4, SingleDotsIsSingle
  <2> HIDE DEF d
  <2>6. Single(e) /\ Apart(e)
    BY <2>5, Lengths, EndedIsSingle
  <2>7. ToDomainName(s) = e
    BY DEF ToDomainName, l, c, d
  <2>8. e \in Seq(DomainChars)
    <3>1. PICK u \in Seq(DomainChars) : e \in {u, Append(u, "0")}
      BY <2>5, Lengths, EndedIsCut
    <3> QED
      BY <2>1, <3>1
  <2> HIDE DEF e
  <2> QED
    BY <2>6, <2>7, <2>8, PartsOfApart
<1> QED
  BY <1>1, <1>2

(* A legal domain name is left as it is.                                    *)
LEMMA DomainNameOfLegal ==
  ASSUME NEW s \in Seq(Chars), LegalDomainName(s)
  PROVE  ToDomainName(s) = s
<1>1. Legal(s, MaxName, LowerAlnum, DomainChars) /\ Single(s)
  BY DEF LegalDomainName, Single
<1>2. ToLower(s) = s
  <2>1. \A i \in DOMAIN s : s[i] # "A"
    BY <1>1 DEF Legal, DomainChars, LowerAlnum
  <2> QED
    BY <2>1 DEF ToLower
<1>3. Converted(s, LowerAlnum, DomainChars) = s
  BY <1>1, ConvertedOfLegal
<1>4. SingleDots(s) = s
  BY <1>1, SingleDotsOfSingle
<1>5. Ended(s, MaxName, LowerAlnum) = s
  BY <1>1, Lengths, EndedOfLegal
<1> QED
  BY <1>2, <1>3, <1>4, <1>5 DEF ToDomainName

LEMMA LabelNameOfLegal ==
  ASSUME NEW s \in Seq(Chars), s = <<>> \/ LegalLabelName(s)
  PROVE  ToLabelName(s) = s
<1>1. Converted(s, Alnum, LabelChars) = s
  BY ConvertedOfLegal DEF LegalLabelName
<1>2. Ended(s, MaxLabel, Alnum) = s
  BY Lengths, EndedOfLegal DEF LegalLabelName
<1> QED
  BY <1>1, <1>2 DEF ToLabelName

LEMMA FirstSlashIs ==
  ASSUME NEW s \in Seq(Chars), Slashes(s) # {}
  PROVE  /\ FirstSlash(s) \in 1 .. Len(s) /\ s[FirstSlash(s)] = "/"
         /\ \A j \in Slashes(s) : FirstSlash(s) <= j
<1>1. Slashes(s) \subseteq 1 .. Len(s) /\ Slashes(s) \subseteq Nat
  BY DEF Slashes
<1>2. \E i \in Slashes(s) : \A j \in Slashes(s) : i <= j
  BY <1>1, LeastNatural
<1>3. FirstSlash(s) \in Slashes(s) /\ \A j \in Slashes(s) : FirstSlash(s) <= j
  BY <1>2 DEF FirstSlash
<1> QED
  BY <1>1, <1>3 DEF Slashes

(* A string with a slash is what is before the first, it and what follows.  *)
LEMMA SplitAtSlash ==
  ASSUME NEW s \in Seq(Chars)
  PROVE  /\ PrefixPart(s) \in Seq(Chars) /\ NamePart(s) \in Seq(Chars)
         /\ Slashes(s) = {} => PrefixPart(s) = <<>> /\ NamePart(s) = s
         /\ Slashes(s) # {} => s = PrefixPart(s) \o <<"/">> \o NamePart(s)
<1>1. CASE Slashes(s) = {}
  BY <1>1 DEF PrefixPart, NamePart
<1>2. CASE Slashes(s) # {}
  <2> DEFINE f == FirstSlash(s)
             p == SubSeq(s, 1, f - 1)
             n == SubSeq(s, f + 1, Len(s))
  <2>1. f \in 1 .. Len(s) /\ s[f] = "/" /\ Len(s) \in Nat /\ "/" \in Chars
    BY <1>2, FirstSlashIs DEF Chars
  <2>2. PrefixPart(s) = p /\ NamePart(s) = n
    BY <1>2 DEF PrefixPart, NamePart
  <2> HIDE DEF f
  <2>3. /\ p \in Seq(Chars) /\ Len(p) = f - 1 /\ \A i \in 1 .. f - 1 : p[i] = s[i]
        /\ n \in Seq(Chars) /\ Len(n) = Len(s) - f
        /\ \A i \in 1 .. Len(s) - f : n[i] = s[f + i]
    BY <2>1
  <2> HIDE DEF p, n
  <2> DEFINE t == p \o <<"/">> \o n
  <2>4. t \in Seq(Chars) /\ Len(t) = Len(s)
    BY <2>1, <2>3
  <2>5. ASSUME NEW i \in 1 .. Len(s) PROVE t[i] = s[i]
    <3>0. i < f \/ i = f \/ i > f
      BY <2>1
    <3>1. CASE i < f
      BY <2>1, <2>3, <3>1
    <3>2. CASE i = f
      BY <2>1, <2>3, <3>2
    <3>3. CASE i > f
      <4>1. i - f \in 1 .. Len(s) - f
        BY <2>1, <3>3
      <4>2. t[f + (i - f)] = n[i - f]
        BY <2>1, <2>3, <4>1
      <4> QED
        BY <2>1, <2>3, <4>1, <4>2
    <3> QED
      BY <3>0, <3>1, <3>2, <3>3
  <2> HIDE DEF t
  <2>6. t = s
    BY <2>4, <2>5
  <2> QED
    BY <1>2, <2>2, <2>3, <2>6 DEF t
<1> QED
  BY <1>1, <1>2

(* And a slash put between two strings is found again.                      *)
LEMMA JoinedAtSlash ==
  ASSUME NEW p \in Seq(Chars), NEW n \in Seq(Chars), Slashes(p) = {}
  PROVE  LET t == p \o <<"/">> \o n
         IN Slashes(t) # {} /\ PrefixPart(t) = p /\ NamePart(t) = n
<1> DEFINE t == p \o <<"/">> \o n
           f == Len(p) + 1
<1>1. Len(p) \in Nat /\ Len(n) \in Nat /\ "/" \in Chars /\ f \in Nat
  BY DEF Chars
<1>2. t \in Seq(Chars) /\ Len(t) = Len(p) + 1 + Len(n) /\ t[f] = "/"
  BY <1>1
<1>3. \A i \in 1 .. Len(p) : t[i] = p[i]
  BY <1>1
<1>4. \A i \in 1 .. Len(n) : t[f + i] = n[i]
  BY <1>1
<1> HIDE DEF t
<1>5. f \in Slashes(t)
  BY <1>1, <1>2 DEF Slashes
<1>6. FirstSlash(t) = f
  <2>1. FirstSlash(t) \in 1 .. Len(t) /\ t[FirstSlash(t)] = "/" /\ FirstSlash(t) <= f
    BY <1>2, <1>5, FirstSlashIs
  <2>2. \A i \in 1 .. Len(p) : p[i] # "/"
    BY DEF Slashes
  <2> HIDE DEF f
  <2>3. FirstSlash(t) \notin 1 .. Len(p)
    BY <1>3, <2>1, <2>2
  <2> QED
    BY <1>1, <1>2, <2>1, <2>3 DEF f
<1>7. PrefixPart(t) = SubSeq(t, 1, f - 1) /\ NamePart(t) = SubSeq(t, f + 1, Len(t))
  BY <1>5, <1>6 DEF PrefixPart, NamePart
<1>8. SubSeq(t, 1, f - 1) = p
  BY <1>1, <1>2, <1>3
<1>9. SubSeq(t, f + 1, Len(t)) = n
  BY <1>1, <1>2, <1>4
<1> QED
  BY <1>5, <1>7, <1>8, <1>9 DEF t

LEMMA LegalHasNoSlash ==
  ASSUME NEW s \in Seq(Chars), LegalLabelName(s) \/ LegalDomainName(s)
  PROVE  Slashes(s) = {} /\ s # <<>>
<1>1. "/" \notin LabelChars /\ "/" \notin DomainChars
  BY DEF LabelChars, DomainChars, Alnum, LowerAlnum
<1>2. \A i \in DOMAIN s : s[i] # "/"
  BY <1>1 DEF LegalLabelName, LegalDomainName, Legal
<1>3. Len(s) >= 1
  BY DEF LegalLabelName, LegalDomainName, Legal
<1> QED
  BY <1>2, <1>3 DEF Slashes

LEMMA NamesAreStrings ==
  /\ \A s \in Seq(Chars) : ToDomainName(s) \in Seq(Chars)
  /\ \A s \in Seq(Chars) : ToLabelName(s) \in Seq(Chars)
  /\ ToDomainName(<<>>) = <<>> /\ ToLabelName(<<>>) = <<>>
<1>1. ASSUME NEW max \in Nat, max >= 3, NEW s \in Seq(Chars), NEW ends
      PROVE  Ended(s, max, ends) \in Seq(Chars)
  <2> DEFINE n == IF Len(s) > max THEN max ELSE Len(s)
             t == SubSeq(s, 1, n)
  <2>1. n \in 0 .. Len(s)
    BY <1>1
  <2>2. t \in Seq(Chars)
    BY <2>1
  <2> HIDE DEF n, t
  <2> DEFINE u == SubSeq(t, 1, Len(t) - 2)
  <2>3. u \in Seq(Chars)
    BY <2>2
  <2>6. "0" \in Chars
    BY DEF Chars, LabelChars, Alnum, LowerAlnum
  <2>4. \/ Ended(s, max, ends) = t \/ Ended(s, max, ends) = Append(t, "0")
        \/ Ended(s, max, ends) = Append(u, "0")
    BY DEF Ended, n, t
  <2> HIDE DEF u
  <2>5. Append(t, "0") \in Seq(Chars) /\ Append(u, "0") \in Seq(Chars)
    BY <2>2, <2>3, <2>6
  <2> QED
    BY <2>2, <2>4, <2>5, Zenon
<1>2. LowerAlnum \subseteq Chars /\ DomainChars \subseteq Chars /\ LabelChars \subseteq Chars
  BY DEF LowerAlnum, DomainChars, Chars, LabelChars, Alnum
<1>3. <<>> \in Seq(Chars)
  OBVIOUS
<1>4. ToDomainName(<<>>) = <<>> /\ ToLabelName(<<>>) = <<>>
  BY <1>3, DomainNameIsLegal, LabelNameOfLegal
<1>5. ASSUME NEW s \in Seq(Chars)
      PROVE  ToLabelName(s) \in Seq(Chars)
  <2>1. CASE s = <<>>
    BY <1>3, <1>4, <2>1
  <2>2. CASE s # <<>>
    <3>1. Converted(s, Alnum, LabelChars) \in Seq(LabelChars)
      BY <2>2, ConvertedIsValid DEF Alnum, LabelChars, LowerAlnum
    <3>2. Converted(s, Alnum, LabelChars) \in Seq(Chars)
      BY <1>2, <3>1
    <3> QED
      BY <1>1, <3>2, Lengths DEF ToLabelName
  <2> QED
    BY <2>1, <2>2
<1>6. ASSUME NEW s \in Seq(Chars), s # <<>>
      PROVE  ToDomainName(s) \in Seq(Chars)
  <2> DEFINE c == Converted(ToLower(s), LowerAlnum, DomainChars)
  <2>1. ToLower(s) \in Seq(Chars) /\ ToLower(s) # <<>>
    BY <1>6, LowerIsString
  <2>2. "0" \in LowerAlnum /\ "." \in DomainChars /\ LowerAlnum \subseteq DomainChars /\ "." \notin LowerAlnum
    BY DEF LowerAlnum, DomainChars
  <2>3. c \in Seq(DomainChars) /\ c # <<>> /\ c[1] # "."
    BY <2>1, <2>2, ConvertedIsValid
  <2> HIDE DEF c
  <2>4. SingleDots(c) \in Seq(DomainChars)
    BY <1>2, <2>3, SingleDotsIsSingle
  <2>5. SingleDots(c) \in Seq(Chars)
    BY <1>2, <2>4
  <2> QED
    BY <1>1, <2>5, Lengths DEF ToDomainName, c
<1> QED
  BY <1>3, <1>4, <1>5, <1>6

(* ToLabel: the result is a legal label for every string with something     *)
(* behind the slash, if it has one, and one of Kubernetes unless a dash is  *)
(* next to what is or becomes a dot of the prefix.                          *)
THEOREM LabelOfNameIsLegal ==
  ASSUME NEW s \in Seq(Chars), NamePart(s) # <<>>
  PROVE  /\ LegalLabel(ToLabel(s))
         /\ DashesInside(PrefixPart(s)) => KubernetesLabel(ToLabel(s))
<1> DEFINE p == PrefixPart(s)
           prefix == ToDomainName(p)
           name == ToLabelName(NamePart(s))
<1>1. p \in Seq(Chars) /\ NamePart(s) \in Seq(Chars)
  BY SplitAtSlash
<1>2. LegalLabelName(name) /\ name \in Seq(Chars)
  BY <1>1, LabelNameIsLegal, NamesAreStrings
<1>3. name # <<>>
  BY <1>2, LegalHasNoSlash
<1>4. prefix \in Seq(Chars) /\ (prefix # <<>> => LegalDomainName(prefix))
  BY <1>1, DomainNameIsLegal, NamesAreStrings
<1>5. ToLabel(s) = IF prefix = <<>> THEN name ELSE prefix \o <<"/">> \o name
  BY <1>3 DEF ToLabel
<1>6. DashesInside(p) => PartsLegal(prefix)
  BY <1>1, DomainPartsAreLegal
<1> HIDE DEF prefix, name
<1>7. CASE prefix = <<>>
  <2>1. Slashes(name) = {}
    BY <1>2, LegalHasNoSlash
  <2> QED
    BY <1>2, <1>5, <1>7, <2>1 DEF LegalLabel, KubernetesLabel
<1>8. CASE prefix # <<>>
  <2>1. Slashes(prefix) = {}
    BY <1>4, <1>8, LegalHasNoSlash
  <2> DEFINE t == prefix \o <<"/">> \o name
  <2>2. Slashes(t) # {} /\ PrefixPart(t) = prefix /\ NamePart(t) = name
    BY <1>2, <1>4, <2>1, JoinedAtSlash
  <2>3. ToLabel(s) = t
    BY <1>5, <1>8
  <2> HIDE DEF t
  <2> QED
    BY <1>2, <1>4, <1>8, <1>6, <2>2, <2>3 DEF LegalLabel, KubernetesLabel
<1> QED
  BY <1>7, <1>8

(* A legal label is left as it is.                                          *)
LEMMA LabelOfLegal ==
  ASSUME NEW s \in Seq(Chars), LegalLabel(s)
  PROVE  ToLabel(s) = s
<1>1. CASE LegalLabelName(s)
  <2>1. Slashes(s) = {} /\ s # <<>>
    BY <1>1, LegalHasNoSlash
  <2>2. PrefixPart(s) = <<>> /\ NamePart(s) = s
    BY <2>1, SplitAtSlash
  <2>3. ToDomainName(<<>>) = <<>> /\ ToLabelName(s) = s
    BY <1>1, LabelNameOfLegal, NamesAreStrings
  <2> QED
    BY <2>2, <2>3 DEF ToLabel
<1>2. CASE Slashes(s) # {} /\ LegalDomainName(PrefixPart(s)) /\ LegalLabelName(NamePart(s))
  <2> DEFINE p == PrefixPart(s)
             n == NamePart(s)
  <2>1. p \in Seq(Chars) /\ n \in Seq(Chars) /\ s = p \o <<"/">> \o n
    BY <1>2, SplitAtSlash
  <2>2. p # <<>> /\ n # <<>>
    BY <1>2, <2>1, LegalHasNoSlash
  <2>3. ToDomainName(p) = p /\ ToLabelName(n) = n
    BY <1>2, <2>1, DomainNameOfLegal, LabelNameOfLegal
  <2>4. ToLabel(s) = p \o <<"/">> \o n
    BY <2>2, <2>3 DEF ToLabel
  <2> HIDE DEF p, n
  <2> QED
    BY <2>1, <2>4
<1> QED
  BY <1>1, <1>2 DEF LegalLabel

-----------------------------------------------------------------------------
(* The calls of a trigger. *)

(* The strings are strings, and what a name function returned is its value  *)
(* for its argument.                                                        *)
CallIInv ==
  /\ input \in Seq(Chars) /\ value \in Seq(Chars)
  /\ made = "toDomainName" => value = ToDomainName(input)
  /\ made = "toLabel" => value = ToLabel(input)

LEMMA LabelIsString ==
  ASSUME NEW s \in Seq(Chars)
  PROVE  ToLabel(s) \in Seq(Chars)
<1> DEFINE prefix == ToDomainName(PrefixPart(s))
           name == ToLabelName(NamePart(s))
<1>1. prefix \in Seq(Chars) /\ name \in Seq(Chars)
  BY SplitAtSlash, NamesAreStrings
<1>2. ToLabel(s) = IF prefix = <<>> THEN name
                   ELSE IF name = <<>> THEN prefix ELSE prefix \o <<"/">> \o name
  BY DEF ToLabel
<1> HIDE DEF prefix, name
<1>3. <<"/">> \in Seq(Chars)
  BY DEF Chars
<1> QED
  BY <1>1, <1>2, <1>3

LEMMA CallStep == CallIInv /\ [Next]_vars => CallIInv'
<1> SUFFICES ASSUME CallIInv, [Next]_vars PROVE CallIInv'
  OBVIOUS
<1>1. value \in Seq(Chars)
  BY DEF CallIInv
<1>2. CASE DomainName
  <2>1. made' = "toDomainName" /\ input' = value /\ value' = ToDomainName(value)
    BY <1>2 DEF DomainName, Applied
  <2> QED
    BY <1>1, <2>1, NamesAreStrings DEF CallIInv
<1>3. CASE Label
  <2>1. made' = "toLabel" /\ input' = value /\ value' = ToLabel(value)
    BY <1>3 DEF Label, Applied
  <2> QED
    BY <1>1, <2>1, LabelIsString DEF CallIInv
<1>4. CASE Substring
  <2>1. PICK index \in -1 .. Len(value) + 1 :
          IF index < 0 THEN Applied("panic", <<>>)
          ELSE Applied("substring",
                 SubSeq(value, 1, IF index > Len(value) THEN Len(value) ELSE index))
    BY <1>4 DEF Substring
  <2>2. CASE index < 0
    BY <1>1, <2>1, <2>2 DEF Applied, CallIInv
  <2>3. CASE ~(index < 0)
    <3> DEFINE n == IF index > Len(value) THEN Len(value) ELSE index
    <3>1. n \in 0 .. Len(value) /\ Len(value) \in Nat
      BY <1>1, <2>3
    <3>2. SubSeq(value, 1, n) \in Seq(Chars)
      BY <1>1, <3>1
    <3>3. made' = "substring" /\ input' = value /\ value' = SubSeq(value, 1, n)
      BY <2>1, <2>3 DEF Applied
    <3> QED
      BY <1>1, <3>2, <3>3 DEF CallIInv
  <2> QED
    BY <2>2, <2>3
<1>5. CASE UNCHANGED stringVars
  BY <1>5 DEF CallIInv, stringVars
<1> QED
  BY <1>2, <1>3, <1>4, <1>5 DEF Next, vars

LEMMA CallInit == Init => CallIInv
<1> SUFFICES ASSUME Init PROVE CallIInv
  OBVIOUS
<1>1. made \in {"none", "start"} /\ input = value /\ (value = <<>> \/ value \in Inputs)
  BY DEF Init
<1>2. value \in Seq(Chars)
  <2>1. <<>> \in Seq(Chars)
    OBVIOUS
  <2> QED
    BY <1>1, <2>1, InputStrings, Zenon
<1> QED
  BY <1>1, <1>2 DEF CallIInv

(* Whatever strings an expression starts with and whichever functions it    *)
(* calls: toDomainName returns a legal domain name, and one of the DNS when *)
(* no dash was next to a dot.                                               *)
THEOREM LegalNames == Spec => []DomainIsLegal
<1>1. CallIInv => DomainIsLegal
  BY DomainNameIsLegal, DomainPartsAreLegal DEF CallIInv, DomainIsLegal
<1> QED
  BY <1>1, CallInit, CallStep, PTL DEF Spec

(* toLabel returns a legal label when something is behind the slash, and    *)
(* one of Kubernetes when no dash of the prefix was next to a dot.          *)
THEOREM LegalLabels == Spec => []LabelIsLegal
<1>1. CallIInv => LabelIsLegal
  BY LabelOfNameIsLegal DEF CallIInv, LabelIsLegal
<1> QED
  BY <1>1, CallInit, CallStep, PTL DEF Spec

(* Both keep what is legal.                                                 *)
THEOREM LegalIsKept == Spec => []KeepsTheLegal
<1>1. CallIInv => KeepsTheLegal
  BY DomainNameOfLegal, LabelOfLegal DEF CallIInv, KeepsTheLegal
<1> QED
  BY <1>1, CallInit, CallStep, PTL DEF Spec
=============================================================================
