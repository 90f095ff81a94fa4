---------------------------- MODULE DownloadYaml ----------------------------
(***************************************************************************)
(* The built-in function downloadYAML: a file of the repository a webhook  *)
(* message is about, at the commit the message is about, read with the     *)
(* credentials of one of the secrets of the namespace.  Meanwhile others   *)
(* push to the repository and edit the secrets.                            *)
(*                                                                         *)
(* Commits stand for their contents: FileAt[c] is what the file is in      *)
(* commit c.  "Credentials" are the annotations of a secret: those of      *)
(* kabanero.io and of tekton.dev, with a value that is a prefix of the     *)
(* repository's URL; others do not count.                                  *)
(***************************************************************************)
EXTENDS Naturals, Sequences

CONSTANTS
  Messages,    \* first arguments a trigger passes
  Commits,     \* commits of the repository
  FileAt,      \* FileAt[c]: what the file is there
  Annotations, \* names of annotations that a secret may have for this URL
  Preferred,   \* those of kabanero.io
  SecretLists, \* the secrets a namespace may have, in their order
  MaxChanges   \* bound: pushes, and edits of the secrets

NoRef == "noref"
NoSecret == 0
Kinds == {"push", "pull_request", "other"}
FileKinds == {"yaml", "notyaml", "unreadable", "nofile", "missing"}
Secret == [annotations : SUBSET Annotations, complete : BOOLEAN]

(* A message is refused when it is no map or lacks the body or the headers;  *)
(* it may lack the header that names the event.                             *)
Message == [kind : Kinds, commit : Commits, refused : BOOLEAN, header : BOOLEAN]

ASSUME RepositoryTable ==
  /\ Messages \subseteq Message
  /\ FileAt \in [Commits -> FileKinds]
  /\ Preferred \subseteq Annotations
  /\ SecretLists \subseteq Seq(Secret)
  /\ NoRef \notin Commits
  /\ MaxChanges \in Nat

VARIABLES
  step,      \* where the call is
  message,   \* its argument
  secrets,   \* the secrets of the namespace
  head,      \* the commit of the default branch
  changes,   \* pushes and edits
  list,      \* the secrets that were listed
  at,        \* the secret the loop is at
  left,      \* its annotations that the loop has not seen
  secret,    \* tknSecret, then what the loop has returned
  result,    \* what the call returns: error, exists, content
  heads      \* history: the commits the branch was at during the call

callVars == <<message, list, at, left, secret, result>>
others == <<secrets, head, changes, heads>>
downloadVars == <<step, callVars, others>>

Results == [error : BOOLEAN, exists : BOOLEAN, content : Commits \cup {NoRef}]
Nothing == [error |-> FALSE, exists |-> FALSE, content |-> NoRef]
Failed(exists) == [error |-> TRUE, exists |-> exists, content |-> NoRef]

DownloadInit ==
  /\ message \in Messages
  /\ secrets \in SecretLists
  /\ head = message.commit
  /\ changes = 0
  /\ list = <<>>
  /\ at = 1
  /\ left = {}
  /\ secret = NoSecret
  /\ result = Nothing
  /\ heads = {head}

DownloadTypeOK ==
  /\ message \in Messages
  /\ secrets \in SecretLists
  /\ head \in Commits
  /\ changes \in 0 .. MaxChanges
  /\ list \in SecretLists \cup {<<>>}
  /\ at \in Nat \ {0}
  /\ left \subseteq Annotations
  /\ secret \in 0 .. Len(list)
  /\ result \in Results
  /\ heads \subseteq Commits

-----------------------------------------------------------------------------
(* The call. *)

Return(r) == step' = "returned" /\ result' = r

(* An argument that is refused is an error of the expression.  A missing    *)
(* header of the event is an index out of range, and a panic.               *)
Refuse ==
  /\ step = "call"
  /\ message.refused \/ ~message.header
  /\ step' = IF message.refused THEN "error" ELSE "panic"
  /\ UNCHANGED <<callVars, others>>

ListSecrets ==
  /\ step = "call"
  /\ ~message.refused /\ message.header
  /\ list' = secrets
  /\ left' = IF secrets = <<>> THEN {} ELSE secrets[1].annotations
  /\ step' = "scan"
  /\ UNCHANGED <<message, at, secret, result, others>>

(* The body may lack the repository or the commit, and the request may fail. *)
ListFails ==
  /\ step = "call"
  /\ ~message.refused /\ message.header
  /\ Return(Failed(FALSE))
  /\ UNCHANGED <<message, list, at, left, secret, others>>

\* variant: the first annotation that is met is taken
ScanFirst ==
  /\ step = "scan"
  /\ \E a \in left : secret' = at /\ step' = "get"
  /\ UNCHANGED <<message, list, at, left, result, others>>

(* getGitHubSecretForRepo: the annotations of a secret, in any order.       *)
Scan ==
  /\ step = "scan"
  /\ \E a \in left :
       /\ left' = left \ {a}
       /\ secret' = at
       /\ step' = IF a \in Preferred THEN "chosen" ELSE step
  /\ UNCHANGED <<message, list, at, result, others>>

NextSecret ==
  /\ step = "scan"
  /\ left = {}
  /\ at < Len(list)
  /\ at' = at + 1
  /\ left' = list[at'].annotations
  /\ UNCHANGED <<step, message, list, secret, result, others>>

EndScan ==
  /\ step = "scan"
  /\ left = {}
  /\ at >= Len(list)
  /\ step' = "chosen"
  /\ UNCHANGED <<callVars, others>>

(* The secret must have a user and a password.                              *)
UseSecret ==
  /\ step = "chosen"
  /\ IF secret # NoSecret /\ list[secret].complete
     THEN step' = "get" /\ UNCHANGED result
     ELSE Return(Failed(FALSE))
  /\ UNCHANGED <<message, list, at, left, secret, others>>

-----------------------------------------------------------------------------
(* DownloadFileFromGithub. *)

\* variant: the file as it is on the branch
RefOfBranch == NoRef

(* getRepositoryInfo: the commit of a push or of a pull request.            *)
Ref == IF message.kind = "other" THEN NoRef ELSE message.commit
Asked == IF Ref = NoRef THEN head ELSE Ref

(* A directory or a status 404 is an error, and exists is not set.          *)
Received(c) ==
  CASE FileAt[c] = "yaml" -> [error |-> FALSE, exists |-> TRUE, content |-> c]
    [] FileAt[c] \in {"notyaml", "unreadable"} -> Failed(TRUE)
    [] OTHER -> Failed(FALSE)

Get ==
  /\ step = "get"
  /\ Return(Received(Asked))
  /\ UNCHANGED <<message, list, at, left, secret, others>>

(* Another status is an error, but 400 is "does not exist"; without an      *)
(* answer the response is nil, and its use a panic.                         *)
GetFails ==
  /\ step = "get"
  /\ \/ Return(Failed(FALSE))
     \/ Return(Nothing)
     \/ step' = "panic" /\ UNCHANGED result
  /\ UNCHANGED <<message, list, at, left, secret, others>>

-----------------------------------------------------------------------------
(* Others. *)

Push ==
  /\ changes < MaxChanges
  /\ changes' = changes + 1
  /\ head' \in Commits
  /\ heads' = heads \cup {head'}
  /\ UNCHANGED <<step, callVars, secrets>>

EditSecrets ==
  /\ changes < MaxChanges
  /\ changes' = changes + 1
  /\ secrets' \in SecretLists
  /\ UNCHANGED <<step, callVars, head, heads>>

DownloadStep ==
  \/ Refuse \/ ListSecrets \/ ListFails
  \/ Scan \/ NextSecret \/ EndScan \/ UseSecret
  \/ Get \/ GetFails
  \/ Push \/ EditSecrets

-----------------------------------------------------------------------------
(* Properties. *)

(* The secret that is used is the first with an annotation of kabanero.io,  *)
(* or without any such the last with one of tekton.dev, in whatever order   *)
(* the annotations were met and however the secrets changed since.          *)
HasPreferred(i) == list[i].annotations \cap Preferred # {}
SecretIsPreferred ==
  step = "chosen" \/ step = "get" =>
    IF \E i \in DOMAIN list : HasPreferred(i)
    THEN HasPreferred(secret) /\ \A i \in 1 .. secret - 1 : ~HasPreferred(i)
    ELSE \A i \in DOMAIN list :
           list[i].annotations # {} =>
             i <= secret /\ list[secret].annotations # {}

(* Without an error, the content is that of the file at the commit of the   *)
(* message, for a push or a pull request, wherever the branch is by now,    *)
(* else at a commit the branch was at during the call; and whenever it says *)
(* that the file exists, it does.                                           *)
ContentOfTheCommit ==
  LET possible == IF message.kind = "other" THEN heads ELSE {message.commit}
  IN step = "returned" =>
       /\ ~result.error /\ result.exists =>
            result.content \in possible /\ FileAt[result.content] = "yaml"
       /\ result.exists => \E c \in possible : FileAt[c] \notin {"missing", "nofile"}

(* What makes them inductive: before "at" and among the annotations of "at" *)
(* that were seen, none is preferred; "secret" is the last that had any.    *)
Before ==
  step \in {"none", "call"} =>
    list = <<>> /\ at = 1 /\ left = {} /\ secret = NoSecret
Scanned ==
  step = "scan" =>
    /\ IF list = <<>> THEN at = 1 /\ left = {}
       ELSE /\ at \in DOMAIN list /\ left \subseteq list[at].annotations
            /\ (list[at].annotations \ left) \cap Preferred = {}
            /\ secret # at => left = list[at].annotations
    /\ \A i \in 1 .. at - 1 : ~HasPreferred(i)
    /\ secret # NoSecret => secret <= at /\ list[secret].annotations # {}
    /\ \A i \in 1 .. at - 1 : list[i].annotations # {} => i <= secret

DownloadIInv ==
  /\ step \in {"none", "call", "scan", "chosen", "get", "returned", "error", "panic"}
  /\ DownloadTypeOK
  /\ Before /\ Scanned /\ SecretIsPreferred /\ ContentOfTheCommit
  /\ head \in heads
=============================================================================
