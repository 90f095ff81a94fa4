---------------------------- MODULE TriggerFiles ----------------------------
(***************************************************************************)
(* Where main gets the trigger files: a directory, or an archive that is   *)
(* downloaded, compared with a checksum and unpacked into a new directory. *)
(* URL and checksum come from the custom resources (CRs) of Kabanero, or   *)
(* the URL alone from the command line.  Whoever publishes a new archive   *)
(* replaces it and edits the CRs in two steps, in any order, at any time.  *)
(*                                                                         *)
(* The checksum of an archive stands for the archive itself.  Any error    *)
(* ends the process.                                                       *)
(***************************************************************************)
EXTENDS Naturals, Sequences

CONSTANTS
  Archives,    \* what a server may have at the URL
  Entries,     \* Entries[a]: the entries of archive a
  Pages,       \* those that are no archive, as the page of a status 404
  Paths,       \* relative paths
  Above,       \* Above[p]: the directories that p is in
  Texts,       \* what a file may contain
  Over,        \* Over[old][new]: what new leaves of old when written over it
  SpecLists,   \* what the CRs may say: trigger specifications, in order
  Directories, \* what a local directory may contain
  MaxChanges   \* bound: changes of the published archive and the CRs

Absent == "absent"
Directory == "directory"
NoSum == "nosum"
Remote == "https"
UrlKinds == {"", "file", Remote, "malformed"}
Disks == [Paths -> Texts \cup {Absent, Directory}]
EmptyDisk == [p \in Paths |-> Absent]

(* An entry is "bad" when it is neither file nor directory, is named so     *)
(* that it would leave the directory, or cannot be read.                    *)
EntryType == [kind : {"file", "dir", "bad"}, path : Paths, text : Texts]
SpecType == [url : UrlKinds, sha : Archives]

(* What is written over is as long as the longer of the two, so that a text *)
(* covers it when it covers both.                                           *)
OverIsLength ==
  \A s, t, u \in Texts :
    Over[Over[s][t]][u] = u <=> Over[s][u] = u /\ Over[t][u] = u

ASSUME ArchiveTable ==
  /\ Entries \in [Archives -> Seq(EntryType)]
  /\ Pages \subseteq Archives /\ Archives # {}
  /\ Above \in [Paths -> SUBSET Paths] /\ \A p \in Paths : p \notin Above[p]
  /\ Over \in [Texts -> [Texts -> Texts]] /\ OverIsLength
  /\ {Absent, Directory} \cap Texts = {} /\ NoSum \notin Archives
  /\ SpecLists \subseteq Seq(SpecType)
  /\ Directories \subseteq Disks
  /\ MaxChanges \in Nat

VARIABLES
  pc,       \* where main is
  flag,     \* -triggerURL, "" when not given
  skip,     \* -skipChecksumVerify
  specs,    \* the trigger specifications in the CRs
  served,   \* the archive at the URL
  changes,  \* changes of either
  chkSum,   \* triggerChkSum
  archive,  \* what was downloaded
  entry,    \* the next entry to unpack
  disk,     \* the directory of the trigger files
  listed    \* history: the specifications that were read

outside == <<specs, served, changes>>
options == <<flag, skip>>
fileVars == <<chkSum, archive, entry, disk, listed>>

FilesInit ==
  /\ pc = "url"
  /\ flag \in UrlKinds \ {"malformed"}
  /\ skip \in BOOLEAN
  /\ specs \in SpecLists
  /\ served \in Archives
  /\ changes = 0
  /\ chkSum = NoSum
  /\ archive = NoSum
  /\ entry = 1
  /\ disk = EmptyDisk
  /\ listed = <<>>

FilesTypeOK ==
  /\ flag \in UrlKinds
  /\ skip \in BOOLEAN
  /\ specs \in SpecLists
  /\ served \in Archives
  /\ changes \in 0 .. MaxChanges
  /\ chkSum \in Archives \cup {NoSum}
  /\ archive \in Archives \cup {NoSum}
  /\ entry \in Nat \ {0}
  /\ disk \in Disks
  /\ listed \in SpecLists \cup {<<>>}

-----------------------------------------------------------------------------
(* GetTriggerFiles. *)

(* A URL with the scheme "file", or with none, is a directory; another one  *)
(* is downloaded to a new directory, which is empty.                        *)
UseUrl(url) ==
  \/ /\ url = Remote
     /\ pc' = "download"
     /\ disk' = EmptyDisk
  \/ /\ url = "file"
     /\ pc' = "service"
     /\ disk' \in Directories

FlagUrl ==
  /\ pc = "url"
  /\ flag # ""
  /\ UseUrl(flag)
  /\ UNCHANGED <<options, outside, chkSum, archive, entry, listed>>

(* GetTriggerInfo returns the first specification that has a URL.           *)
CRUrl ==
  /\ pc = "url"
  /\ flag = ""
  /\ \E i \in DOMAIN specs :
       /\ specs[i].url # ""
       /\ \A j \in 1 .. i - 1 : specs[j].url = ""
       /\ UseUrl(specs[i].url)
       /\ chkSum' = specs[i].sha
  /\ listed' = specs
  /\ UNCHANGED <<options, outside, archive, entry>>

-----------------------------------------------------------------------------
(* DownloadTrigger. *)

(* The status of the answer is not looked at.                               *)
Download ==
  /\ pc = "download"
  /\ archive' \in {served} \cup Pages
  /\ pc' = IF skip THEN "open" ELSE "verify"
  /\ UNCHANGED <<options, outside, chkSum, entry, disk, listed>>

\* variant: the checksum is that of the CRs as they are now
VerifyAgain ==
  /\ pc = "verify"
  /\ \A i \in DOMAIN specs : specs[i].url = Remote => archive = specs[i].sha
  /\ pc' = "open"
  /\ UNCHANGED <<options, outside, fileVars>>

Verify ==
  /\ pc = "verify"
  /\ archive = chkSum
  /\ pc' = "open"
  /\ UNCHANGED <<options, outside, fileVars>>

Open ==
  /\ pc = "open"
  /\ archive \notin Pages
  /\ pc' = "unpack"
  /\ UNCHANGED <<options, outside, fileVars>>

(* DecompressGzipTar, for one entry.  A file that is there already is       *)
(* written over but not truncated.                                          *)
Unpacked(e) ==
  \/ /\ e.kind = "file"
     /\ \A d \in Above[e.path] : disk[d] = Directory
     /\ disk[e.path] # Directory
     /\ disk' = [disk EXCEPT ![e.path] =
                   IF @ = Absent THEN e.text ELSE Over[@][e.text]]
  \/ /\ e.kind = "dir"
     /\ \A d \in Above[e.path] \cup {e.path} : disk[d] \notin Texts
     /\ disk' = [d \in Paths |->
                   IF d \in Above[e.path] \cup {e.path} THEN Directory ELSE disk[d]]

Unpack ==
  /\ pc = "unpack"
  /\ entry \in DOMAIN Entries[archive]
  /\ Unpacked(Entries[archive][entry])
  /\ entry' = entry + 1
  /\ UNCHANGED <<options, outside, pc, chkSum, archive, listed>>

\* variant: an entry that cannot be unpacked ends the loop
UnpackedEnough ==
  /\ pc = "unpack"
  /\ entry \in DOMAIN Entries[archive] => Entries[archive][entry].kind = "bad"
  /\ pc' = "service"
  /\ UNCHANGED <<options, outside, fileVars>>

UnpackedAll ==
  /\ pc = "unpack"
  /\ entry \notin DOMAIN Entries[archive]
  /\ pc' = "service"
  /\ UNCHANGED <<options, outside, fileVars>>

-----------------------------------------------------------------------------
(* Those who publish triggers. *)

Publish ==
  /\ changes < MaxChanges
  /\ changes' = changes + 1
  /\ served' \in Archives
  /\ UNCHANGED <<pc, options, specs, fileVars>>

Announce ==
  /\ changes < MaxChanges
  /\ changes' = changes + 1
  /\ specs' \in SpecLists
  /\ UNCHANGED <<pc, options, served, fileVars>>

-----------------------------------------------------------------------------
(* The entries among the first n of archive a that are a file at path p.    *)
Naming(a, n, p) ==
  {i \in 1 .. n : Entries[a][i].kind = "file" /\ Entries[a][i].path = p}

(* None of these is longer than the text.                                   *)
Covers(a, n, p, text) ==
  \A j \in Naming(a, n, p) : Over[Entries[a][j].text][text] = text

(* At p is a file when one of the n entries is; and it is as the last of    *)
(* these exactly when none before was longer.                               *)
UnpackedAt(content, a, n, p) ==
  /\ content \in Texts <=> Naming(a, n, p) # {}
  /\ \A i \in Naming(a, n, p) :
       (\A j \in Naming(a, n, p) : j <= i) =>
         (content = Entries[a][i].text <=> Covers(a, i - 1, p, Entries[a][i].text))
=============================================================================
