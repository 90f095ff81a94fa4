---------------------------- MODULE StartupProofs ----------------------------
(***************************************************************************)
(* What main runs is what was promised, what it reads is what the archive  *)
(* has, and every source is heard when the webhook is served: for any      *)
(* archives, files and definitions.                                        *)
(***************************************************************************)
EXTENDS Startup, FiniteSetTheorems, WellFoundedInduction, TLAPS

(* What each part of the invariant depends on.                              *)
LEMMA PromisedDepends ==
  Promised /\ UNCHANGED <<pc, skip, chkSum, archive, listed>> => Promised'
<1> SUFFICES ASSUME Promised, UNCHANGED <<pc, skip, chkSum, archive, listed>>
             PROVE  Promised'
  OBVIOUS
<1>1. /\ pc' = pc /\ skip' = skip /\ chkSum' = chkSum /\ archive' = archive
      /\ listed' = listed
  OBVIOUS
<1> DEFINE First(c, a, l, d) == c # NoSum =>
             \E i \in DOMAIN l :
               /\ l[i].sha = c
               /\ d \/ a # NoSum => l[i].url = Remote
               /\ \A j \in 1 .. i - 1 : l[j].url = ""
<1>2. First(chkSum, archive, listed, pc \in Downloading)
  BY Zenon DEF Promised
<1>3. First(chkSum', archive', listed', (pc \in Downloading)')
  BY <1>1, <1>2, Zenon
<1>4. (FromArchive => archive = chkSum)'
  <2>1. FromArchive => archive = chkSum
    BY Zenon DEF Promised
  <2> QED
    BY <1>1, <2>1 DEF FromArchive
<1>5. /\ (pc = "url" => chkSum = NoSum)'
      /\ (pc \in {"url", "download"} => archive = NoSum)'
      /\ (pc \in {"verify", "open", "unpack"} => archive # NoSum)'
  BY <1>1 DEF Promised
<1> QED
  BY <1>3, <1>4, <1>5, Zenon DEF Promised

LEMMA UnpackedDepends ==
  UnpackedSoFar /\ UNCHANGED <<pc, archive, entry, disk>> => UnpackedSoFar'
  BY DEF UnpackedSoFar

LEMMA RegisteredDepends ==
  Registered /\ UNCHANGED <<pc, disk, triggers, serviceVars>> => Registered'
<1> SUFFICES ASSUME Registered, UNCHANGED <<pc, disk, triggers, serviceVars>>
             PROVE  Registered'
  OBVIOUS
<1>1. UNCHANGED <<defs, created, providers, listening>>
  BY DEF serviceVars
<1> QED
  BY <1>1 DEF Registered, Listed, HeardOnNats, Resolved, Node, Unheard

-----------------------------------------------------------------------------
(* Types. *)

LEMMA InitTypes == Init => TypeOK
<1> SUFFICES ASSUME Init PROVE TypeOK
  OBVIOUS
<1>1. FilesTypeOK
  BY ArchiveTable DEF Init, FilesInit, FilesTypeOK, EmptyDisk, Disks
<1>2. LoadTypeOK
  BY DEF Init, LoadInit, LoadTypeOK, Undeclared
<1> QED
  BY <1>1, <1>2 DEF Init, FilesInit, TypeOK, Labels, Unregistered

LEMMA FilesTypes ==
  ASSUME TypeOK, FlagUrl \/ CRUrl \/ Download \/ Verify \/ Open \/ UnpackedAll
                  \/ Publish \/ Announce
  PROVE  pc' \in Labels /\ FilesTypeOK'
<1> USE DEF TypeOK, FilesTypeOK, options, outside, fileVars
<1>1. EmptyDisk \in Disks /\ Directories \subseteq Disks
  BY ArchiveTable DEF EmptyDisk, Disks
<1>2. CASE FlagUrl
  BY <1>1, <1>2 DEF FlagUrl, UseUrl, Labels
<1>3. CASE CRUrl
  <2>1. specs \in Seq(SpecType)
    BY ArchiveTable
  <2>2. chkSum' \in Archives
    <3>1. PICK i \in DOMAIN specs : chkSum' = specs[i].sha
      BY <1>3 DEF CRUrl
    <3>2. specs[i] \in SpecType
      BY <2>1
    <3> QED
      BY <3>1, <3>2 DEF SpecType
  <2>3. disk' \in Disks /\ pc' \in Labels
    BY <1>1, <1>3 DEF CRUrl, UseUrl, Labels
  <2> QED
    BY <1>3, <2>2, <2>3 DEF CRUrl
<1>4. CASE Download
  BY <1>4, ArchiveTable DEF Download, Labels
<1>5. CASE Verify \/ Open \/ UnpackedAll
  BY <1>5 DEF Verify, Open, UnpackedAll, Labels
<1>6. CASE Publish
  BY <1>6, ArchiveTable DEF Publish
<1>7. CASE Announce
  BY <1>7, ArchiveTable DEF Announce
<1> QED
  BY <1>2, <1>3, <1>4, <1>5, <1>6, <1>7

(* The entry that is unpacked, and what it leaves.                          *)
LEMMA UnpackTypes ==
  ASSUME TypeOK, Promised, Unpack
  PROVE  /\ pc' \in Labels /\ FilesTypeOK'
         /\ Entries[archive] \in Seq(EntryType) /\ entry \in 1 .. Len(Entries[archive])
         /\ Entries[archive][entry] \in EntryType
<1>1. archive \in Archives /\ pc = "unpack"
  BY DEF TypeOK, FilesTypeOK, Promised, Unpack
<1>2. Entries[archive] \in Seq(EntryType)
  BY <1>1, ArchiveTable
<1> DEFINE e == Entries[archive][entry]
<1>3. entry \in 1 .. Len(Entries[archive]) /\ e \in EntryType
  BY <1>2 DEF Unpack
<1>4. e.path \in Paths /\ e.text \in Texts
  BY <1>3 DEF EntryType
<1>5. disk \in Disks /\ Unpacked(e)
  BY DEF TypeOK, FilesTypeOK, Unpack
<1> HIDE DEF e
<1>6. disk' \in Disks
  <2>1. CASE disk' = [disk EXCEPT ![e.path] =
                        IF @ = Absent THEN e.text ELSE Over[@][e.text]]
               /\ disk[e.path] # Directory
    <3>1. disk[e.path] = Absent \/ disk[e.path] \in Texts
      BY <1>4, <1>5, <2>1 DEF Disks
    <3>2. (IF disk[e.path] = Absent THEN e.text ELSE Over[disk[e.path]][e.text]) \in Texts
      BY <1>4, <3>1, ArchiveTable
    <3> QED
      BY <1>5, <2>1, <3>2 DEF Disks
  <2>2. CASE disk' = [d \in Paths |->
                        IF d \in Above[e.path] \cup {e.path} THEN Directory ELSE disk[d]]
    BY <1>5, <2>2 DEF Disks
  <2> QED
    BY <1>5, <2>1, <2>2 DEF Unpacked
<1> QED
  BY <1>1, <1>2, <1>3, <1>6
    DEF TypeOK, FilesTypeOK, Unpack, options, outside, Labels, e

LEMMA LoadTypes ==
  ASSUME TypeOK, LoadStep
  PROVE  pc' \in Labels /\ LoadTypeOK'
<1> USE DEF TypeOK, LoadTypeOK, loadVars
<1>1. CASE Find
  BY <1>1 DEF Find, Labels
<1>2. CASE Load
  <2>1. Text \in Texts \ NoYaml
    BY <1>2 DEF Load, Readable
  <2> DEFINE d == Doc[Text]
  <2>2. d.dryrun \in Dry /\ d.functions \in Seq(FunctionType)
    BY <2>1, DocumentTable
  <2>3. setting' = Append(setting, d.dryrun) /\ triggers' = Appended(d)
          /\ functions' = Declared(d) /\ file' = file + 1 /\ pc' = pc
    BY <1>2 DEF Load
  <2> HIDE DEF d
  <2>4. DOMAIN Appended(d) = Sources
    BY DEF Appended
  <2>5. Named(d) \subseteq Nat
    BY <2>2 DEF Named
  <2>6. Declared(d) \in [Functions -> Nat \X Nat]
    <3> SUFFICES ASSUME NEW f \in Functions PROVE Declared(d)[f] \in Nat \X Nat
      BY DEF Declared
    <3>1. CASE \E i \in Named(d) : d.functions[i].name = f
      <4>1. (CHOOSE i \in Named(d) : d.functions[i].name = f) \in Nat
        BY <2>5, <3>1
      <4> QED
        BY <3>1, <4>1 DEF Declared
    <3>2. CASE ~ \E i \in Named(d) : d.functions[i].name = f
      BY <3>2 DEF Declared
    <3> QED
      BY <3>1, <3>2
  <2> QED
    BY <2>2, <2>3, <2>4, <2>6
<1>3. CASE LoadedAll
  BY <1>3 DEF LoadedAll, Labels
<1> QED
  BY <1>1, <1>2, <1>3 DEF LoadStep

(* Where the definitions are read, and what a provider is.                  *)
LEMMA DefinitionsRead ==
  ASSUME IInv, pc \in Serving
  PROVE  /\ defs = disk[DefinitionFile] /\ defs \in Texts \ NoDefinitions
         /\ Listed \in Seq(ProviderType) /\ Doc[defs].destinations \in Seq(NodeType)
         /\ created \in 0 .. Len(Listed)
  BY DefinitionTable DEF IInv, Registered, Listed

LEMMA ServiceTypes ==
  ASSUME IInv, ServiceStep
  PROVE  TypeOK'
<1>1. TypeOK /\ FilesTypeOK /\ LoadTypeOK
  BY DEF IInv, TypeOK
<1>2. FilesTypeOK' /\ LoadTypeOK'
  <2>1. UNCHANGED <<options, outside, fileVars, loadVars>>
    BY DEF ServiceStep, ReadDefinitions, CreateProvider, CreatedAll, Listen, Serve
  <2> QED
    BY <1>1, <2>1 DEF FilesTypeOK, LoadTypeOK, options, outside, fileVars, loadVars
<1>3. CASE ReadDefinitions
  BY <1>1, <1>2, <1>3 DEF ReadDefinitions, TypeOK, Labels
<1>4. CASE CreateProvider
  <2>1. pc \in Serving
    BY <1>4 DEF CreateProvider, Serving
  <2>2. created' \in Nat /\ created' \in DOMAIN Listed
    BY <1>4, <2>1, DefinitionsRead DEF CreateProvider
  <2>3. providers' \in [Providers -> Nat]
    BY <1>1, <1>4, <2>2 DEF CreateProvider, TypeOK
  <2> QED
    BY <1>1, <1>2, <1>4, <2>2, <2>3 DEF CreateProvider, TypeOK
<1>5. CASE CreatedAll \/ Serve
  BY <1>1, <1>2, <1>5 DEF CreatedAll, Serve, TypeOK, Labels, serviceVars
<1>6. CASE Listen
  BY <1>1, <1>2, <1>6 DEF Listen, Unheard, TypeOK
<1> QED
  BY <1>3, <1>4, <1>5, <1>6 DEF ServiceStep

LEMMA NextTypes == IInv /\ [Next]_vars => TypeOK'
<1> SUFFICES ASSUME IInv, [Next]_vars PROVE TypeOK'
  OBVIOUS
<1>1. TypeOK /\ Promised
  BY DEF IInv
<1>2. CASE FilesStep
  <2>1. pc' \in Labels /\ FilesTypeOK'
    BY <1>1, <1>2, FilesTypes, UnpackTypes DEF FilesStep
  <2> QED
    BY <1>1, <1>2, <2>1 DEF FilesStep, TypeOK, LoadTypeOK, loadVars, serviceVars
<1>3. CASE LoadStep
  <2>1. pc' \in Labels /\ LoadTypeOK'
    BY <1>1, <1>3, LoadTypes
  <2>2. UNCHANGED <<options, outside, fileVars, serviceVars>>
    BY <1>3 DEF LoadStep, Find, Load, LoadedAll
  <2> QED
    BY <1>1, <2>1, <2>2 DEF TypeOK, FilesTypeOK, options, outside, fileVars, serviceVars
<1>4. CASE ServiceStep
  BY <1>4, ServiceTypes
<1>5. CASE End \/ UNCHANGED vars
  BY <1>1, <1>5 DEF End, vars, TypeOK, FilesTypeOK, LoadTypeOK, Labels,
     options, outside, fileVars, loadVars, serviceVars
<1> QED
  BY <1>2, <1>3, <1>4, <1>5 DEF Next

-----------------------------------------------------------------------------
(* What was promised. *)

LEMMA InitPromised == Init => Promised /\ UnpackedSoFar /\ Registered
  BY ArchiveTable DEF Init, FilesInit, LoadInit, Promised, FromArchive, UnpackedSoFar,
     Registered, Downloading, Serving, Unregistered

LEMMA PromisedKept ==
  ASSUME IInv, FlagUrl \/ CRUrl \/ Download \/ Verify \/ Open \/ Unpack \/ UnpackedAll
  PROVE  Promised'
<1> USE DEF Promised, FromArchive, Downloading, options
<1>1. Promised /\ FilesTypeOK /\ NoSum \notin Archives
  BY ArchiveTable DEF IInv, TypeOK
<1>2. CASE FlagUrl
  BY <1>1, <1>2 DEF FlagUrl, UseUrl
<1>3. CASE CRUrl
  BY <1>1, <1>3 DEF CRUrl, UseUrl, Remote
<1>4. CASE Download
  <2>1. archive' # NoSum
    BY <1>1, <1>4, ArchiveTable DEF Download, FilesTypeOK
  <2> QED
    BY <1>1, <1>4, <2>1 DEF Download
<1>5. CASE Verify
  BY <1>1, <1>5 DEF Verify, fileVars
<1>6. CASE Open
  BY <1>1, <1>6 DEF Open, fileVars
<1>7. CASE Unpack
  BY <1>1, <1>7 DEF Unpack
<1>8. CASE UnpackedAll
  BY <1>1, <1>8 DEF UnpackedAll, fileVars
<1> QED
  BY <1>2, <1>3, <1>4, <1>5, <1>6, <1>7, <1>8

-----------------------------------------------------------------------------
(* What was unpacked. *)

(* What is said of the file at p after n entries.                           *)
FileIs(content, a, n, p) ==
  /\ UnpackedAt(content, a, n, p)
  /\ Naming(a, n, p) # {} => \A t \in Texts : Over[content][t] = t <=> Covers(a, n, p, t)

LEMMA NothingUnpacked ==
  ASSUME NEW a, NEW p \in Paths
  PROVE  FileIs(EmptyDisk[p], a, 0, p)
<1>1. Naming(a, 0, p) = {}
  BY DEF Naming
<1>2. EmptyDisk[p] \notin Texts
  BY ArchiveTable DEF EmptyDisk
<1> QED
  BY <1>1, <1>2 DEF FileIs, UnpackedAt

(* One entry more.                                                          *)
LEMMA NamingNext ==
  ASSUME NEW a, NEW n \in Nat, NEW p
  PROVE  LET k == n + 1
             named == Entries[a][k].kind = "file" /\ Entries[a][k].path = p
         IN /\ named => /\ Naming(a, k, p) = Naming(a, n, p) \cup {k}
                        /\ \A t \in Texts : Covers(a, k, p, t) <=>
                             Covers(a, n, p, t) /\ Over[Entries[a][k].text][t] = t
            /\ ~named => /\ Naming(a, k, p) = Naming(a, n, p)
                         /\ \A t \in Texts : Covers(a, k, p, t) <=> Covers(a, n, p, t)
<1> DEFINE k == n + 1
<1>1. 1 .. k = 1 .. n \cup {k} /\ k \notin 1 .. n
  OBVIOUS
<1> HIDE DEF k
<1>2. CASE Entries[a][k].kind = "file" /\ Entries[a][k].path = p
  <2>1. Naming(a, k, p) = Naming(a, n, p) \cup {k}
    BY <1>1, <1>2 DEF Naming
  <2> QED
    BY <1>2, <2>1 DEF Covers, k
<1>3. CASE ~(Entries[a][k].kind = "file" /\ Entries[a][k].path = p)
  <2>1. Naming(a, k, p) = Naming(a, n, p)
    BY <1>1, <1>3 DEF Naming
  <2> QED
    BY <1>3, <2>1 DEF Covers, k
<1> QED
  BY <1>2, <1>3

(* An entry that is no file at p leaves what is said of p.                  *)
LEMMA OtherEntryKeeps ==
  ASSUME NEW old, NEW new, NEW a, NEW n \in Nat, NEW p \in Paths, FileIs(old, a, n, p),
         ~(Entries[a][n + 1].kind = "file" /\ Entries[a][n + 1].path = p),
         new = old \/ (old \notin Texts /\ new \notin Texts)
  PROVE  FileIs(new, a, n + 1, p)
<1>1. /\ Naming(a, n + 1, p) = Naming(a, n, p)
      /\ \A t \in Texts : Covers(a, n + 1, p, t) <=> Covers(a, n, p, t)
  BY NamingNext
<1> DEFINE k == n + 1
<1> HIDE DEF k
<1>2. CASE new = old
  <2>1. FileIs(new, a, n, p) /\ Naming(a, k, p) = Naming(a, n, p)
    BY <1>1, <1>2 DEF k
  <2>2. UnpackedAt(new, a, k, p)
    BY <2>1 DEF FileIs, UnpackedAt
  <2> QED
    BY <1>1, <2>1, <2>2 DEF FileIs, k
<1>3. CASE old \notin Texts /\ new \notin Texts
  <2>1. Naming(a, n + 1, p) = {}
    BY <1>1, <1>3 DEF FileIs, UnpackedAt
  <2> QED
    BY <1>3, <2>1 DEF FileIs, UnpackedAt
<1> QED
  BY <1>2, <1>3

(* A file at p is as its entry, or what the entry leaves of the one before.    *)
LEMMA EntryWrites ==
  ASSUME NEW old, NEW new, NEW a, NEW n \in Nat, NEW p \in Paths, FileIs(old, a, n, p),
         Entries[a][n + 1].kind = "file", Entries[a][n + 1].path = p,
         NEW text \in Texts, Entries[a][n + 1].text = text,
         old \in Texts \cup {Absent},
         new = IF old = Absent THEN text ELSE Over[old][text]
  PROVE  FileIs(new, a, n + 1, p)
<1> DEFINE k == n + 1
<1>1. /\ Naming(a, k, p) = Naming(a, n, p) \cup {k}
      /\ \A t \in Texts : Covers(a, k, p, t) <=> Covers(a, n, p, t) /\ Over[text][t] = t
  <2>1. Entries[a][k].kind = "file" /\ Entries[a][k].path = p /\ Entries[a][k].text = text
    OBVIOUS
  <2>2. /\ Naming(a, k, p) = Naming(a, n, p) \cup {k}
        /\ \A t \in Texts : Covers(a, k, p, t) <=>
             Covers(a, n, p, t) /\ Over[Entries[a][k].text][t] = t
    BY <2>1, NamingNext
  <2> HIDE DEF k
  <2> QED
    BY <2>1, <2>2, Zenon
<1>2. k - 1 = n /\ k \in Nat /\ Naming(a, n, p) \subseteq 1 .. n
  BY DEF Naming
<1>3. \A i \in Naming(a, k, p) : (\A j \in Naming(a, k, p) : j <= i) => i = k
  BY <1>1, <1>2
<1>4. /\ new \in Texts
      /\ new = text <=> Covers(a, n, p, text)
      /\ \A t \in Texts : Over[new][t] = t <=> Covers(a, k, p, t)
  <2>1. CASE old = Absent
    <3>1. Naming(a, n, p) = {}
      BY <2>1, ArchiveTable DEF FileIs, UnpackedAt
    <3>2. \A t \in Texts : Covers(a, n, p, t)
      BY <3>1 DEF Covers
    <3> QED
      BY <1>1, <2>1, <3>2
  <2>2. CASE old \in Texts
    <3>1. \A t \in Texts : Over[old][t] = t <=> Covers(a, n, p, t)
      BY <2>2 DEF FileIs, UnpackedAt
    <3>2. new = Over[old][text]
      BY <2>2, ArchiveTable
    <3>3. new \in Texts
      BY <2>2, <3>2, ArchiveTable
    <3>4. \A t \in Texts : Over[new][t] = t <=> Over[old][t] = t /\ Over[text][t] = t
      <4>1. OverIsLength
        BY ArchiveTable
      <4>2. \A t \in Texts :
              Over[Over[old][text]][t] = t <=> Over[old][t] = t /\ Over[text][t] = t
        BY <2>2, <4>1, Zenon DEF OverIsLength
      <4> QED
        BY <3>2, <4>2
    <3>5. new = text <=> Covers(a, n, p, text)
      BY <3>1, <3>2
    <3>6. \A t \in Texts : Over[new][t] = t <=> Covers(a, k, p, t)
      <4> HIDE DEF k
      <4> TAKE t \in Texts
      <4>1. Covers(a, k, p, t) <=> Covers(a, n, p, t) /\ Over[text][t] = t
        BY <1>1
      <4> QED
        BY <3>1, <3>4, <4>1
    <3> QED
      BY <3>3, <3>5, <3>6
  <2> QED
    BY <2>1, <2>2
<1>5. Naming(a, k, p) # {} /\ Entries[a][k].text = text
  BY <1>1
<1> HIDE DEF k
<1>6. UnpackedAt(new, a, k, p)
  BY <1>2, <1>3, <1>4, <1>5 DEF UnpackedAt
<1> QED
  BY <1>4, <1>6 DEF FileIs, k

LEMMA UnpackKeeps ==
  ASSUME IInv, Unpack
  PROVE  UnpackedSoFar'
<1> DEFINE E == Entries[archive]
           e == E[entry]
           n == entry - 1
<1>1. /\ E \in Seq(EntryType) /\ entry \in 1 .. Len(E) /\ e \in EntryType
      /\ pc = "unpack" /\ archive # NoSum
  BY UnpackTypes DEF IInv, Promised, Unpack
<1>2. entry' = entry + 1 /\ archive' = archive /\ pc' = pc
  BY DEF Unpack
<1>3. n \in Nat /\ n + 1 = entry /\ entry' - 1 = entry
  BY <1>1, <1>2
<1>4. disk \in Disks /\ Unpacked(e) /\ e.path \in Paths /\ e.text \in Texts
  BY <1>1 DEF IInv, TypeOK, FilesTypeOK, Unpack, EntryType
<1>5. ASSUME NEW p \in Paths PROVE FileIs(disk'[p], archive, entry, p)
  <2>1. FileIs(disk[p], archive, n, p) /\ e = Entries[archive][n + 1]
    BY <1>1, <1>3 DEF IInv, UnpackedSoFar, FileIs
  <2> HIDE DEF e, n
  <2>2. CASE e.kind = "file" /\ e.path = p
    <3>1. /\ disk[p] # Directory
          /\ disk' = [disk EXCEPT ![p] = IF @ = Absent THEN e.text ELSE Over[@][e.text]]
      BY <1>4, <2>2 DEF Unpacked
    <3>2. disk[p] \in Texts \cup {Absent}
      BY <1>4, <3>1 DEF Disks
    <3>3. disk'[p] = IF disk[p] = Absent THEN e.text ELSE Over[disk[p]][e.text]
      BY <1>4, <3>1 DEF Disks
    <3>4. FileIs(disk'[p], archive, n + 1, p)
      BY <1>2, <1>3, <1>4, <2>1, <2>2, <3>2, <3>3, EntryWrites
    <3> QED
      BY <1>3, <3>4
  <2>3. CASE ~(e.kind = "file" /\ e.path = p)
    <3>1. disk'[p] = disk[p] \/ (disk[p] \notin Texts /\ disk'[p] \notin Texts)
      <4>1. CASE e.kind = "file"
        BY <1>4, <2>3, <4>1 DEF Unpacked, Disks
      <4>2. CASE e.kind = "dir"
        <5>1. /\ \A d \in Above[e.path] \cup {e.path} : disk[d] \notin Texts
              /\ disk' = [d \in Paths |->
                            IF d \in Above[e.path] \cup {e.path} THEN Directory ELSE disk[d]]
          BY <1>4, <4>2 DEF Unpacked
        <5> QED
          BY <5>1, ArchiveTable
      <4> QED
        BY <1>4, <4>1, <4>2 DEF Unpacked
    <3>2. FileIs(disk'[p], archive, n + 1, p)
      BY <1>2, <1>3, <2>1, <2>3, <3>1, OtherEntryKeeps
    <3> QED
      BY <1>3, <3>2
  <2> QED
    BY <2>2, <2>3
<1>6. \A p \in Paths : FileIs(disk'[p], archive', entry' - 1, p)
  BY <1>2, <1>3, <1>5
<1> QED
  BY <1>1, <1>2, <1>6 DEF UnpackedSoFar, Downloading, FileIs

LEMMA UnpackedKept ==
  ASSUME IInv, FlagUrl \/ CRUrl \/ Download \/ Verify \/ Open \/ UnpackedAll
  PROVE  UnpackedSoFar'
<1>1. UnpackedSoFar /\ Promised /\ FilesTypeOK
  BY DEF IInv, TypeOK
<1>2. CASE FlagUrl \/ CRUrl
  <2>1. /\ archive' = archive /\ entry' = entry /\ pc = "url"
        /\ (pc' = "download" /\ disk' = EmptyDisk) \/ pc' = "service"
    BY <1>2 DEF FlagUrl, CRUrl, UseUrl
  <2>2. archive = NoSum /\ entry = 1
    BY <1>1, <2>1 DEF UnpackedSoFar, Promised
  <2> QED
    BY <2>1, <2>2 DEF UnpackedSoFar
<1>3. CASE Download
  <2>1. /\ archive' \in Archives /\ entry' = entry /\ disk' = disk
        /\ pc = "download" /\ pc' \in {"verify", "open"}
    BY <1>1, <1>3, ArchiveTable DEF Download, FilesTypeOK
  <2>2. disk' = EmptyDisk /\ entry' = 1
    BY <1>1, <2>1 DEF UnpackedSoFar
  <2>3. entry' \in 1 .. Len(Entries[archive']) + 1
    BY <2>1, <2>2, ArchiveTable
  <2>4. \A p \in Paths : FileIs(disk'[p], archive', entry' - 1, p)
    BY <2>2, NothingUnpacked
  <2> QED
    BY <2>1, <2>2, <2>3, <2>4 DEF UnpackedSoFar, Downloading, FileIs
<1>4. CASE Verify \/ Open
  <2>1. /\ UNCHANGED <<archive, entry, disk>>
        /\ pc \in {"verify", "open"} /\ pc' \in {"open", "unpack"}
    BY <1>4 DEF Verify, Open, fileVars
  <2> QED
    BY <1>1, <2>1 DEF UnpackedSoFar, Downloading
<1>5. CASE UnpackedAll
  <2>1. /\ UNCHANGED <<archive, entry, disk>>
        /\ pc = "unpack" /\ pc' = "service" /\ entry \notin DOMAIN Entries[archive]
    BY <1>5 DEF UnpackedAll, fileVars
  <2>2. archive \in Archives
    BY <1>1, <2>1 DEF Promised, FilesTypeOK
  <2>3. Entries[archive] \in Seq(EntryType)
    BY <2>2, ArchiveTable
  <2>4. archive # NoSum => entry = Len(Entries[archive]) + 1
    BY <1>1, <2>1, <2>3 DEF UnpackedSoFar
  <2> QED
    BY <1>1, <2>1, <2>4 DEF UnpackedSoFar
<1> QED
  BY <1>2, <1>3, <1>4, <1>5

-----------------------------------------------------------------------------
(* What was registered. *)

LEMMA FilesKeepRegistered ==
  ASSUME IInv, FilesStep
  PROVE  Registered'
<1>1. Registered /\ UNCHANGED <<triggers, serviceVars>>
  BY DEF IInv, FilesStep, loadVars
<1>2. CASE Publish \/ Announce
  BY <1>1, <1>2, RegisteredDepends DEF Publish, Announce, fileVars
<1>3. CASE FlagUrl \/ CRUrl \/ Download \/ Verify \/ Open \/ Unpack \/ UnpackedAll
  <2>1. pc \in {"url"} \cup Downloading /\ pc' \in {"service"} \cup Downloading
    BY <1>3 DEF FlagUrl, CRUrl, UseUrl, Download, Verify, Open, Unpack, UnpackedAll, Downloading
  <2> QED
    BY <1>1, <2>1 DEF Registered, Downloading, Serving, serviceVars
<1> QED
  BY <1>2, <1>3 DEF FilesStep

(* pc goes on within the steps of the service, and nothing else changes.    *)
LEMMA LaterKeeps ==
  ASSUME Registered, UNCHANGED <<disk, serviceVars>>, pc \in Serving, pc' \in Serving,
         pc # "serving", pc' = "providers" => pc = "providers",
         pc = "providers" /\ pc' # "providers" => created = Len(Listed),
         pc' \notin {"listen", "serving"} => pc \notin {"listen", "serving"},
         pc' = "serving" => Unheard' = {}
  PROVE  Registered'
<1>1. UNCHANGED <<defs, created, providers, listening>>
  BY DEF serviceVars
<1>2. Listed' = Listed /\ \A s \in listening : HeardOnNats(s)' <=> HeardOnNats(s)
  BY <1>1 DEF Listed, HeardOnNats, Resolved, Node
<1>3. /\ pc' \notin {"url", "service"} \cup Downloading
      /\ pc' \notin {"listen", "serving", "ended"} => listening = {}
  BY DEF Registered, Serving, Downloading
<1> QED
  BY <1>1, <1>2, <1>3 DEF Registered, Serving

LEMMA LoadKeepsRegistered ==
  ASSUME IInv, LoadStep
  PROVE  Registered'
<1>1. Registered /\ UNCHANGED <<disk, serviceVars>>
  BY DEF IInv, LoadStep, Find, Load, LoadedAll, fileVars
<1>2. pc \in {"find", "load"} /\ pc' \in {"load", "listen"}
  BY DEF LoadStep, Find, Load, LoadedAll
<1> QED
  BY <1>1, <1>2, LaterKeeps DEF Serving

LEMMA ServiceKeepsRegistered ==
  ASSUME IInv, ServiceStep
  PROVE  Registered'
<1>1. Registered /\ TypeOK
  BY DEF IInv
<1>2. CASE ReadDefinitions
  <2>1. /\ pc = "service" /\ pc' = "providers" /\ disk' = disk
        /\ defs' = disk[DefinitionFile] /\ defs' \in Texts \ NoDefinitions
        /\ UNCHANGED <<created, providers, listening>>
    BY <1>2 DEF ReadDefinitions, fileVars
  <2>2. created = 0 /\ listening = {} /\ \A n \in Providers : providers[n] = Unregistered
    BY <1>1, <2>1 DEF Registered
  <2>3. Listed' \in Seq(ProviderType)
    BY <2>1, DefinitionTable DEF Listed
  <2>4. 0 \in 0 .. Len(Listed')
    BY <2>3
  <2> QED
    BY <2>1, <2>2, <2>4 DEF Registered, Downloading
<1>3. CASE CreateProvider
  <2> DEFINE k == created + 1
             m == Listed[k].name
  <2>1. /\ pc = "providers" /\ created < Len(Listed) /\ created' = k /\ pc' = pc
        /\ providers' = [providers EXCEPT ![m] = k]
        /\ UNCHANGED <<disk, defs, listening>>
    BY <1>3 DEF CreateProvider, fileVars
  <2>2. Listed \in Seq(ProviderType) /\ created \in 0 .. Len(Listed) /\ Listed' = Listed
    BY <2>1, DefinitionsRead DEF Serving, Listed
  <2>3. k \in 1 .. Len(Listed) /\ m \in Providers /\ k # Unregistered
    <3>1. k \in 1 .. Len(Listed)
      BY <2>1, <2>2
    <3>2. Listed[k] \in ProviderType
      BY <2>2, <3>1
    <3> QED
      BY <3>1, <3>2 DEF ProviderType, Unregistered
  <2>4. /\ defs = disk[DefinitionFile] /\ defs \in Texts \ NoDefinitions
        /\ listening = {}
        /\ \A n \in Providers : providers[n] # Unregistered =>
             /\ providers[n] \in 1 .. created
             /\ Listed[providers[n]].name = n
             /\ \A q \in providers[n] + 1 .. created : Listed[q].name # n
    BY <1>1, <2>1 DEF Registered, Serving
  <2>5. ASSUME NEW n \in Providers, providers'[n] # Unregistered
        PROVE  /\ providers'[n] \in 1 .. k
               /\ Listed[providers'[n]].name = n
               /\ \A q \in providers'[n] + 1 .. k : Listed[q].name # n
    <3>1. providers \in [Providers -> Nat]
      BY <1>1 DEF TypeOK
    <3> HIDE DEF m
    <3>2. CASE n = m
      <4>1. providers'[n] = k
        BY <2>1, <3>1, <3>2
      <4>2. Listed[k].name = n
        BY <3>2 DEF m
      <4> QED
        BY <2>3, <4>1, <4>2
    <3>3. CASE n # m
      <4>1. providers'[n] = providers[n]
        BY <2>1, <3>1, <3>3
      <4>2. Listed[k].name # n
        BY <3>3 DEF m
      <4>3. \A q \in providers[n] + 1 .. k : q = k \/ q \in providers[n] + 1 .. created
        BY <2>2, <3>1
      <4> QED
        BY <2>2, <2>4, <2>5, <4>1, <4>2, <4>3
    <3> QED
      BY <3>2, <3>3
  <2> HIDE DEF k, m
  <2>6. created' \in 0 .. Len(Listed') /\ created' # 0
    BY <2>1, <2>2, <2>3
  <2> QED
    BY <2>1, <2>2, <2>4, <2>5, <2>6 DEF Registered, Downloading, Serving
<1>4. CASE CreatedAll
  BY <1>1, <1>4, LaterKeeps DEF CreatedAll, Serving, fileVars
<1>5. CASE Listen
  <2>1. PICK s \in Unheard : HeardOnNats(s) /\ listening' = listening \cup {s}
    BY <1>5 DEF Listen
  <2>2. pc = "listen" /\ UNCHANGED <<pc, disk, defs, created, providers>>
    BY <1>5 DEF Listen, fileVars
  <2>3. Listed' = Listed /\ \A t \in Sources : HeardOnNats(t)' <=> HeardOnNats(t)
    BY <2>2 DEF Listed, HeardOnNats, Resolved, Node
  <2>4. \A t \in listening' : HeardOnNats(t)'
    BY <1>1, <2>1, <2>2, <2>3 DEF Registered, Serving, TypeOK, Unheard
  <2> QED
    BY <1>1, <2>2, <2>3, <2>4 DEF Registered, Serving, Downloading
<1>6. CASE Serve
  <2>1. Unheard' = {} /\ pc = "listen" /\ pc' = "serving" /\ UNCHANGED <<disk, serviceVars>>
    BY <1>6 DEF Serve, Unheard, loadVars, serviceVars, fileVars
  <2> QED
    BY <1>1, <2>1, LaterKeeps DEF Serving
<1> QED
  BY <1>2, <1>3, <1>4, <1>5, <1>6 DEF ServiceStep

-----------------------------------------------------------------------------
(* What the loop over the files reads. *)

(* Induction over the natural numbers, as a statement about a set.          *)
LEMMA Induction ==
  ASSUME NEW T, 0 \in T, \A n \in Nat : n \in T => n + 1 \in T
  PROVE  \A n \in Nat : n \in T
<1> DEFINE U == Nat \ T
           R == {ss \in Nat \X Nat : ss[1] < ss[2]}
<1>1. SUFFICES ASSUME U # {} PROVE FALSE
  OBVIOUS
<1>2. PICK x \in U : \A y \in U : <<y, x>> \notin R
  <2>1. U \subseteq Nat
    OBVIOUS
  <2>2. IsWellFoundedOn(R, Nat)
    BY NatLessThanWellFounded DEF OpToRel
  <2> HIDE DEF U, R
  <2> QED
    BY <1>1, <2>1, <2>2, WFMin
<1>3. x \in Nat /\ x # 0 /\ x - 1 \in Nat /\ x - 1 < x
  BY <1>2
<1>4. x - 1 \in U
  BY <1>2, <1>3
<1>5. <<x - 1, x>> \in R
  BY <1>3
<1> QED
  BY <1>2, <1>4, <1>5

(* The function that Those defines is there.                                *)
LEMMA ThoseIs ==
  ASSUME NEW S, NEW seq \in Seq(S), NEW set
  PROVE  \E found :
           /\ Those(seq, set) = found[Len(seq)]
           /\ \A i \in 0 .. Len(seq) : found[i] =
                IF i = 0 THEN <<>>
                ELSE IF seq[i] \in set THEN Append(found[i - 1], seq[i])
                ELSE found[i - 1]
<1> DEFINE I == 0 .. Len(seq)
           At(g, i) == IF i = 0 THEN <<>>
                       ELSE IF seq[i] \in set THEN Append(g[i - 1], seq[i])
                       ELSE g[i - 1]
           Good(g, n) == \A i \in I : i < n => g[i] = At(g, i)
           T == {n \in Nat : \E g : Good(g, n)}
<1>1. Len(seq) \in Nat
  OBVIOUS
<1>2. 0 \in T
  <2>1. Good(<<>>, 0)
    OBVIOUS
  <2> QED
    BY <2>1
<1>3. ASSUME NEW n \in Nat, n \in T PROVE n + 1 \in T
  <2>1. PICK g : Good(g, n)
    BY <1>3
  <2> DEFINE h == [i \in I |-> At(g, i)]
  <2>2. ASSUME NEW i \in I, i < n + 1 PROVE h[i] = At(h, i)
    <3>1. i # 0 => i - 1 \in I /\ i - 1 < n /\ h[i - 1] = g[i - 1]
      BY <1>1, <2>1, <2>2
    <3> QED
      BY <3>1
  <2> HIDE DEF h
  <2>3. Good(h, n + 1)
    BY <2>2
  <2> HIDE DEF Good
  <2> QED
    BY <2>3
<1>4. Len(seq) + 1 \in T
  <2> HIDE DEF T
  <2> QED
    BY <1>1, <1>2, <1>3, Induction
<1>5. PICK g : Good(g, Len(seq) + 1)
  BY <1>4
<1> DEFINE f == [i \in I |-> At(g, i)]
<1>6. f = [i \in I |-> At(f, i)]
  <2>1. ASSUME NEW i \in I PROVE f[i] = g[i]
    BY <1>1, <1>5
  <2>2. ASSUME NEW i \in I PROVE At(f, i) = At(g, i)
    BY <1>1, <2>1
  <2> HIDE DEF At
  <2> QED
    BY <2>2
<1> DEFINE found == CHOOSE k : k = [i \in I |-> At(k, i)]
<1>7. found = [i \in I |-> At(found, i)]
  <2> HIDE DEF f, At
  <2> QED
    BY <1>6
<1>8. Those(seq, set) = found[Len(seq)]
  BY DEF Those
<1> HIDE DEF found
<1> QED
  BY <1>7, <1>8

(* Those keeps the type of the sequence it selects from.                    *)
LEMMA ThoseType ==
  ASSUME NEW S, NEW seq \in Seq(S), NEW set
  PROVE  Those(seq, set) \in Seq(S)
<1>1. PICK found :
        /\ Those(seq, set) = found[Len(seq)]
        /\ \A i \in 0 .. Len(seq) : found[i] =
             IF i = 0 THEN <<>>
             ELSE IF seq[i] \in set THEN Append(found[i - 1], seq[i])
             ELSE found[i - 1]
  BY ThoseIs
<1> DEFINE T == {n \in Nat : n <= Len(seq) => found[n] \in Seq(S)}
<1>2. Len(seq) \in Nat
  OBVIOUS
<1>3. 0 \in T
  <2>1. 0 \in 0 .. Len(seq)
    BY <1>2
  <2>2. found[0] = <<>>
    BY <1>1, <2>1
  <2>3. <<>> \in Seq(S)
    OBVIOUS
  <2> QED
    BY <2>2, <2>3
<1>4. ASSUME NEW n \in Nat, n \in T PROVE n + 1 \in T
  <2> SUFFICES ASSUME n + 1 <= Len(seq) PROVE found[n + 1] \in Seq(S)
    OBVIOUS
  <2>1. PICK m : m = n + 1
    OBVIOUS
  <2>2. m \in 0 .. Len(seq) /\ m - 1 = n /\ m # 0 /\ seq[m] \in S /\ found[n] \in Seq(S)
    BY <1>2, <1>4, <2>1
  <2>3. found[m] = IF seq[m] \in set THEN Append(found[n], seq[m]) ELSE found[n]
    BY <1>1, <2>2
  <2>4. Append(found[n], seq[m]) \in Seq(S)
    BY <2>2
  <2> QED
    BY <2>1, <2>2, <2>3, <2>4
<1>5. Len(seq) \in T
  <2> HIDE DEF T
  <2> QED
    BY <1>2, <1>3, <1>4, Induction
<1> QED
  BY <1>1, <1>2, <1>5

(* A listing of positions in their order stays one when a later position is *)
(* added at its end.                                                        *)
Listing(q, A) ==
  /\ Len(q) = Cardinality(A)
  /\ \A a \in A : q[1 + Cardinality({b \in A : Before(b, a)})] = TriggerAt(a)

LEMMA ListingNext ==
  ASSUME NEW S, NEW q \in Seq(S), NEW A, A \subseteq Nat \X Nat, IsFiniteSet(A),
         NEW x \in Nat \X Nat, \A b \in A : Before(b, x), TriggerAt(x) \in S,
         Listing(q, A)
  PROVE  /\ Append(q, TriggerAt(x)) \in Seq(S)
         /\ IsFiniteSet(A \cup {x})
         /\ Listing(Append(q, TriggerAt(x)), A \cup {x})
<1> DEFINE v == TriggerAt(x)
           B == A \cup {x}
           Ahead(a) == {b \in A : Before(b, a)}
<1>1. Append(q, v) \in Seq(S) /\ Len(q) \in Nat /\ Len(Append(q, v)) = Len(q) + 1
  OBVIOUS
<1>2. /\ \A i \in 1 .. Len(q) : Append(q, v)[i] = q[i]
      /\ Append(q, v)[Len(q) + 1] = v
  OBVIOUS
<1>3. ~Before(x, x) /\ \A a \in A : ~Before(a, a) /\ ~Before(x, a)
  BY DEF Before
<1>4. x \notin A
  BY <1>3
<1>5. IsFiniteSet(B) /\ Cardinality(B) = Cardinality(A) + 1
  BY <1>4, FS_AddElement
<1>6. ASSUME NEW a \in A
      PROVE  Append(q, v)[1 + Cardinality({b \in B : Before(b, a)})] = TriggerAt(a)
  <2>1. {b \in B : Before(b, a)} = Ahead(a)
    BY <1>3
  <2>2. Ahead(a) \subseteq A \ {a}
    BY <1>3
  <2>3. IsFiniteSet(A \ {a}) /\ Cardinality(A \ {a}) = Cardinality(A) - 1
    BY FS_RemoveElement
  <2>4. IsFiniteSet(Ahead(a)) /\ Cardinality(Ahead(a)) <= Cardinality(A) - 1
    <3> HIDE DEF Ahead
    <3> QED
      BY <2>2, <2>3, FS_Subset
  <2>5. Cardinality(Ahead(a)) \in Nat
    BY <2>4, FS_CardinalityType
  <2>6. q[1 + Cardinality(Ahead(a))] = TriggerAt(a) /\ Cardinality(A) = Len(q)
    BY DEF Listing
  <2> HIDE DEF Ahead, v
  <2>7. 1 + Cardinality(Ahead(a)) \in 1 .. Len(q)
    BY <1>1, <2>4, <2>5, <2>6
  <2> QED
    BY <1>2, <2>1, <2>6, <2>7
<1>7. Append(q, v)[1 + Cardinality({b \in B : Before(b, x)})] = v
  <2>1. {b \in B : Before(b, x)} = A
    BY <1>3
  <2>2. Cardinality(A) = Len(q)
    BY DEF Listing
  <2>3. 1 + Len(q) = Len(q) + 1
    BY <1>1
  <2> HIDE DEF B, v
  <2> QED
    BY <1>2, <2>1, <2>2, <2>3
<1>8. Len(Append(q, v)) = Cardinality(B)
  BY <1>1, <1>5 DEF Listing
<1> HIDE DEF v
<1>9. Listing(Append(q, v), B)
  <2>1. \A a \in B : Append(q, v)[1 + Cardinality({b \in B : Before(b, a)})] = TriggerAt(a)
    BY <1>6, <1>7 DEF v
  <2> HIDE DEF B
  <2> QED
    BY <1>8, <2>1 DEF Listing
<1> QED
  BY <1>1, <1>5, <1>9 DEF v

(* Appending behind a concatenation.                                        *)
LEMMA AppendedBehind ==
  ASSUME NEW S, NEW p \in Seq(S), NEW q \in Seq(S), NEW x \in S
  PROVE  p \o Append(q, x) = Append(p \o q, x)
<1> DEFINE l == p \o Append(q, x)
           r == Append(p \o q, x)
<1>1. Len(p) \in Nat /\ Len(q) \in Nat
  OBVIOUS
<1>2. l \in Seq(S) /\ r \in Seq(S) /\ Len(l) = Len(p) + Len(q) + 1 /\ Len(r) = Len(l)
  BY <1>1
<1>3. ASSUME NEW i \in 1 .. Len(p) + Len(q) + 1 PROVE l[i] = r[i]
  BY <1>1
<1> HIDE DEF l, r
<1>4. l = r
  BY <1>1, <1>2, <1>3
<1> QED
  BY <1>4 DEF l, r

(* Documents that were read are of their types.                             *)
LEMMA ReadDocument ==
  ASSUME NEW t \in Texts \ NoYaml
  PROVE  /\ Doc[t].triggers \in Seq(TriggerType)
         /\ DOMAIN Doc[t].triggers = 1 .. Len(Doc[t].triggers)
         /\ Len(Doc[t].triggers) \in Nat
         /\ Doc[t].functions \in Seq(FunctionType)
         /\ Named(Doc[t]) \subseteq Nat
         /\ \A i \in Named(Doc[t]) : Doc[t].functions[i].name \in Functions
<1>1. Doc[t].triggers \in Seq(TriggerType) /\ Doc[t].functions \in Seq(FunctionType)
  BY DocumentTable
<1> DEFINE f == Doc[t].functions
<1>2. \A i \in DOMAIN f : f[i] \in FunctionType /\ i \in Nat
  BY <1>1
<1>3. Named(Doc[t]) = {i \in DOMAIN f : f[i].name # None}
  BY DEF Named
<1> HIDE DEF f
<1>4. \A i \in Named(Doc[t]) : f[i].name \in Functions /\ i \in Nat
  BY <1>2, <1>3 DEF FunctionType
<1> QED
  BY <1>1, <1>4 DEF f

(* Where the triggers read so far stand.                                    *)
LEMMA Positions ==
  ASSUME LoadedSoFar, NEW s
  PROVE  /\ For(s, file - 1) \subseteq Nat \X Nat
         /\ \A a \in For(s, file - 1) : a[1] < file
<1>1. file \in Nat \ {0}
  BY DEF LoadedSoFar
<1>2. ASSUME NEW a \in For(s, file - 1)
      PROVE  a \in Nat \X Nat /\ a[1] < file
  <2>1. PICK i \in 1 .. file - 1 : \E j \in DOMAIN DocOf(i).triggers : a = <<i, j>>
    BY <1>2 DEF For
  <2>2. PICK j \in DOMAIN DocOf(i).triggers : a = <<i, j>>
    BY <2>1
  <2>3. disk[files[i]] \in Texts \ NoYaml
    BY DEF LoadedSoFar
  <2>4. j \in Nat
    BY <2>2, <2>3, ReadDocument DEF DocOf
  <2> QED
    BY <1>1, <2>2, <2>4
<1> QED
  BY <1>2

(* One file: the triggers of a source that it states are listed behind      *)
(* those of the files before it.                                            *)
LEMMA TriggersLoaded ==
  ASSUME TypeOK, LoadedSoFar, Load, NEW s \in Sources
  PROVE  /\ triggers'[s] \in Seq(TriggerType)
         /\ IsFiniteSet(For(s, file))
         /\ Listing(triggers'[s], For(s, file))
<1> DEFINE d == Doc[Text]
           w == d.triggers
           of == OfSource(d, s)
<1>1. Text \in Texts \ NoYaml /\ triggers'[s] = triggers[s] \o Those(w, of)
  BY DEF Load, Readable, Appended
<1>2. w \in Seq(TriggerType) /\ DOMAIN w = 1 .. Len(w) /\ Len(w) \in Nat
  BY <1>1, ReadDocument
<1>3. /\ file \in Nat \ {0}
      /\ triggers[s] \in Seq(TriggerType)
      /\ IsFiniteSet(For(s, file - 1)) /\ Listing(triggers[s], For(s, file - 1))
  BY DEF LoadedSoFar, TriggersRead, Listing
<1>4. PICK found :
        /\ Those(w, of) = found[Len(w)]
        /\ \A i \in 0 .. Len(w) : found[i] =
             IF i = 0 THEN <<>>
             ELSE IF w[i] \in of THEN Append(found[i - 1], w[i])
             ELSE found[i - 1]
  <2> HIDE DEF w, of
  <2> QED
    BY <1>2, ThoseIs
<1>5. \A i \in 1 .. Len(w) : w[i] \in of <=> w[i].source = s
  BY <1>2 DEF OfSource, Elements
<1>6. \A i \in 1 .. Len(w) : TriggerAt(<<file, i>>) = w[i]
  BY DEF TriggerAt, DocOf, Text
<1>7. For(s, file) =
        For(s, file - 1) \cup {<<file, j>> : j \in {k \in 1 .. Len(w) : w[k].source = s}}
  <2>1. DocOf(file) = d
    BY DEF DocOf, Text
  <2>2. 1 .. file = (1 .. file - 1) \cup {file}
    BY <1>3
  <2> QED
    BY <1>2, <2>1, <2>2 DEF For
<1> HIDE DEF w, of
<1> DEFINE New(m) == {<<file, j>> : j \in {k \in 1 .. m : w[k].source = s}}
           A(m) == For(s, file - 1) \cup New(m)
           q(m) == triggers[s] \o found[m]
           Fine(m) ==
             /\ found[m] \in Seq(TriggerType)
             /\ q(m) \in Seq(TriggerType)
             /\ IsFiniteSet(A(m))
             /\ Listing(q(m), A(m))
           T == {m \in Nat : m <= Len(w) => Fine(m)}
<1>8. 0 \in T
  <2>1. found[0] = <<>>
    <3>1. 0 \in 0 .. Len(w)
      BY <1>2
    <3> QED
      BY <1>4, <3>1
  <2>2. q(0) = triggers[s] /\ found[0] \in Seq(TriggerType)
    <3>1. <<>> \in Seq(TriggerType) /\ triggers[s] \o <<>> = triggers[s]
      BY <1>3
    <3> QED
      BY <2>1, <3>1
  <2>3. A(0) = For(s, file - 1)
    OBVIOUS
  <2>4. Fine(0)
    <3> HIDE DEF q, A
    <3> QED
      BY <1>3, <2>2, <2>3
  <2> HIDE DEF Fine
  <2> QED
    BY <2>4
<1>9. ASSUME NEW n \in Nat, n \in T PROVE n + 1 \in T
  <2> HIDE DEF Fine
  <2>1. SUFFICES ASSUME n + 1 <= Len(w) PROVE Fine(n + 1)
    OBVIOUS
  <2>2. PICK m : m = n + 1
    OBVIOUS
  <2>3. m \in 1 .. Len(w) /\ m \in 0 .. Len(w) /\ m - 1 = n /\ m # 0 /\ m \in Nat
    BY <1>2, <2>1, <2>2
  <2>4. Fine(n)
    BY <1>2, <1>9, <2>1
  <2> USE DEF Fine
  <2>5. found[m] = IF w[m] \in of THEN Append(found[n], w[m]) ELSE found[n]
    BY <1>4, <2>3
  <2>6. CASE w[m].source = s
    <3> DEFINE x == <<file, m>>
    <3>1. found[m] = Append(found[n], w[m]) /\ TriggerAt(x) = w[m]
      BY <1>5, <1>6, <2>3, <2>5, <2>6
    <3>2. w[m] \in TriggerType
      BY <1>2, <2>3
    <3>3. q(m) = Append(q(n), w[m]) /\ found[m] \in Seq(TriggerType)
      <4>1. triggers[s] \o Append(found[n], w[m]) = Append(triggers[s] \o found[n], w[m])
        <5>1. triggers[s] \in Seq(TriggerType) /\ found[n] \in Seq(TriggerType)
          BY <1>3, <2>4
        <5>2. \A p, r \in Seq(TriggerType) : \A y \in TriggerType :
                p \o Append(r, y) = Append(p \o r, y)
          BY AppendedBehind
        <5> QED
          BY <3>2, <5>1, <5>2
      <4>2. Append(found[n], w[m]) \in Seq(TriggerType)
        BY <2>4, <3>2
      <4> QED
        BY <3>1, <4>1, <4>2
    <3>4. A(m) = A(n) \cup {x}
      <4>1. {k \in 1 .. m : w[k].source = s} = {k \in 1 .. n : w[k].source = s} \cup {m}
        BY <2>3, <2>6
      <4> QED
        BY <4>1
    <3>5. A(n) \subseteq Nat \X Nat /\ x \in Nat \X Nat
      <4>1. New(n) \subseteq Nat \X Nat
        BY <1>3
      <4> QED
        BY <1>3, <2>3, <4>1, Positions
    <3>6. ASSUME NEW b \in A(n) PROVE Before(b, x)
      <4>1. CASE b \in For(s, file - 1)
        <5>1. b[1] < file
          BY <4>1, Positions
        <5> QED
          BY <5>1 DEF Before
      <4>2. CASE b \in New(n)
        <5>1. PICK k \in 1 .. n : b = <<file, k>>
          BY <4>2
        <5>2. k < m
          BY <2>3, <5>1
        <5> QED
          BY <5>1, <5>2 DEF Before
      <4> QED
        BY <4>1, <4>2
    <3> HIDE DEF A, q, x
    <3>7. /\ Append(q(n), w[m]) \in Seq(TriggerType)
          /\ IsFiniteSet(A(n) \cup {x})
          /\ Listing(Append(q(n), w[m]), A(n) \cup {x})
      BY <2>4, <3>1, <3>2, <3>5, <3>6, ListingNext
    <3> QED
      BY <2>2, <3>3, <3>4, <3>7
  <2>7. CASE w[m].source # s
    <3>1. found[m] = found[n]
      BY <1>5, <2>3, <2>5, <2>7
    <3>2. A(m) = A(n)
      <4>1. {k \in 1 .. m : w[k].source = s} = {k \in 1 .. n : w[k].source = s}
        BY <2>3, <2>7
      <4> QED
        BY <4>1
    <3>3. q(m) = q(n)
      BY <3>1
    <3> HIDE DEF A, q
    <3> QED
      BY <2>2, <2>4, <3>1, <3>2, <3>3
  <2> QED
    BY <2>6, <2>7
<1>10. Fine(Len(w))
  <2> HIDE DEF Fine
  <2>1. \A n \in Nat : n \in T
    <3> HIDE DEF T
    <3> QED
      BY <1>8, <1>9, Induction
  <2> QED
    BY <1>2, <2>1
<1>11. A(Len(w)) = For(s, file) /\ q(Len(w)) = triggers'[s]
  BY <1>1, <1>4, <1>7
<1> HIDE DEF A, q
<1> QED
  BY <1>10, <1>11

(* One file: the functions it names are new, and declared where it has them. *)
LEMMA FunctionsLoaded ==
  ASSUME TypeOK, LoadedSoFar, Load
  PROVE  /\ \A a, b \in FunctionsAt(file) : NameAt(a) = NameAt(b) => a = b
         /\ \A a \in FunctionsAt(file) : functions'[NameAt(a)] = a
<1> DEFINE d == Doc[Text]
           Old == FunctionsAt(file - 1)
           New == {<<file, j>> : j \in Named(d)}
<1>1. Text \in Texts \ NoYaml /\ functions' = Declared(d) /\ NewFunctions(d)
  BY DEF Load, Readable, Acceptable
<1>2. file \in Nat \ {0} /\ DocOf(file) = d
  BY DEF LoadedSoFar, DocOf, Text
<1>3. FunctionsAt(file) = Old \cup New
  <2>1. 1 .. file = (1 .. file - 1) \cup {file}
    BY <1>2
  <2> HIDE DEF d
  <2> QED
    BY <1>2, <2>1 DEF FunctionsAt
<1>4. \A i \in Named(d) : i \in Nat /\ d.functions[i].name \in Functions
  BY <1>1, ReadDocument
<1>5. ASSUME NEW a \in Old
      PROVE  functions[NameAt(a)] = a /\ a # Undeclared /\ NameAt(a) \in Functions
  <2>1. functions[NameAt(a)] = a
    BY DEF LoadedSoFar, FunctionsRead
  <2>2. PICK i \in 1 .. file - 1 : \E j \in Named(DocOf(i)) : a = <<i, j>>
    BY DEF FunctionsAt
  <2>3. PICK j \in Named(DocOf(i)) : a = <<i, j>>
    BY <2>2
  <2>4. disk[files[i]] \in Texts \ NoYaml
    BY DEF LoadedSoFar
  <2>5. DocOf(i).functions[j].name \in Functions
    BY <2>4, ReadDocument DEF DocOf
  <2>6. NameAt(a) = DocOf(i).functions[j].name
    BY <2>3 DEF NameAt
  <2>7. a # Undeclared
    BY <1>2, <2>3 DEF Undeclared
  <2> QED
    BY <2>1, <2>5, <2>6, <2>7
<1>6. ASSUME NEW j \in Named(d)
      PROVE  /\ NameAt(<<file, j>>) = d.functions[j].name
             /\ functions[d.functions[j].name] = Undeclared
             /\ functions'[d.functions[j].name] = <<file, j>>
  <2>1. NameAt(<<file, j>>) = d.functions[j].name
    BY <1>2 DEF NameAt
  <2>2. /\ functions[d.functions[j].name] = Undeclared
        /\ \A i \in Named(d) : d.functions[i].name = d.functions[j].name => i = j
    BY <1>1 DEF NewFunctions
  <2>3. (CHOOSE i \in Named(d) : d.functions[i].name = d.functions[j].name) = j
    BY <2>2
  <2>4. d.functions[j].name \in Functions
    BY <1>4
  <2> HIDE DEF d
  <2> QED
    BY <1>1, <2>1, <2>2, <2>3, <2>4 DEF Declared
<1>7. ASSUME NEW a \in Old, NEW j \in Named(d)
      PROVE  NameAt(a) # d.functions[j].name
  BY <1>5, <1>6
<1>8. ASSUME NEW a \in Old
      PROVE  functions'[NameAt(a)] = a
  <2>1. ~ \E j \in Named(d) : d.functions[j].name = NameAt(a)
    BY <1>7
  <2> HIDE DEF d
  <2> QED
    BY <1>1, <1>5, <2>1 DEF Declared
<1>9. ASSUME NEW a \in Old \cup New, NEW b \in Old \cup New, NameAt(a) = NameAt(b)
      PROVE  a = b
  <2>1. CASE a \in Old /\ b \in Old
    BY <1>9, <2>1 DEF LoadedSoFar, FunctionsRead
  <2>2. CASE a \in New /\ b \in New
    BY <1>6, <1>9, <2>2
  <2>3. CASE a \in Old /\ b \in New
    BY <1>6, <1>7, <1>9, <2>3
  <2>4. CASE a \in New /\ b \in Old
    BY <1>6, <1>7, <1>9, <2>4
  <2> QED
    BY <2>1, <2>2, <2>3, <2>4
<1>10. \A a \in New : functions'[NameAt(a)] = a
  BY <1>6
<1> HIDE DEF Old, New
<1> QED
  BY <1>3, <1>8, <1>9, <1>10

-----------------------------------------------------------------------------
(* What was read stays read. *)

(* What is read of files that are there does not change with what else is.  *)
LEMMA LoadedDepends ==
  ASSUME LoadedSoFar, UNCHANGED <<disk, loadVars>>,
         pc' \notin {"load", "listen", "serving", "ended"} => file = 1,
         pc' \in {"listen", "serving"} => file = Len(files) + 1
  PROVE  LoadedSoFar'
<1>1. UNCHANGED <<disk, files, file, setting, triggers, functions>>
  BY DEF loadVars
<1>2. \A n, t : For(t, n)' = For(t, n) /\ FunctionsAt(n)' = FunctionsAt(n)
  BY <1>1 DEF For, FunctionsAt, DocOf
<1>3. \A a : TriggerAt(a)' = TriggerAt(a) /\ NameAt(a)' = NameAt(a)
  BY <1>1 DEF TriggerAt, NameAt, DocOf
<1>4. \A s \in Sources :
       /\ triggers'[s] \in Seq(TriggerType)
       /\ IsFiniteSet(For(s, file - 1)')
       /\ TriggersRead(s, file - 1)'
  BY <1>1, <1>2, <1>3 DEF LoadedSoFar, TriggersRead
<1>5. FunctionsRead(file - 1)'
  BY <1>1, <1>2, <1>3 DEF LoadedSoFar, FunctionsRead
<1>6. /\ \A i \in 1 .. file' - 1 : disk'[files'[i]] \in Texts \ NoYaml
      /\ \A i \in 1 .. file' - 1 : setting'[i] = DocOf(i)'.dryrun
      /\ files' \in Seq(Paths) /\ file' \in 1 .. Len(files') + 1
      /\ Len(setting') = file' - 1
  BY <1>1 DEF LoadedSoFar, DocOf
<1> QED
  BY <1>1, <1>4, <1>5, <1>6 DEF LoadedSoFar

(* Before the first file is read there is nothing to say.                   *)
LEMMA NothingRead ==
  /\ \A s : For(s, 0) = {}
  /\ FunctionsAt(0) = {}
BY DEF For, FunctionsAt

LEMMA LoadedFromStart ==
  ASSUME files \in Seq(Paths), file = 1, setting = <<>>,
         pc \notin {"listen", "serving"},
         \A s \in Sources : triggers[s] = <<>>
  PROVE  LoadedSoFar
<1>1. file - 1 = 0 /\ 1 .. file - 1 = {} /\ file \in 1 .. Len(files) + 1
  OBVIOUS
<1>2. \A s \in Sources : triggers[s] \in Seq(TriggerType) /\ Len(triggers[s]) = 0
  <2>1. <<>> \in Seq(TriggerType) /\ Len(<<>>) = 0
    OBVIOUS
  <2> QED
    BY <2>1
<1>3. \A s \in Sources : IsFiniteSet(For(s, file - 1)) /\ TriggersRead(s, file - 1)
  BY <1>1, <1>2, NothingRead, FS_EmptySet DEF TriggersRead
<1>4. FunctionsRead(file - 1)
  BY <1>1, NothingRead DEF FunctionsRead
<1>5. Len(setting) = file - 1
  BY <1>1
<1>6. /\ \A i \in 1 .. file - 1 : disk[files[i]] \in Texts \ NoYaml
      /\ \A i \in 1 .. file - 1 : setting[i] = DocOf(i).dryrun
  BY <1>1
<1>7. /\ pc \notin {"load", "listen", "serving", "ended"} => file = 1
      /\ pc \in {"listen", "serving"} => file = Len(files) + 1
  OBVIOUS
<1>8. \A s \in Sources :
       /\ triggers[s] \in Seq(TriggerType)
       /\ IsFiniteSet(For(s, file - 1))
       /\ TriggersRead(s, file - 1)
  BY <1>2, <1>3
<1> QED
  BY <1>1, <1>4, <1>5, <1>6, <1>7, <1>8, Zenon DEF LoadedSoFar

LEMMA FindKeepsLoaded ==
  ASSUME TypeOK, LoadedSoFar, Find
  PROVE  LoadedSoFar'
<1>1. /\ files' = Those(Yaml, {p \in Paths : disk[p] # Absent})
                    \o Those(Yml, {p \in Paths : disk[p] # Absent})
      /\ pc = "find" /\ pc' = "load"
      /\ UNCHANGED <<file, setting, triggers, functions>>
  BY DEF Find
<1>2. files' \in Seq(Paths)
  <2> DEFINE set == {p \in Paths : disk[p] # Absent}
  <2>1. Those(Yaml, set) \in Seq(Paths) /\ Those(Yml, set) \in Seq(Paths)
    <3> HIDE DEF set
    <3> QED
      BY DocumentTable, ThoseType
  <2>2. files' = Those(Yaml, set) \o Those(Yml, set)
    BY <1>1
  <2> HIDE DEF set
  <2> QED
    BY <2>1, <2>2
<1>3. file = 1 /\ file - 1 = 0 /\ file' = file /\ 1 .. file' - 1 = {}
  BY <1>1 DEF LoadedSoFar
<1>4. \A s : For(s, 0)' = {} /\ For(s, 0) = {}
  BY DEF For
<1>5. FunctionsAt(0)' = {}
  BY DEF FunctionsAt
<1>6. Len(setting') = file' - 1 /\ file' \in 1 .. Len(files') + 1
  <2>1. Len(files') \in Nat
    BY <1>2
  <2> QED
    BY <1>1, <1>3, <2>1 DEF LoadedSoFar
<1>7. \A s \in Sources :
       /\ triggers'[s] \in Seq(TriggerType)
       /\ IsFiniteSet(For(s, 0)') /\ TriggersRead(s, 0)'
  BY <1>1, <1>3, <1>4, FS_EmptySet DEF LoadedSoFar, TriggersRead
<1>8. FunctionsRead(0)'
  BY <1>5 DEF FunctionsRead
<1>9. file' - 1 = 0
  BY <1>3
<1> QED
  BY <1>1, <1>2, <1>3, <1>6, <1>7, <1>8, <1>9 DEF LoadedSoFar

LEMMA LoadKeepsLoaded ==
  ASSUME TypeOK, LoadedSoFar, Load
  PROVE  LoadedSoFar'
<1> DEFINE d == Doc[Text]
<1>1. /\ file \in DOMAIN files /\ file' = file + 1 /\ pc = "load" /\ pc' = pc
      /\ UNCHANGED <<disk, files>> /\ setting' = Append(setting, d.dryrun)
      /\ Text \in Texts \ NoYaml
  BY DEF Load, Readable, fileVars
<1>2. PICK n : n = file
  OBVIOUS
<1>3. /\ n \in Nat \ {0} /\ n <= Len(files) /\ Len(files) \in Nat
      /\ file' = n + 1 /\ file' - 1 = n /\ files \in Seq(Paths)
      /\ Len(setting) = n - 1 /\ setting \in Seq(Dry)
  BY <1>1, <1>2 DEF LoadedSoFar, TypeOK, LoadTypeOK
<1>4. \A m, t : For(t, m)' = For(t, m) /\ FunctionsAt(m)' = FunctionsAt(m)
  BY <1>1 DEF For, FunctionsAt, DocOf
<1>5. \A a : TriggerAt(a)' = TriggerAt(a) /\ NameAt(a)' = NameAt(a) /\ DocOf(a)' = DocOf(a)
  BY <1>1 DEF TriggerAt, NameAt, DocOf
<1>6. \A s \in Sources :
       /\ triggers'[s] \in Seq(TriggerType)
       /\ IsFiniteSet(For(s, n)') /\ TriggersRead(s, n)'
  BY <1>2, <1>4, <1>5, TriggersLoaded DEF TriggersRead, Listing
<1>7. FunctionsRead(n)'
  BY <1>2, <1>4, <1>5, FunctionsLoaded DEF FunctionsRead
<1>8. ASSUME NEW i \in 1 .. n
      PROVE  disk'[files'[i]] \in Texts \ NoYaml /\ setting'[i] = DocOf(i)'.dryrun
  <2>1. d.dryrun \in Dry
    BY <1>1, DocumentTable
  <2>2. /\ Append(setting, d.dryrun)[n] = d.dryrun
        /\ \A k \in 1 .. n - 1 : Append(setting, d.dryrun)[k] = setting[k]
    <3> HIDE DEF d
    <3> QED
      BY <1>3, <2>1
  <2>3. CASE i = n
    <3>1. disk[files[i]] = Text /\ DocOf(i) = d
      BY <1>2, <2>3 DEF Text, DocOf
    <3> QED
      BY <1>1, <1>5, <2>2, <2>3, <3>1
  <2>4. CASE i # n
    <3>1. i \in 1 .. n - 1
      BY <1>3, <2>4
    <3>2. disk[files[i]] \in Texts \ NoYaml /\ setting[i] = DocOf(i).dryrun
      BY <1>2, <3>1 DEF LoadedSoFar
    <3> QED
      BY <1>1, <1>5, <2>2, <3>1, <3>2
  <2> QED
    BY <2>3, <2>4
<1>9. Len(setting') = n /\ n + 1 \in 1 .. Len(files) + 1
  <2>1. d.dryrun \in Dry
    BY <1>1, DocumentTable
  <2> HIDE DEF d
  <2>2. Len(Append(setting, d.dryrun)) = Len(setting) + 1
    BY <1>3
  <2> QED
    BY <1>1, <1>3, <2>2
<1>10. files' \in Seq(Paths) /\ file' \in 1 .. Len(files') + 1 /\ pc' = "load"
  BY <1>1, <1>3, <1>9
<1> QED
  BY <1>3, <1>6, <1>7, <1>8, <1>9, <1>10 DEF LoadedSoFar

(* The other steps read nothing, and change the directory only before.      *)
LEMMA OthersKeepLoaded ==
  ASSUME TypeOK, LoadedSoFar, FilesStep \/ LoadedAll \/ ServiceStep \/ End \/ UNCHANGED vars
  PROVE  LoadedSoFar'
<1>0. file \in Nat /\ files \in Seq(Paths) /\ file \in 1 .. Len(files) + 1
  BY DEF LoadedSoFar
<1>1. CASE FilesStep
  <2>1. UNCHANGED loadVars
    BY <1>1 DEF FilesStep
  <2>2. CASE pc \in {"load", "listen", "serving", "ended"}
    <3>1. UNCHANGED <<pc, disk>>
      BY <1>1, <2>2 DEF FilesStep, FlagUrl, CRUrl, Download, Verify, Open, Unpack,
         UnpackedAll, Publish, Announce, fileVars
    <3> QED
      BY <2>1, <2>2, <3>1, LoadedDepends DEF LoadedSoFar
  <2>3. CASE pc \notin {"load", "listen", "serving", "ended"}
    <3>1. pc' \notin {"listen", "serving"}
      BY <1>1, <2>3 DEF FilesStep, FlagUrl, CRUrl, UseUrl, Download, Verify, Open, Unpack,
         UnpackedAll, Publish, Announce
    <3>2. file = 1 /\ file' = 1 /\ UNCHANGED <<files, setting, triggers, functions>>
      BY <2>1, <2>3 DEF LoadedSoFar, loadVars
    <3>3. 1 .. file' - 1 = {} /\ file' - 1 = 0 /\ file - 1 = 0
      BY <3>2
    <3>4. \A s : For(s, 0)' = {} /\ For(s, 0) = {}
      BY DEF For
    <3>5. FunctionsRead(0)'
      BY DEF FunctionsAt, FunctionsRead
    <3>6. \A s \in Sources :
           /\ triggers'[s] \in Seq(TriggerType)
           /\ IsFiniteSet(For(s, 0)') /\ TriggersRead(s, 0)'
      BY <3>2, <3>3, <3>4, FS_EmptySet DEF LoadedSoFar, TriggersRead
    <3>7. Len(setting') = file' - 1 /\ files' \in Seq(Paths) /\ file' \in 1 .. Len(files') + 1
      BY <1>0, <3>2, <3>3 DEF LoadedSoFar
    <3> QED
      BY <3>1, <3>2, <3>3, <3>5, <3>6, <3>7 DEF LoadedSoFar
  <2> QED
    BY <2>2, <2>3
<1>2. CASE LoadedAll
  <2>1. /\ pc = "load" /\ pc' = "listen" /\ UNCHANGED <<disk, loadVars>>
        /\ file \notin DOMAIN files
    BY <1>2 DEF LoadedAll, fileVars
  <2>2. file = Len(files) + 1
    BY <1>0, <2>1
  <2> QED
    BY <2>1, <2>2, LoadedDepends
<1>3. CASE ServiceStep
  <2>1. /\ UNCHANGED <<disk, loadVars>>
        /\ \/ pc' = pc
           \/ pc = "service" /\ pc' = "providers"
           \/ pc = "providers" /\ pc' = "find"
           \/ pc = "listen" /\ pc' = "serving"
    BY <1>3 DEF ServiceStep, ReadDefinitions, CreateProvider, CreatedAll, Listen, Serve, fileVars
  <2> QED
    BY <2>1, LoadedDepends DEF LoadedSoFar
<1>4. CASE End
  <2>1. UNCHANGED <<disk, loadVars>> /\ pc' = "ended"
    BY <1>4 DEF End, fileVars
  <2> QED
    BY <2>1, LoadedDepends
<1>5. CASE UNCHANGED vars
  <2>1. UNCHANGED <<pc, disk, loadVars>>
    BY <1>5 DEF vars, fileVars
  <2> QED
    BY <2>1, LoadedDepends DEF LoadedSoFar
<1> QED
  BY <1>1, <1>2, <1>3, <1>4, <1>5

LEMMA LoadedKept ==
  ASSUME IInv, [Next]_vars
  PROVE  LoadedSoFar'
<1>1. TypeOK /\ LoadedSoFar
  BY DEF IInv
<1> QED
  BY <1>1, FindKeepsLoaded, LoadKeepsLoaded, OthersKeepLoaded DEF Next, LoadStep

LEMMA InitLoaded == Init => LoadedSoFar
BY LoadedFromStart DEF Init, FilesInit, LoadInit

(* ReadTriggerDefinition, for all files: what is known is what they state,  *)
(* in their order, however many there are and whatever they contain.        *)
LEMMA LoadedAllIs == IInv => LoadsEverything
<1> SUFFICES ASSUME IInv, pc \in {"listen", "serving"}
             PROVE  /\ \A s \in Sources : TriggersRead(s, Len(files))
                    /\ FunctionsRead(Len(files))
                    /\ IsDryRun <=>
                         \E i \in DOMAIN files :
                           /\ DocOf(i).dryrun = "true"
                           /\ \A j \in 1 .. i - 1 : DocOf(j).dryrun = "unstated"
  BY DEF LoadsEverything
<1>1. LoadedSoFar /\ setting \in Seq(Dry)
  BY DEF IInv, TypeOK, LoadTypeOK
<1>2. files \in Seq(Paths) /\ file = Len(files) + 1 /\ Len(files) \in Nat
  BY <1>1 DEF LoadedSoFar
<1>3. file - 1 = Len(files) /\ DOMAIN files = 1 .. Len(files)
  BY <1>2
<1>4. (\A s \in Sources : TriggersRead(s, Len(files))) /\ FunctionsRead(Len(files))
  BY <1>1, <1>3 DEF LoadedSoFar
<1>5. DOMAIN setting = DOMAIN files /\ \A i \in 1 .. Len(files) : setting[i] = DocOf(i).dryrun
  BY <1>1, <1>3 DEF LoadedSoFar
<1>6. \A i \in DOMAIN files : \A j \in 1 .. i - 1 : j \in 1 .. Len(files)
  BY <1>2, <1>3
<1> QED
  BY <1>3, <1>4, <1>5, <1>6 DEF IsDryRun

-----------------------------------------------------------------------------
(* The inductive invariant. *)

LEMMA EndKeeps ==
  ASSUME IInv, End
  PROVE  Promised' /\ UnpackedSoFar' /\ Registered'
<1>1. /\ pc' = "ended"
      /\ UNCHANGED <<skip, chkSum, archive, entry, disk, listed, created, providers>>
  BY DEF End, options, fileVars, serviceVars
<1>2. Promised'
  BY <1>1 DEF IInv, Promised, FromArchive, Downloading
<1>3. UnpackedSoFar'
  BY <1>1 DEF IInv, UnpackedSoFar, Downloading
<1>4. Registered'
  BY <1>1 DEF IInv, Registered, Downloading, Serving
<1> QED
  BY <1>2, <1>3, <1>4

LEMMA NextInvariant == IInv /\ [Next]_vars => IInv'
<1> SUFFICES ASSUME IInv, [Next]_vars PROVE IInv'
  OBVIOUS
<1>0. LoadedSoFar'
  BY LoadedKept
<1>1. Promised /\ UnpackedSoFar /\ Registered
  BY DEF IInv
<1>2. CASE FilesStep
  <2>1. Promised' /\ UnpackedSoFar'
    <3>1. CASE Publish \/ Announce
      <4>1. UNCHANGED <<pc, skip, chkSum, archive, listed, entry, disk>>
        BY <3>1 DEF Publish, Announce, options, fileVars
      <4> QED
        BY <1>1, <4>1, PromisedDepends, UnpackedDepends
    <3>2. CASE ~(Publish \/ Announce)
      BY <1>2, <3>2, PromisedKept, UnpackedKept, UnpackKeeps DEF FilesStep
    <3> QED
      BY <3>1, <3>2
  <2> QED
    BY <1>0, <1>2, <2>1, FilesKeepRegistered, NextTypes DEF IInv
<1>3. CASE LoadStep \/ ServiceStep
  <2>1. /\ UNCHANGED <<skip, chkSum, archive, listed, entry, disk>>
        /\ pc \in {"service"} \cup Serving /\ pc' \in Serving
    BY <1>3 DEF LoadStep, Find, Load, LoadedAll, ServiceStep, ReadDefinitions,
       CreateProvider, CreatedAll, Listen, Serve, options, fileVars, Serving
  <2>2. Promised'
    BY <1>1, <2>1 DEF Promised, FromArchive, Downloading, Serving
  <2>3. UnpackedSoFar'
    BY <1>1, <2>1 DEF UnpackedSoFar, Downloading, Serving
  <2> QED
    BY <1>0, <1>3, <2>2, <2>3, LoadKeepsRegistered, ServiceKeepsRegistered, NextTypes DEF IInv
<1>4. CASE End
  BY <1>0, <1>4, EndKeeps, NextTypes DEF IInv
<1>5. CASE UNCHANGED vars
  <2>1. UNCHANGED <<pc, skip, chkSum, archive, listed, entry, disk, triggers, serviceVars>>
    BY <1>5 DEF vars, options, fileVars, loadVars
  <2> QED
    BY <1>0, <1>1, <2>1, PromisedDepends, UnpackedDepends, RegisteredDepends, NextTypes DEF IInv
<1> QED
  BY <1>2, <1>3, <1>4, <1>5 DEF Next

(* The inductive invariant of the start-up holds in every reachable state.  *)
THEOREM Invariance == Spec => []IInv
<1>1. Init => IInv
  BY InitTypes, InitPromised, InitLoaded DEF IInv
<1> QED
  BY <1>1, NextInvariant, PTL DEF Spec

(* DownloadTrigger: what is run after a verification is the archive the CRs *)
(* named next to the URL when they were read, however they and the archive  *)
(* change.                                                                  *)
THEOREM Promise == Spec => []RunsWhatWasPromised
<1>1. IInv => RunsWhatWasPromised
  <2> SUFFICES ASSUME IInv, FromArchive
               PROVE  \E i \in DOMAIN listed :
                        /\ listed[i].url = Remote /\ listed[i].sha = archive
                        /\ \A j \in 1 .. i - 1 : listed[j].url = ""
    BY DEF RunsWhatWasPromised
  <2>1. archive = chkSum /\ archive # NoSum
    BY DEF IInv, Promised, FromArchive
  <2> QED
    BY <2>1 DEF IInv, Promised
<1> QED
  BY <1>1, Invariance, PTL

(* DecompressGzipTar: the files the process goes on with are those of the   *)
(* archive, all and none else, each as its last entry unless an earlier one *)
(* of its name was longer.                                                  *)
THEOREM WholeArchive == Spec => []ReadsTheArchive
<1>1. IInv => ReadsTheArchive
  <2> SUFFICES ASSUME IInv, archive # NoSum, pc \notin Downloading \cup {"ended"},
                      NEW p \in Paths
               PROVE  UnpackedAt(disk[p], archive, Len(Entries[archive]), p)
    BY DEF ReadsTheArchive, Downloading
  <2>1. Entries[archive] \in Seq(EntryType)
    BY ArchiveTable DEF IInv, TypeOK, FilesTypeOK
  <2>2. entry - 1 = Len(Entries[archive])
    BY <2>1 DEF IInv, UnpackedSoFar
  <2> QED
    BY <2>2 DEF IInv, UnpackedSoFar
<1> QED
  BY <1>1, Invariance, PTL

(* ReadTriggerDefinition, for any number of files: the triggers of a source *)
(* are those the files state for it, in the order of the files and of the   *)
(* positions in them, no function was declared twice, and the first stated  *)
(* dryrun counts.                                                           *)
THEOREM Everything == Spec => []LoadsEverything
BY LoadedAllIs, Invariance, PTL

(* main: when the webhook is served, every source of a trigger is listened  *)
(* to on NATS.                                                              *)
THEOREM Heard == Spec => []EverySourceIsHeard
<1>1. IInv => EverySourceIsHeard
  <2> SUFFICES ASSUME IInv, pc = "serving"
               PROVE  EverySourceIsHeard
    BY DEF EverySourceIsHeard
  <2>1. /\ defs = disk[DefinitionFile] /\ defs \in Texts \ NoDefinitions
        /\ Listed \in Seq(ProviderType) /\ Doc[defs].destinations \in Seq(NodeType)
    BY DefinitionsRead DEF Serving
  <2>2. /\ created = Len(Listed) /\ Unheard = {}
        /\ \A n \in Providers : providers[n] # Unregistered =>
             /\ providers[n] \in 1 .. created
             /\ Listed[providers[n]].name = n
             /\ \A q \in providers[n] + 1 .. created : Listed[q].name # n
        /\ \A s \in listening : HeardOnNats(s)
    BY DEF IInv, Registered, Serving
  <2> DEFINE d == Doc[defs]
  <2>3. ASSUME NEW s \in Sources, triggers[s] # <<>>
        PROVE  /\ s \in listening
               /\ \E i \in DOMAIN d.destinations, p \in DOMAIN d.providers :
                    /\ Node(s, i)
                    /\ d.providers[p].name = d.destinations[i].provider
                    /\ d.providers[p].type = "nats"
                    /\ \A q \in p + 1 .. Len(d.providers) :
                         d.providers[q].name # d.providers[p].name
    <3>1. s \in listening
      BY <2>2, <2>3 DEF Unheard
    <3>2. PICK i \in DOMAIN d.destinations, p \in DOMAIN Listed :
            Resolved(s, i, p) /\ Listed[p].type = "nats"
      BY <2>2, <3>1 DEF HeardOnNats
    <3>3. d.destinations[i] \in NodeType
      BY <2>1
    <3>4. d.destinations[i].provider \in Providers
      BY <3>3 DEF NodeType
    <3>5. p = providers[d.destinations[i].provider] /\ Node(s, i) /\ p # Unregistered
      BY <2>1, <3>2 DEF Resolved, Unregistered
    <3>6. /\ Listed[p].name = d.destinations[i].provider
          /\ \A q \in p + 1 .. Len(Listed) : Listed[q].name # Listed[p].name
      BY <2>2, <3>4, <3>5
    <3> QED
      BY <3>1, <3>2, <3>5, <3>6 DEF Listed
  <2> QED
    BY <2>1, <2>3 DEF EverySourceIsHeard
<1> QED
  BY <1>1, Invariance, PTL
=============================================================================
