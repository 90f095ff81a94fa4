------------------------------ MODULE Startup ------------------------------
(***************************************************************************)
(* main: get the trigger files, create the message providers the file      *)
(* eventDefinitions.yaml names, read the triggers, start a listener for    *)
(* every event source, serve.  What goes wrong on the way ends the         *)
(* process; others may publish triggers meanwhile.                         *)
(***************************************************************************)
EXTENDS TriggerLoad, Integers

CONSTANTS
  DefinitionFile,   \* the path of eventDefinitions.yaml
  NoDefinitions,    \* texts that cannot be read as event definitions
  Providers,        \* names of message providers
  Destinations,     \* names of destinations: event sources are among them
  Timeouts,         \* timeouts of providers, as durations
  Second,           \* a second, as a duration
  Width             \* the bits of a duration

Types == {"nats", "rest", "other"}
ProviderType == [name : Providers, type : Types, timeout : Timeouts]
NodeType == [name : Destinations, provider : Providers]
Unregistered == 0

ASSUME DefinitionTable ==
  /\ DefinitionFile \in Paths
  /\ NoDefinitions \subseteq Texts
  /\ \A t \in Texts \ NoDefinitions :
       /\ Doc[t].providers \in Seq(ProviderType)
       /\ Doc[t].destinations \in Seq(NodeType)
  /\ Timeouts \subseteq Nat /\ Second \in Nat /\ Width \in Nat \ {0}

VARIABLES
  defs,       \* the text of the event definitions
  created,    \* how many providers have been created
  providers,  \* providers: the position of each in the definitions
  listening   \* sources that are subscribed to and have a listener

serviceVars == <<defs, created, providers, listening>>
vars == <<pc, options, outside, fileVars, loadVars, serviceVars>>

Init ==
  /\ FilesInit
  /\ LoadInit
  /\ defs = Absent
  /\ created = 0
  /\ providers = [p \in Providers |-> Unregistered]
  /\ listening = {}

Labels == {"url", "download", "verify", "open", "unpack", "service", "providers",
           "find", "load", "listen", "serving", "ended"}

(* The variables hold values of their types.                                *)
TypeOK ==
  /\ pc \in Labels
  /\ FilesTypeOK
  /\ LoadTypeOK
  /\ defs \in Texts \cup {Absent}
  /\ created \in Nat
  /\ providers \in [Providers -> Nat]
  /\ listening \subseteq Sources

-----------------------------------------------------------------------------
(* NewService. *)

Listed == Doc[defs].providers

(* main tolerates a missing file, and readEventDefinition fails on it.      *)
ReadDefinitions ==
  /\ pc = "service"
  /\ disk[DefinitionFile] \in Texts \ NoDefinitions
  /\ defs' = disk[DefinitionFile]
  /\ pc' = "providers"
  /\ UNCHANGED <<options, outside, fileVars, loadVars, created, providers, listening>>

\* variant: a name is registered only once
CreateProviderOnce ==
  /\ pc = "providers"
  /\ created < Len(Listed)
  /\ created' = created + 1
  /\ Listed[created'].type \in {"nats", "rest"}
  /\ providers' = [providers EXCEPT ![Listed[created'].name] =
                     IF @ = Unregistered THEN created' ELSE @]
  /\ UNCHANGED <<pc, options, outside, fileVars, loadVars, defs, listening>>

(* Register: a later provider takes the name of an earlier one.             *)
CreateProvider ==
  /\ pc = "providers"
  /\ created < Len(Listed)
  /\ created' = created + 1
  /\ Listed[created'].type \in {"nats", "rest"}
  /\ providers' = [providers EXCEPT ![Listed[created'].name] = created']
  /\ UNCHANGED <<pc, options, outside, fileVars, loadVars, defs, listening>>

CreatedAll ==
  /\ pc = "providers"
  /\ created = Len(Listed)
  /\ pc' = "find"
  /\ UNCHANGED <<options, outside, fileVars, loadVars, serviceVars>>

-----------------------------------------------------------------------------
(* StartListeners. *)

(* GetNode, GetProvider: the first destination of the name, the provider    *)
(* registered under the name it gives.                                      *)
Node(s, i) ==
  /\ i \in DOMAIN Doc[defs].destinations
  /\ Doc[defs].destinations[i].name = s
  /\ \A j \in 1 .. i - 1 : Doc[defs].destinations[j].name # s
Resolved(s, i, p) ==
  /\ Node(s, i)
  /\ p = providers[Doc[defs].destinations[i].provider]

HeardOnNats(s) ==
  \E i \in DOMAIN Doc[defs].destinations, p \in DOMAIN Listed :
    Resolved(s, i, p) /\ Listed[p].type = "nats"

Unheard == {s \in Sources : triggers[s] # <<>>} \ listening

\* variant: a source that cannot be resolved is passed over
ListenIfResolved ==
  /\ pc = "listen"
  /\ \E s \in Unheard : listening' = listening \cup {s}
  /\ UNCHANGED <<pc, options, outside, fileVars, loadVars, defs, created, providers>>

(* The sources are met in any order.  Subscribe of a REST provider is fatal.*)
Listen ==
  /\ pc = "listen"
  /\ \E s \in Unheard :
       /\ HeardOnNats(s)
       /\ listening' = listening \cup {s}
  /\ UNCHANGED <<pc, options, outside, fileVars, loadVars, defs, created, providers>>

Serve ==
  /\ pc = "listen"
  /\ Unheard = {}
  /\ pc' = "serving"
  /\ UNCHANGED <<options, outside, fileVars, loadVars, serviceVars>>

(* An error of any step above, of the listener, or a signal.  Besides what  *)
(* the steps refuse, files and connections may fail at any time.            *)
End ==
  /\ pc # "ended"
  /\ pc' = "ended"
  /\ UNCHANGED <<options, outside, fileVars, loadVars, serviceVars>>

FilesStep ==
  /\ \/ FlagUrl \/ CRUrl \/ Download \/ Verify \/ Open \/ Unpack \/ UnpackedAll
     \/ Publish \/ Announce
  /\ UNCHANGED <<loadVars, serviceVars>>
LoadStep == (Find \/ Load \/ LoadedAll) /\ UNCHANGED serviceVars
ServiceStep ==
  ReadDefinitions \/ CreateProvider \/ CreatedAll \/ Listen \/ Serve

Next == FilesStep \/ LoadStep \/ ServiceStep \/ End

Spec == Init /\ [][Next]_vars

-----------------------------------------------------------------------------
(* Properties. *)

(* An archive that is verified is, when it is used, the one whose checksum  *)
(* the CRs gave when they were read, next to the URL, and none other: never *)
(* one published or announced since, and never one from -triggerURL.        *)
FromArchive == ~skip /\ archive # NoSum /\ pc \notin {"download", "verify", "ended"}
RunsWhatWasPromised ==
  FromArchive =>
    \E i \in DOMAIN listed :
      /\ listed[i].url = Remote /\ listed[i].sha = archive
      /\ \A j \in 1 .. i - 1 : listed[j].url = ""

(* And the files the process reads are those of the archive, all and none   *)
(* else, each as the last entry of its name; but for a file that was longer *)
(* in an earlier entry, for it is written over and not truncated.           *)
ReadsTheArchive ==
  archive # NoSum /\ pc \notin {"download", "verify", "open", "unpack", "ended"} =>
    \A p \in Paths : UnpackedAt(disk[p], archive, Len(Entries[archive]), p)

(* Once every file is read: each source has the triggers the files state    *)
(* for it, all of them, in the order of the files and in the files; each    *)
(* named function is stated once and known; dryrun is as first stated.      *)
LoadsEverything ==
  pc \in {"listen", "serving"} =>
    /\ \A s \in Sources : TriggersRead(s, Len(files))
    /\ FunctionsRead(Len(files))
    /\ IsDryRun <=>
         \E i \in DOMAIN files :
           /\ DocOf(i).dryrun = "true"
           /\ \A j \in 1 .. i - 1 : DocOf(j).dryrun = "unstated"

(* When the webhook is served, every source of a trigger is listened to:    *)
(* there are event definitions, the first destination of its name refers to *)
(* a provider whose last definition is NATS.                                *)
EverySourceIsHeard ==
  pc = "serving" =>
    /\ disk[DefinitionFile] \in Texts \ NoDefinitions
    /\ \A s \in Sources : triggers[s] # <<>> =>
         /\ s \in listening
         /\ LET d == Doc[disk[DefinitionFile]]
            IN \E i \in DOMAIN d.destinations, p \in DOMAIN d.providers :
                 /\ Node(s, i)
                 /\ d.providers[p].name = d.destinations[i].provider
                 /\ d.providers[p].type = "nats"
                 /\ \A q \in p + 1 .. Len(d.providers) :
                      d.providers[q].name # d.providers[p].name

-----------------------------------------------------------------------------
(* What makes them inductive. *)

Downloading == {"download", "verify", "open", "unpack"}
Serving == {"providers", "find", "load", "listen", "serving"}

(* The checksum is that of the first URL the CRs gave; past Verify the      *)
(* archive has it.                                                          *)
Promised ==
  /\ pc = "url" => chkSum = NoSum
  /\ pc \in {"url", "download"} => archive = NoSum
  /\ pc \in {"verify", "open", "unpack"} => archive # NoSum
  /\ chkSum # NoSum =>
       \E i \in DOMAIN listed :
         /\ listed[i].sha = chkSum
         /\ pc \in Downloading \/ archive # NoSum => listed[i].url = Remote
         /\ \A j \in 1 .. i - 1 : listed[j].url = ""
  /\ FromArchive => archive = chkSum

(* The files there are those of the entries that were unpacked; a text      *)
(* covers a file when it covers everything that was written there.          *)
UnpackedSoFar ==
  /\ pc \in {"url", "download", "verify", "open"} => disk = EmptyDisk /\ entry = 1
  /\ archive = NoSum => entry = 1
  /\ archive # NoSum =>
       /\ entry \in 1 .. Len(Entries[archive]) + 1
       /\ pc \notin Downloading \cup {"ended"} => entry = Len(Entries[archive]) + 1
       /\ \A p \in Paths :
            /\ UnpackedAt(disk[p], archive, entry - 1, p)
            /\ Naming(archive, entry - 1, p) # {} =>
                 \A t \in Texts :
                   Over[disk[p]][t] = t <=> Covers(archive, entry - 1, p, t)

(* Every provider created so far is registered, or one after it of the same *)
(* name is; what is listened to resolves to NATS.                           *)
Registered ==
  /\ pc \in {"url", "service"} \cup Downloading => created = 0
  /\ created = 0 => \A n \in Providers : providers[n] = Unregistered
  /\ pc \notin {"listen", "serving", "ended"} => listening = {}
  /\ pc \in Serving =>
       /\ defs = disk[DefinitionFile] /\ defs \in Texts \ NoDefinitions
       /\ created \in 0 .. Len(Listed)
       /\ pc # "providers" => created = Len(Listed)
       /\ \A n \in Providers : providers[n] # Unregistered =>
            /\ providers[n] \in 1 .. created
            /\ Listed[providers[n]].name = n
            /\ \A q \in providers[n] + 1 .. created : Listed[q].name # n
       /\ \A s \in listening : HeardOnNats(s)
       /\ pc = "serving" => Unheard = {}

(* What was read is what the files before the next one state.               *)
LoadedSoFar ==
  /\ files \in Seq(Paths) /\ file \in 1 .. Len(files) + 1
  /\ pc \notin {"load", "listen", "serving", "ended"} => file = 1
  /\ pc \in {"listen", "serving"} => file = Len(files) + 1
  /\ \A i \in 1 .. file - 1 : disk[files[i]] \in Texts \ NoYaml
  /\ Len(setting) = file - 1
  /\ \A i \in 1 .. file - 1 : setting[i] = DocOf(i).dryrun
  /\ \A s \in Sources :
       /\ triggers[s] \in Seq(TriggerType)
       /\ IsFiniteSet(For(s, file - 1))
       /\ TriggersRead(s, file - 1)
  /\ FunctionsRead(file - 1)

IInv == TypeOK /\ Promised /\ UnpackedSoFar /\ Registered /\ LoadedSoFar

-----------------------------------------------------------------------------
(* How long the providers wait.  A duration is an integer of Width bits with *)
(* a sign; the client of net/http takes one that is not positive as none.    *)

Signed(n) ==
  LET m == n % 2^Width IN IF m >= 2^(Width - 1) THEN m - 2^Width ELSE m
Forever == 0
RestWait(timeout) ==
  IF Signed(timeout * Second) > 0 THEN Signed(timeout * Second) ELSE Forever

(* A REST provider waits for an answer as long as its timeout says.         *)
WaitsAsConfigured ==
  pc = "serving" =>
    \A p \in DOMAIN Listed :
      Listed[p].type = "rest" => RestWait(Listed[p].timeout) = Listed[p].timeout
=============================================================================
