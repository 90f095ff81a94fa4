# TLA+ specifications of kabanero-events

kabanero-events receives GitHub webhooks, publishes them on a message broker,
and runs user-written triggers on the messages it receives back.  This
directory models the program in TLA+, checks the models with TLC and proves
theorems about them with TLAPS.  Line numbers are those of files under `src/`.

1. [Inventory of the system](#1-inventory-of-the-system)
2. [Modules](#2-modules)
3. [Runs](#3-runs)
4. [Proofs](#4-proofs)
5. [Disagreements found](#5-disagreements-found)
6. [What is not modelled](#6-what-is-not-modelled)
7. [Plan](#7-plan)

## 1. Inventory of the system

The process has one goroutine for `main`, one per webhook request (net/http),
one per event source (`messageListener`), and those of the NATS library.

```
 GitHub --POST--> listenerHandler --Service.Send--> provider --> NATS server
                                                                     |
 Kubernetes <-- applyResources <-- triggers <-- messageListener <----+
                                      |   one per event source
                                      +-- sendEvent: Service.Send again
```

| Component (code) | State | Operations | What is hard | What makes it correct |
|---|---|---|---|---|
| Startup, `cmd/kabanero-events` | none of its own | get trigger files, read definitions, start listeners, serve | order of the steps; what is fatal and what is tolerated | nobody is served before every source is subscribed |
| Message service, `messages/service.go` | destinations, providers by name | `Send`, `GetNode`, `GetProvider`, `NewService` | names that resolve to nothing | a message goes to the topic of its destination or the caller learns it did not |
| NATS provider, `messages/nats_provider.go` | connection, map of subscriptions | `Subscribe`, `Send` (publish, then flush), `Receive` with a timeout | a map shared without a lock; a flush that fails after the message went out; timeouts and overflow reported as errors | per source: in order, at most once |
| REST provider, `messages/rest_provider.go` | none | `Send`; all else is fatal | timeouts | success only on status 200 |
| Webhook listener, `endpoints/listener.go` | none | one handler | concurrent requests | 202 only when the message is past the broker |
| Trigger processor, `trigger.go` 228-401 | definitions, read only after `Initialize` | `StartListeners`, `messageListener`, `ProcessMessage` | which errors end a statement, a message, a listener or the process | every acknowledged message is eventually handled |
| Trigger evaluation, `trigger.go` 412-917, 1108-1137, 1544-1680 | per call: variables; per body: CEL environment; maps by reference | assignment, if, switch, body, call | two records of the same variables; sharing of maps | what the CEL check accepts has a value of that type; a body reads what it assigned |
| Job ids, `trigger.go` 1367-1389 | `lastTime`, `mutex` | `GetTimestamp` | concurrency, a clock that is set, restarts | ids are unique and grow; calls end soon |
| Trigger archive, `webhook_util.go` 74-262, `kabanero_util.go` 56-115 | a new directory | download, verify, unpack | the archive and its checksum are published in two steps; entries that cannot be unpacked; error pages | the archive that was promised, all of it, or none |
| Trigger loading, `trigger.go` 193-257, 980-1091 | the definitions | find and read every file | order of files, a source or function in several of them, errors half way | all or nothing; triggers in file order |
| Applying resources, `trigger.go` 1172-1261, 1687-1772 | the cluster | substitute all, create each | failures half way, dry run | nothing is created unless every template substitutes |
| Built-in functions, `trigger.go` 1392-2125 | none | `filter`, `split`, `toLabel`, ... | effects inside expressions | pure, but for `jobID`, `sendEvent`, `applyResources`, `downloadYAML` |
| Names, `utils/kube_util.go` | none | `ToDomainName`, `ToLabel` | lengths, trailing characters, repeated dots | the result is a legal name |
| Secrets and downloads, `kabanero_util.go` 138-181, `github_util.go` | none | `GetGitHubSecret`, `DownloadYAML` | choice among several secrets in map order; a branch that moves | the preferred secret; the file of the commit of the message |

`PROJECT.json` lists the same components with their status, and the hazards,
each at its line with the properties that would catch it.

## 2. Modules

| Module | What it is |
|---|---|
| `EventDelivery` | abstract specification: per source, what was offered is taken in order, at most once, while the listener is on |
| `Broker` | external: the NATS library and server as the program uses them |
| `EventPipeline` | main, the webhook, `Service.Send` and the listeners; extends `Broker`, refines `EventDelivery` |
| `JobId` | `GetTimestamp` with two clocks and restarts |
| `TriggerEval` | evaluation of trigger bodies |
| `TriggerFiles` | where main gets the trigger files: the CRs, the archive, its checksum, the extraction; those who publish archives |
| `TriggerLoad` | `Processor.Initialize`: the files of the directory become the definitions; extends `TriggerFiles` |
| `Startup` | main from its flags to the webhook; extends `TriggerLoad` |
| `Names` | `ToDomainName`, `ToLabelName`, `ToLabel` as functions, and the rules they are to obey |
| `DownloadYaml` | one download, with the choice of a secret; those who push and edit secrets |
| `BuiltIns` | an expression of string functions or a download; extends `Names` and `DownloadYaml` |
| `ApplyResources` | concurrent calls of `applyResources` on a cluster that others use too |
| `MCEventPipeline`, `MCJobId`, `MCTriggerEval`, `MCApplyResources`, `MCStartup`, `MCBuiltIns` | values of the constants for TLC |
| `BrokerProofs`, `EventPipelineProofs`, `AcknowledgementProofs`, `JobIdProofs`, `TriggerEvalProofs`, `ApplyResourcesProofs`, `StartupProofs`, `BuiltInsProofs` | theorems and proofs |

Operators whose name is that of another one with a suffix (`ServeEarly`,
`RetryPublish`, `AcceptSameTick`, `StorableAgain`, ...) are faulty variants:
no specification uses them; substituting one for the operator it varies makes
the property that `PROJECT.json` names under "mutants" fail.

### EventPipeline and Broker

An action is what one goroutine does up to its next step another goroutine
can see.

| Code | Actions |
|---|---|
| `StartListeners` 286-304: `Subscribe`, map entry, `go messageListener`, in any order of the sources (Go map order) | `Subscribe`, `StartListener`, `StartFails` |
| the map entry written while a listener reads the map | `MapRace` |
| `NewListener(TLS)`; fatal errors and SIGINT | `Serve`, `Exit` |
| `listenerHandler`: malformed body; send; status | `BadRequest`, `Request`, `Answer` |
| `Service.Send`: no node, no provider, closed connection; REST; NATS publish, flush and its two outcomes | `SendFails`, `Post`, `Publish`, `Flush`, `FlushOk`, `FlushFails` |
| `Receive`: error at once; message; wait; timeout | `ReceiveFails`, `Receive`, `StartWaiting`, `WaitFails` |
| `messageListener`, `ProcessMessage` | `Unmarshal`, `BadMessage`, `TriggerDone`, `TriggerFails` |
| `sendEvent` inside a trigger | `SendEvent`, the actions of `Service.Send`, `EventSent` |

`StartFails` covers a REST provider too, whose `Subscribe` is fatal itself.  A
handler that returns without a status answers 200 (net/http); so do the failing
cases of `listenerHandler`.  A trigger body is abstracted here to: it may send
events, then it ends or fails.

`Broker` gives every NATS provider one connection that is FIFO both ways.
`PublishMsg` and `SubscribeSync` only put something on it.  `Flush` is a ping
whose answer comes back behind whatever the server wrote before.  The server
routes by topic to the subscriptions it knows on any connection.  A library
goroutine fills the bounded channel of a subscription, drops what does not
fit and marks it slow; `NextMsg` reports the mark once.  A connection that breaks
loses what it carried and fails waiting flushes, then either repeats its
subscriptions or is closed for good.  `Elsewhere` is any other program that
publishes on a topic.  This module is knowledge of nats.go and of the server,
which are not in the repository.

### JobId

One action per step of `GetTimestamp`: `Lock`, `Read`, `Sleep`, `WakeUp`,
`Accept`, `Return`.  Time is in units, `Tick` of them to a tenth of a second,
so that readings are finer than stamps.  `mono` is real time, which
`time.Sleep` follows; `wall` is what `time.Now` shows, and can be set: `.UTC()`
strips the monotonic reading, so the comparison at line 1381 is of wall clock
readings.  A stamp is the number of its tenth; its digits (1388) render that
one to one.  `Restart` forgets everything but the stamps already handed out.

### TriggerEval

The evaluator keeps the values of the variables in a Go map shared by all the
nested bodies of a trigger or function (`calls[c].vars`), and their
declarations in a CEL environment each body has for itself (`frames[i].env`).
Maps are references into `heap`; the message is the first map, and every
trigger of the source gets the same one.

| Code | Actions |
|---|---|
| `evalAssignment`, `setOneVariable`, `createOneVariable` | `Assign` |
| `evalIfWithSyntaxCheck` when taken, `evalBody`; a switch | `Open("body")`, `Open("switch")` |
| the end of a nested body: `env` at 424, 438, 453 is a new variable | `EndNested` |
| `evalSwitch`: a case that is taken, the default put aside, the end | `TakeCase`, `Default`, `EndSwitch` |
| `callCEL` up to and after the evaluation of the function's body | `CallFunction`, `Return` |
| any error: it ends the message | `Fail` |
| the loop of `ProcessMessage` | `NextTrigger`, `Done` |

The statements are not fixed beforehand: the next one is any the language has,
so the behaviours are those of all trigger bodies within the bounds.
Abstractions: a name has at most one component (`x` or `x.f`; deeper paths
repeat the same step of the loop at 740-765); an `if` with one assignment is
an `if` with a body of it; `call` occurs as the whole assigned expression;
maps made by literals and by built-in functions cannot be assigned into, as
`map[string]interface{}` is what line 757 asks for; the assignment to the empty
name, which does nothing, is left out; the effects of `sendEvent` and
`applyResources` are not in this module; every way a statement can be wrong is
`Fail`.  `own` and `hidden` are history variables.  That an environment refuses
a name declared twice, that an expression is checked before it is evaluated and
that maps are passed by reference is how cel-go and Go behave.

### ApplyResources

| Code | Actions |
|---|---|
| `applyResourcesCEL` up to the helper | `Call` |
| `MergePathWithErrorCheck`, `findFiles`, `substituteTemplateFile` for every file; under dry run the end of the call | `Substitute`, `SubstituteFails` |
| `createResource` for the next text: one request to the cluster | `Create`, `CreateFails` |
| the end of the loop | `Finish` |

Reading the directory is one action, as nothing writes it while the program
runs; each request to the cluster is an action of its own.  The tables `Glob`,
`Inside` and `Become` say which files a directory has (all that end in `yaml`,
then all that end in `yml`, each sorted), which directories are below that of
the triggers, and what a template becomes with given variables: a resource
(its group, version, plural, namespace and name), `Broken` when it cannot be
substituted, `Invalid` when `createResource` rejects the outcome before it asks
the cluster.  A null or ill-typed argument (1690-1703), which ends the call with
an error before anything happens, is left out.  Of a file with several documents
only the first counts (`k8syaml.ToJSON`), so a template is one resource.
`CreateFails` has the three ways a request ends badly: it had no effect, or it
had its effect and the answer was lost, or there was none to send.
`OthersCreate` and `OthersDelete` are everybody else who uses the cluster.  The
process keeps nothing about a call, so a restart is an end of this behaviour
and the beginning of another, which starts with any resources (`Init`).

### Startup, TriggerLoad and TriggerFiles

`pc` is where `main` is.  An action is what it does up to the next thing it
reads from outside: the CRs, the archive, an entry, a file, a provider.

| Code | Actions |
|---|---|
| `GetTriggerFiles` with `-triggerURL`; with `GetTriggerInfo` | `FlagUrl`; `CRUrl` |
| `downloadFileTo`; the comparison of checksums; `gzip.NewReader` | `Download`; `Verify`; `Open` |
| `DecompressGzipTar`, one entry; the end of the archive | `Unpack`; `UnpackedAll` |
| `readEventDefinition`; `NewService`, one provider; its end | `ReadDefinitions`; `CreateProvider`; `CreatedAll` |
| `findFiles`; `ReadTriggerDefinition` for one file; the end of `Initialize` | `Find`; `Load`; `LoadedAll` |
| `StartListeners`, one source, in any order (Go map order); the webhook | `Listen`; `Serve` |
| an error of any of these, of the listener, or SIGINT | `End` |
| others replace the archive; edit the CRs | `Publish`; `Announce` |

Every error on this way ends the process, so an action has only the guard of
its success, and `End` is always possible.  Abstractions: an archive and its
checksum are one value, and the URL is always the same (`Remote`); a URL
without a scheme counts as "file"; an entry that leaves the directory, is
neither file nor directory, or cannot be read is "bad", and so is the end of an
archive that is cut off; a text is a name, `Doc` says what it states and `Over`
what remains when it is written over a longer one (`os.OpenFile` without
`O_TRUNC`; of its outcome only `OverIsLength` is assumed).  In `Doc`, a list
that is no list stands as a list with an entry that is refused.  The archive file itself, stored in the directory it is
unpacked to, ends in `.gz` and is not found by `findFiles`; an archive with an
entry of that very name is left out.  What listeners do while others are still
being started is in `EventPipeline`; here a source is listened to or not.

### BuiltIns, Names and DownloadYaml

| Code | Actions |
|---|---|
| `toDomainNameCEL`, `toLabelCEL`, `substringCEL`, on what the one before returned | `DomainName`, `Label`, `Substring` |
| `downloadYAMLCEL` up to `DownloadYAML`: arguments that are refused | `Refuse` |
| `getRepositoryInfo` failing, or the request for the secrets; the list of secrets | `ListFails`; `ListSecrets` |
| `getGitHubSecretForRepo`: an annotation, the next secret, the end | `Scan`, `NextSecret`, `EndScan` |
| user and password of the secret | `UseSecret` |
| `GetContents` with status 200 or 404; another status, or none | `Get`; `GetFails` |
| others push to the branch; edit the secrets | `Push`; `EditSecrets` |

A string is a sequence of bytes, and a byte one of eight that the code tells
apart: "a" is any of a-z and 1-9 (the zero is apart because the code inserts
it), "#" any byte that belongs in no name.  Upper case letters outside ASCII,
some of which `strings.ToLower` turns into ASCII, are not among them.  A commit
stands for the content of the repository.  Annotations that do not match the
URL, which the loop passes over, are left out.  "panic" (a missing event
header, no answer at all, a negative index) is where the Go code panics: what
cel-go makes of it is not in the repository, so the expression stops there and
nothing is claimed.

## 3. Runs

| Run | Shows |
|---|---|
| `pipeline_safety` | `AckedIsAccountedFor`: what is answered 202 waits in the subscription of `github`, was received, was refused by the full subscription, or was on a connection that broke. `DeliversInOrder`: the pipeline implements `EventDelivery`. `OrderIInv`, `AckIInv`: the invariants behind them |
| `pipeline_liveness` | `AckedIsHandled`: it is then finished by the listener, or the listener or the process is gone for a reason the code gives |
| `pipeline_map_race` | violation, see 5 |
| `jobid` | ids grow in a process whatever the clock does; they are unique for ever, and calls sleep once, unless the clock is set back |
| `jobid_naps` | violation, see 5 |
| `trigger_eval` | declarations and values agree in every body under way; an assignment is hidden from its own body only through a nested body that assigned the name first |
| `apply_resources` | nothing is created before every template is substituted; what is created has no gap; the empty string means that this call created everything; no resource is created by two calls unless it was deleted |
| `trigger_eval_hidden`, `trigger_eval_message` | violations, see 5 |
| `startup` | `RunsWhatWasPromised`: an archive that is verified and used has the checksum that the CRs gave next to the URL. `ReadsTheArchive`: the files are exactly those of the archive, and each is as its last entry if and only if no earlier entry of its name was longer (what is longer is not truncated). `LoadsEverything`: each source has all its triggers in the order of the files, no function is declared twice, the first `dryrun` counts. `EverySourceIsHeard`: the webhook is served only when every source of a trigger is subscribed on the provider its names resolve to |
| `startup_timeout` | violation, see 5 |
| `builtins` | `DomainIsLegal`, `LabelIsLegal`: names are legal by the rules of the comments wherever they are cut, and by those of Kubernetes, too, unless a dash was next to a dot or to a byte that becomes one (see 5). `KeepsTheLegal`: legal ones do not change. `SecretIsPreferred`, `ContentOfTheCommit`: a download uses the preferred secret and returns the file of the commit of the message |

Bounds, and why they are enough to meet the interesting cases:

- pipeline: one webhook request, two sources that share topic and connection
  (so one message reaches both, and main still subscribes one while the other
  listens), a REST destination, an undefined name; two messages (one of the
  webhook and one of a trigger or another program) in channels of one, so that
  a channel overflows; one break of the connection; one source with two
  triggers.  The liveness run has one source, three messages and a timeout that
  never expires (`TimesOut = FALSE`, the documented `8760h`): with a timeout
  that expires the listener may be gone whenever no message came in time.
- job ids: two goroutines, three calls, one restart, one setting of the clock
  forward by less or back by more than a tenth, half tenths as units, 3.5
  tenths of time.  Repeated sleeping, a stamp just before a restart and one
  just after, and waiting behind the mutex all happen.
- evaluation: two variables, one component, three maps of which the message is
  two (an object in an object), two triggers, four frames, one function call
  deep, five statements.  The violations need three and two.
- resources: two listeners, three calls (so one listener calls twice), two
  directories that share resources in opposite orders, one outside, one empty;
  a template that breaks with some variables and one that becomes no resource
  with some; any of three resources left over, and others who create and
  delete at any time.

- start-up: every local directory made of three trigger files (absent, right,
  odd, refused, no YAML, a directory of that name) and seven states of the event
  definitions; and six archives (one right, a newer one, two that name a file
  twice, the longer one first or last, one with a file before its directory,
  one cut short) with an error page,
  two changes of archive or CRs at any time, nine states of the CRs.  The event
  definitions have providers and destinations of one name in both orders.  The
  timeout run has a duration of 16 bits with a second of 100, so that ten
  seconds times a second wrap round as they do with 64 bits and 10^9.
- built-ins: all strings of up to six bytes of seven kinds, and what the
  functions make of them and of their prefixes, with names of at most five and
  labels of at most four bytes: each string is below, at and above the limits;
  lists of up to four secrets with two annotations of either kind, six commits
  with each state of the file, two changes by others.

Deadlock is checked in `apply_resources`, where others always act.  It is not in
the other runs: the process ends on a fatal error or a signal (also
in `startup`), the bounds end the job ids, the evaluation of a message ends,
and so does an expression (`builtins`).

Fairness (`FairSpec` of `EventPipeline`): weak fairness of `main`, of every
listener, of every request, of the server and of the library goroutine of each
connection.  The Go scheduler runs every goroutine that can run; a pending
`Flush` has a limit of its own; a listener's fairness says its triggers end,
which the language gives but for recursive functions and events sent to
oneself (the messages are bounded).  Nothing is assumed of requests arriving,
connections breaking or recovering, or signals.

## 4. Proofs

All theorems hold for every value of the constants under the named
assumptions of the modules (`NodeTable`, `Bounds`, `SourceTable`;
`TickAssumption`, `NoneAssumption`, `ShiftsAssumption`, `BoundsAssumption`;
`Vocabulary`, `MessageIsThere`; `DirectoryTable`; `ArchiveTable`,
`DocumentTable`, `DefinitionTable`; `Lengths`, `RepositoryTable`,
`InputStrings`), which TLC evaluates for the instances it runs.

- `EventPipelineProofs`.  `TypeCorrect`: `Spec => []TypeOK`.  The type invariant
  also says that a call under way has a message, that one which has published
  has a connection, and that listeners exist only for NATS nodes; without these
  the types are not inductive.  `BrokerProofs` has one lemma per broker action.
  `Ordered`: `OrderIInv` is inductive.  What a listener took, what waits in the
  channel behind its subscription and what a connection brings back are three
  stretches of `offered`, each in the order of `offered`, one behind the other and
  nothing twice (`TakenInOrder`, `WaitsInOrder`, `ComesInOrder`); in particular a
  listener takes messages in the order of their publication, each at most once.
  When the server routes a message it must be
  new to `offered`, and this is what `PublishedOnce` and `OwnMessages` give: a
  message that is on its way to the server, or about to be, is there once, is no
  other caller's and was offered to nobody.  A break of a connection only removes
  from these stretches.
  `Implements`: `Spec => DeliversInOrder`.  `Route` is the `Offer` of
  `EventDelivery`, `Receive` its `Take` (the order says that the message is one
  behind all that were taken before), `StartListener` and the ends of listeners
  and process its changes of status; every other step changes nothing of it.
- `AcknowledgementProofs`: `AckIInv` is inductive, on top of `OrderIInv`.  An answer
  202 needs three things.  The subscription of `github` is known to the server
  before the first request reaches it (`SubscribedFirst`: `main` serves when all
  are subscribed, a subscription travels on the same connection, ahead; `active`
  or on its way).  The answer to a ping comes behind what the server
  wrote before it (`FlushBehind`), and a request flushes behind its message
  (`MessageFirst`).  No answer to a ping is there that was not asked for
  (`FlushesAwaited`).  Then `flush[m] = "ok"` means that `m` was put into the channel,
  or refused, or lost with the connection.
- `JobIdProofs`: `IInv` is inductive.  Who is inside holds the mutex (`Held`);
  an accepted reading is `lastTime` and its stamp is new (`Accepted`); nothing
  this process returned is past `lastTime` (`Past`), which with the test at
  line 1381 gives growth.  Two readings at least `Tick` apart have different
  stamps (a lemma on division).  The parts guarded by `~setBack` say the same
  across processes: `lastTime` is then never past `wall`, so that a restart,
  which reads the clock, cannot go below a stamp handed out; and a call that has
  slept is a tenth past `lastTime` (`Rested`), so it sleeps once.
- `TriggerEvalProofs`: `IInv` is inductive.  `DeclaredHasItsKind` alone is not:
  an assignment in a nested body changes variables that the bodies around it
  share.  `EnvsGrow` says a nested environment declares all that the outer ones
  do, so a name that may be declared there is declared nowhere outside;
  `CallsNest` keeps the frames of different calls apart.  `HiddenOnlyByNesting`
  needs `SetIsDeclared` (what has a value is declared in the innermost body or
  hidden) and `GrownByOwn` (what a nested body adds is its own, and becomes
  hidden when it ends).
- `ApplyResourcesProofs`: `IInv` is inductive.  `Created` is what the properties
  need besides each other: before the loop a call has created nothing; in it, it
  has created as many as `next` says, of texts that are those of its directory,
  none broken; and what was ever created exists or was deleted.  The last gives
  `OneCreator`, because the cluster adds only what it does not have.  The proof
  goes caller by caller: `Untouched` says that what others do leaves the
  conjuncts of a call as they are.

- `StartupProofs`: `IInv` is inductive.  `Promised` follows the checksum from
  the CRs: it is that of the first specification with a URL among those that
  were read, which is remote once something is downloaded, and past `Verify`
  the archive equals it; with `-triggerURL` there is none, so nothing passes.
  `UnpackedSoFar` says the directory holds the files of the entries before
  `entry`, and main goes on only behind the last one; that a file is as its last
  entry is not inductive, because the next may be longer than it and shorter
  than one before, so it also says which texts would cover the file: those that
  cover all that was written there.  `Registered` says each
  name refers to the last provider created under it, and whatever is listened to
  resolves to NATS; together with the guard of `Serve` this is
  `EverySourceIsHeard`.  `LoadedSoFar` is `LoadsEverything` for the files before
  the next one: the triggers of a source are as many as its positions in these
  files, and each stands where as many positions are before it.  The step is a
  second induction, over the positions within a file, because what `Those`
  selects is a recursive function.
- `BuiltInsProofs`: `DownloadIInv` is inductive.  `Scanned` is the invariant of
  the double loop: before the secret it is at, and among the annotations of it
  that were seen, none is preferred, and `secret` is the last that had any.
  The names are lemmas about functions of strings of any length.
  `LabelNameIsLegal`: `Converted` gives valid bytes with a good first one, and
  `Ended` preserves that and mends the end, by cases on the length.
  `DomainNameIsLegal` adds the dots: one pass of `ReplaceDots` over a string in
  which two dots follow each other makes it shorter and leaves its first byte,
  so `SingleDots`, which repeats it, ends, and ends without two dots in a row (the
  loop does not look at the beginning, where `Converted` left no dot); `Ended` then
  puts none there.  `DomainPartsAreLegal` follows the dashes on the same way: when
  none is next to a dot, or to a byte that becomes one, none of the four steps
  brings one there (`Apart`), and what is then next to a dot is a letter or digit.
  `LabelOfNameIsLegal` puts the two together at the first slash.  `LegalNames`,
  `LegalLabels` and `LegalIsKept` carry this to every call in an
  expression, by an invariant that says `value` is
  what the last function made of `input`.

What a recursive function computes is proved by induction in the form of a
statement about a set of numbers (`Induction`): a set that has 0, and n + 1 with
every n, has all.  It follows from the well-foundedness of `<` on the naturals.
That a recursively defined function exists is proved first, by building it up
to the length at hand (`ThoseIs` and its like).

Only model-checked: `AckedIsHandled`, since liveness under fairness and ENABLED are
out of the prover's reach, and the violations of section 5.  Every invariant of a
passing run, and the refinement, is a theorem.  No module declares a RECURSIVE
operator.

## 5. Disagreements found

| Run | Code | Says |
|---|---|---|
| `pipeline_map_race` | `nats_provider.go:53` writes the subscription map while a started listener reads it (75): the Go runtime may throw | "StartListeners starts all event source listeners" (`trigger.go:285`) |
| `jobid_naps` | after the clock is set back the loop at `trigger.go:1381` sleeps again and again, holding the mutex | "may sleep up to 0.1 second per request" (`trigger.go:1374`) |
| `trigger_eval_hidden` | `trigger.go:424`, `438`, `453` drop the environment of a nested body, 740-749 declare a name only when it has no value: `if: c, x.a: 1` followed by `x.b: 2` leaves `x` unusable | an assignment to `build.pr...` creates a variable `build` (`README.md:428`) |
| `trigger_eval_message` | `trigger.go:693` gives every trigger the same map, assignments to components change it in place | "the input JSON message is stored in the variable ... before being processed" (`README.md:375`) |
| `startup_timeout` | `rest_provider.go:77` multiplies the timeout, a `time.Duration` already (`messages.go:53`), by a second: ten seconds wrap round in 64 bits to a negative duration, which `http.Client` takes as no limit | "`timeout` is the amount of time (e.g. `1h` or `10s`) the provider will spend waiting for a message before timing out" (`README.md:185`) |

Noticed while modelling, without a run: `ToLabel` "converts a string in to
Kubernetes label format" (`README.md:607`, and the comment at `kube_util.go:221`),
but its prefix is only what the comment of `ToDomainName` promises (98-103), which
lets a dash stand next to a dot: `toLabel('a.-b/c')` is `a.-b/c`, and Kubernetes
refuses it, because each part of a prefix between dots must begin and end with a
letter or digit.  `toDomainName`, "domain name format" (`README.md:599`), has the
same gap.  `LabelIsLegal` and `DomainIsLegal` say when the results are right by
the rules of Kubernetes: whenever no dash is next to a dot or to a byte that
becomes one.  In the other cases they claim the rules of the comment alone.
`ToLabel` assigns "nolabel" to a variable
that is not used again (`kube_util.go:242`) and returns the empty string, and
when nothing follows the slash it returns the prefix alone, which may be longer
than a label (`LabelIsLegal` excludes both); with `-triggerURL` of a remote
archive and without `-skipChecksumVerify` there is no checksum to compare with,
and the process always ends; `kabanero-events.go:122` says that a missing
`eventDefinitions.yaml` is tolerated for now, and `NewService` then fails
(`EverySourceIsHeard` says that it is there); `github_util.go:219` takes status
400 for a file that does not exist; `messages.go:36` gives the timeout of
`Receive` in seconds, and it is a duration.

## 6. What is not modelled

Logging, the parsing of flags, YAML, JSON and CEL, the Kubernetes and GitHub
clients, TLS, headers of REST messages.  `filter`, `split` and `kabaneroConfig`:
functions of their arguments, without state; the namespace `kabaneroConfig`
returns is cached by `main` before any listener runs.  `kindToPlural` is part of
the table of `ApplyResources`.  The debug utilities only log; `ReadFile`,
`ReadJSON`, `ReadHTTPURL` keep no state.  Code without a caller:
`ListenAndServe` of the providers, `GetEventDefinition`, `setJobID`,
`matchPrefix`, `shallowCopy`, and what is commented out.

## 7. Plan

Done: `EventDelivery`, `Broker`, `EventPipeline`, `JobId`, `TriggerEval`,
`ApplyResources`, because event delivery is what the process exists for, job ids
are its one piece of locked state, the evaluator is its largest part, and
applying resources is its main effect on the cluster; then `Startup` with
`TriggerFiles` and `TriggerLoad`, which decide what all of these run on, and
`BuiltIns` with `Names` and `DownloadYaml`.

Next, in this order:

1. `TriggerEval`: `filter`, whose condition is evaluated per element in an
   environment of its own, and the effects of `sendEvent` and `applyResources`
   between two statements.
2. The list of files: that `Find` meets every file of the directory with one of the
   suffixes, which `LoadsEverything` takes from `files`.
