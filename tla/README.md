# Red Queen: specification and proofs

Red Queen receives recordings from security cameras over FTP, has them analysed, stores
what is worth keeping and alerts people. This directory holds its TLA+ specification:
modules that model the code under `src/`, the TLC configurations that check them on small
instances, and TLAPS proofs of what must hold for any number of uploads, notifiers and
permits. Source references are to files of the repository; `PROJECT.json` maps every
definition to the lines it models and lists the hazards the properties are about.

## 1. Inventory

```
camera --FTP--> ObservedFs --go Process--> Coordinator --+--> Analyzer (prefilter -> analysis)
                 (registry per camera)     (one goroutine |--> storage.Save (all providers)
                                            per upload)   +--> notifiers (one goroutine each)
main: New -> App.Start (go ftp.Start, go api.Start) -> signal -> App.Stop -> exit
App.Stop: cancel ctx -> ftp.Stop -> coordinator.Wait -> api.Stop
```

| component | state it keeps | operations | talks to |
|---|---|---|---|
| Coordinator (`internal/coordinator`) | semaphore channel, WaitGroup; per call: context with deadline, result, artifact URL | `NewCoordinator`, `Process`, `analyzeWithRetry`, `Wait` | called by FTP (`go Process`), calls analyzer, storage, notifiers; removes the upload |
| FTP ingestion (`internal/ftp`) | one `VirtualRegistry` (name -> physical file) per camera address; the temp dir | `AuthUser`, `OpenFile`, `Close`, `Remove`, `Rename`, `Stat`, directory calls | ftpserverlib calls it from one goroutine per session; starts `Process` |
| Artifact storage (`internal/storage`) | files under each provider's root | `MultiProvider.Save`, `LocalStorage.Save`, `copyFile` | called by the coordinator; read by the API's file server |
| Detection (`internal/ml`) | none besides the event's labels | `ChainedAnalyzer`, `GeminiAnalyzer`, `PassThroughAnalyzer`, mock `.Analyze` | called by the retry loop; reads the upload; calls the Gemini API |
| Notifiers (`internal/notify`) | none | `Send`, `Condition` of Telegram, webhook, Homey | called by the coordinator; HTTP |
| Application (`internal/app`, `cmd`) | the root context, the servers | `New`, `Start`, `Stop`, `main` | owns everything |
| REST API (`pkg/api`) | none | health, metrics, artifacts | serves the first local provider's root |
| Zones, config, logger, metrics, models | immutable after start-up | look-ups | |

What is hard about it, component by component, and what makes it correct:

- **Coordinator.** Every upload is a goroutine; the semaphore, the WaitGroup, the deadline,
  the shutdown and the deferred calls interact on six ways out of `Process`. `select` is
  free to take a permit under a cancelled context, the backoff timer races the deadline,
  and the deferred removal must come after the last reader. Correct if permits and counter
  are balanced on every path, the file stays while it is needed and goes afterwards, an
  alert is sent exactly to those entitled to it, at most one analysis starts too late,
  everything ends, and `Wait` means what it says.
- **FTP ingestion.** Each critical section is locked, the sequences of them and the file
  operations in between are not, and a camera that reconnects has two sessions on one
  registry. Correct if cameras cannot reach each other's files, no two names share a file,
  no file is forgotten, what is handed over is complete and is the coordinator's alone,
  and the registry does not grow for ever.
- **Storage.** Several copies of one file run concurrently, each may fail or be cancelled
  at any chunk. Correct if no partial artifact stays, a URL means a whole artifact, and
  failing providers do not disturb successful ones.
- **Detection.** Two fallible stages inside a retry loop, over a file that is not locked.
  Correct if it fails secure, never mistakes a failure for an answer, respects the size
  limit and ends with its deadline.
- **Notifiers.** Telegram falls back to a text message after *any* error, and builds
  Markdown that its server may refuse.
- **Application.** Start-up and shutdown race (`Server.Start` assigns `s.server` in a
  goroutine that `Stop` does not wait for), connections outlive the listener, and transfers their
  connections, a server that fails ends the process, `Wait` is called while calls may still come, and nothing picks up files a
  dead process left. Correct if a signal ends the process, what it loses is only what `Wait`
  could not know of, the API stays for as long as alerts may link to it, and a stop at a quiet
  moment loses nothing.
- **FTP and coordinator together.** Both create, read and remove files of one temp dir, each
  relying on what the other does to them. Correct if every file handed over is there, whole,
  quiet and handed over once, and stays until its own call removes it.

## 2. Modules

| module | models | how state and actions correspond |
|---|---|---|
| `EventLifecycle` | nothing of the machinery: the promise about uploads | `phase`, `decision`, `alerted` of each upload; at most `Slots` active |
| `Coordinator` | `internal/coordinator`, with `App.Stop`'s cancel and wait | `pc[e]` is where the goroutine of call `e` stands; `sem` is `len(c.sem)`, `wg` the WaitGroup, `expired`/`cancelled` the two sources of `processCtx.Done()`; `notif[e][n]` the goroutine of a notifier; `disk` the temp dir |
| `CoordinatorProofs` | the theorems about it | |
| `ObservedFs` | `VirtualRegistry`, `ObservedFs`, `ObservedFile` | `registry[c]` is the map of camera `c`; `op[s]` what a session is in the middle of, one action per critical section or file operation |
| `ObservedFsProofs` | the theorems about it | |
| `Ingestion` | `ObservedFs` and `Coordinator` at work on one temp dir | both modules' actions as they are, but for a session that takes up a file another one is at work on; a hand-over is the two actions `ObservedFs!HandOver` and `Coordinator!Upload` in one step; `callsBar`, `leftBar`, `handedDisk` are the refinement mappings to either side |
| `IngestionProofs` | the theorems about it | |
| `Application` | `main`, `App.Start`, `App.Stop`, the servers' goroutines, sessions, around `Coordinator` | `main` is where `main` (and `Stop` in it) stands or how the process ended; `ftp`, `api` the servers' goroutines (`spawned`, server object `made`, `listening`, `closed`); `conns` the connections the listener has accepted, `transfers` the uploads taken up on one and not closed yet |
| `ApplicationProofs` | the theorems about it | |
| `ArtifactStore` | `MultiProvider.Save` over `LocalStorage.Save` | `at[i]`, `dst[i]`: where the copy of provider `i` stands and how much it has written |
| `ArtifactStoreProofs` | the theorems about it | |
| `Detection` | `ChainedAnalyzer` of Gemini or passthrough stages in `analyzeWithRetry` | `stage`, `step`: the stage and the file or network operation it is at; `size`, `data` the file and what is in memory |
| `DetectionProofs` | the theorems about it | |
| `Delivery` | one `Send` of Telegram, webhook or Homey | `at`, `cur`: where `Send` stands and with which request; `wire` the requests that have left, `reply` what has come back; `shown` is what people have seen |
| `DeliveryProofs` | the theorems about it | |
| `TelegramText` | `formatMessage`, `escapeMarkdown`, `truncate`, and the server's reading of MarkdownV2 | functions over the prefixes of a text, whose characters are told apart by their roles |
| `TelegramTextProofs` | the theorems about it | |
| `MC*` | instances for TLC | |

A call of another component is modelled by what it may return: in `Coordinator` the
analyzer succeeds (threat or clear), fails hard or fails softly, `Save` and `Send` succeed
or fail. `Detection`, `ArtifactStore` and `Delivery` model the insides of those calls, and each is shown to be
what `Coordinator` takes it to be: `AnalysisImplements` (`Detection`), `SaveImplements` (`ArtifactStoreProofs`) and
`SendImplements` (`DeliveryProofs`) instantiate `Coordinator` with a single call whose state is read off the component's
(`Call`), and ask that the component take no step but that call's.
`ObservedFs` models the coordinator by `calls[p]`, the calls under way on a file, and what
they do to the file at their end; `Coordinator` models the sessions by `Upload`, a complete
file under a path of the call's own. `Ingestion` runs the two together and shows that each is
right about the other: it refines `ObservedFs` (`ObservedFsSpec`) and `Coordinator`
(`CoordinatorSpec`). `Application` EXTENDS `Coordinator`: `Cancel` and `WaitReturn` become steps
of `Stop`, `Upload` needs a transfer, and the last `Done` releases a `Wait` that is blocked. A transfer begins on any connection that is
up, also after `Stop` has closed the listener, since `AuthUser` asks for no listener; and it goes on, and hands its file over, when its
connection has ended, since `ClientDisconnected` knows nothing of transfers.
`WaitGroup.Wait` is two steps because the runtime makes it so: it sleeps until the counter has
reached 0, and panics if it finds another value when it wakes. A server's goroutine makes
its object in one step and listens in another: a `Stop` before the first finds nil, one between
the two finds nothing to close, and the FTP server listens all the same.

Order of a goroutine in `Coordinator`: `new` (upload not closed) -> `spawned` (the `go`
statement has run, no line of `Process` has) -> `waiting` (registered, in `select`) ->
`analyzing` / `backoff` -> `storing` -> `notifying` -> `cleanup` -> `releasing` -> `exiting`
-> `done`; the last three are the deferred calls, last to first. `spawned` is a state of its
own because `wg.Add(1)` is a line of `Process` and not of its caller.

Some definitions are preceded by *mutants*: the same definition with a plausible mistake
in it. `PROJECT.json` pairs each property with a mutant that breaks it, as evidence that the
property says something about the code. `Next` does not use them.

## 3. What TLC checks

| run | instance | shows |
|---|---|---|
| `coordinator_pipeline` | 2 calls, 1 permit, an `always` and an `on_threat` notifier | types, the balance of permits and counter, file availability, alerts, outcomes, no leftovers, late analyses, refinement of `EventLifecycle` |
| `application` | 2 calls, one connection, `concurrency: 0`, `retain_files`, no notifiers | what an exit, a clean stop and a stopped API may lose; retained files stay; uploads settle and a signal ends the process |
| `ingestion` | one camera with two sessions, two names, two physical names, 1 permit, no file contested | `HandOverReady`, `FilesStay`, the promises of `ObservedFs` with real calls, refinement of `ObservedFs` and of `Coordinator` |
| `wait_covers_handovers` | 2 calls, 2 permits | *violated*, see below |
| `ftp_shared` | one camera with two sessions beside another with one, two names, two physical names | `CamerasIsolated`, `MappingInjective`, `NoOrphan`, `OwnedOnce` under every interleaving |
| `ftp_shared_upload` | one camera, two sessions | `HandedOverQuiet` *violated* |
| `ftp_stat_race` | one camera, two sessions | `PruneOnlyStale` *violated* |
| `store_save` | 3 providers, 2 chunks | no partial artifact, the URL, lasting successes, `Save` ends |
| `store_url_served` | 2 providers | `URLIsServed` *violated* |
| `detection_chain` | every configuration of stages, file shared or not | fail-secure, answers, context, memory, refinement of `Coordinator`'s analysis, termination |
| `delivery` | each notifier, every field of at most 3 of 4 kinds of characters | success means shown, shown twice only after a lost reply, escaping is faithful, the fallback rescues an over-long caption, `Send` ends |
| `delivery_threat` | same | `ThreatIsShown` *violated* |

**Bounds.** Two calls and one permit are enough for a call to wait, be dropped, be overtaken
and to meet another's cleanup; the coordinator's calls interact only through `sem`, `wg`
and `cancelled`, and the theorems of section 5 hold for any number. Two notifiers cover
both conditions. In `ObservedFs` two sessions suffice for every race of two critical
sections; two names make `Rename` meet a mapped target; `Phys` is the number of uploads of
one behaviour (a `uuid` never comes twice): two are enough for one upload to meet another's
leavings, three where a third follows; `MaxCalls` bounds the calls of `Process` on one file, two being what two writers of
a shared file start. The sessions of one camera are alike, and `contested` is the ghost that tells the files apart which a second
session took up (opened for writing, renamed, removed) while one was at work on them: `OwnedOnce` and
`NoMappingLeaks` are about all others, whatever else the sessions do, and need no assumption on the number of sessions. Those bounds can be used up, so the `ObservedFs` runs switch deadlock
checking off, as does `ingestion`, whose `Phys` bounds the uploads likewise. In `Ingestion` the notifiers,
which touch no file, are left out (`Notifiers = {}`); its theorems have them. It has no second camera either, which could not reach the
first one's files (`CamerasApart`). Left out of the module itself, and so of its theorems, is the step by which a second session takes up a
file another one is at work on: `ftp_shared_upload` shows what comes of it. The sessions may do anything else to each other's names: open
them again for reading, or for writing once they are free, stat and prune them, rename over them. In `application` the
process really stops, so that a deadlock is no error; the
constraint `Alive` only keeps TLC from listing stutters after its end, and the states in which it has ended are
still checked (`ExitLosesOnlyMissed` is about nothing else, and its mutant is found). One connection is enough to be
up, or not, at each step of `Stop`: connections differ in nothing there, and each of the two uploads may be in transfer on it, or
after it. Notifiers are left out of that run, too, for
its size: a `Send` that has not ended keeps its call in the same place as a `Save` that has not, under the same
fairness. Three providers have a first, a middle and a last; two chunks have a partial copy that
is neither empty nor whole. `MaxArtifact = 1` has sizes under, at and over the limit and no
file at all. The retry loop is not bounded: its state counts only
the attempts that start under a done context, of which there is at most one. In `Delivery`
Telegram's limits of 1024 and 4096 characters are scaled to `CaptionLimit = 9` and `TextLimit = 11`:
the messages of the fields of at most three characters (`MaxField`) fit in both, in the
text only, or in neither, and can be cut between an escape and its character.

**Symmetry** is used over `Events` in the safety run of `Coordinator`, and over `Phys`, `Names` and the sessions of one camera in
`ObservedFs` and `Ingestion`, where no property or definition names one of their members; it is not used
with liveness.

**Fairness.** `Application!AppFairness`, as long as the process lives: goroutines that can run do (weak
fairness of the steps the code takes unaided, one after the other in each call: `Moves`); a deadline passes (weak fairness of
`Timeout`); an analyzer, storage or notifier may take for ever but answers once its context
is done (weak fairness only of `CtxDone(e) /\ ...`: each of them hands its context to every
blocking operation, HTTP requests and the copy loop); a waiting sender of a Go channel is
woken when there is room (weak fairness of `Acquire`: a call takes one permit in its life and gives it back,
so that the calls are finitely many competitors and no stronger assumption is needed); `main` takes its steps. Nothing is assumed about
signals, servers that come up, cameras that connect, log in or disconnect, or uploads that begin, end or fail. `ArtifactStore`: each copy runs on
and the file system answers. `Detection`: the deadline passes, a stage whose context is done answers,
the loop goes on. `Delivery`: `Send` takes its steps, and a request that is not answered fails, as
the HTTP client's timeout (`app.go`) ends each; nothing is asked of server and network.

### Where the code and its own words part

Each is a run that TLC finds violated; `PROJECT.json` quotes the text.

- `WaitCoversHandovers`: `coordinator.go:69` says `Wait` blocks until all in-flight calls
  are done. A call whose `go` statement has run but whose `wg.Add(1)` has not is missed: the shutdown goes on,
  and the process exits, without it. What does hold is `WaitDrains`, proved, for the calls that have registered, and
  `ExitLosesOnlyMissed` for the process.
- `HandedOverQuiet` with two sessions: a second writer of a mapped name gets the same
  physical file, the first `Close` starts `Process` on it while the second still writes, and the
  first `Process` to end removes the file. It holds of files that are not contested.
- `PruneOnlyStale`: `server.go:265` calls what `Stat` does the pruning of stale mappings. `Stat` reads the mapping under the lock, looks at
  the file system without it, and deletes the name under a second lock without looking again. A name mapped by an `OpenFile` that
  has not created its file yet is taken for stale and deleted when the file is there: the camera can no longer rename or remove
  what it is uploading. It takes a second session of the camera. What the upload is for still comes about: it is handed over, once (`NoOrphan`, `OwnedOnce`).
- `URLIsServed`: the API serves the first local root, `Save` returns the URL of the first
  provider that *succeeded*; the two differ when the first provider fails.
- `ThreatIsShown`: the header of a threat, `*Threat Detected!*`, holds a reserved character that is
  not escaped (`docs/TELEGRAM_NOTIFIER.md:63` has it escaped). The server, as
  `TelegramText!Accepts` reads its rules from `escapeMarkdown`'s list, refuses caption and fallback alike. The
  repository's tests use a server that accepts anything.

More that TLC finds and no run keeps. In `Application` the process can panic: a transfer hands
over an upload after the last registered call has released `Wait` and before `Wait` has looked at the counter again
(`WaitWakes`); it takes a connection that is up, a transfer in flight, or a call whose `go` statement has just run, and
`CleanStopLosesNothing` says that it takes one. That nobody is logged in is not enough. A `Stop` that overtakes `Server.Start` leaves a listener behind that takes
uploads until the process is gone. `OwnedOnce` fails of contested files (`Close` unmaps the
name the file was opened under, not one it has since been renamed to), and on a shared file `MemoryBounded`
fails without its hypothesis (the size is checked before, not during, the read).
A threat the prefilter has seen is lost if the analysis fails softly until the deadline: that is what the repository's documents ask for
(`docs/YOLO_PREFILTER.md:308`), and `FailSecure` bounds it: otherwise only a later attempt whose prefilter fails hard ends such an event in an error. A field with a backslash, which
`escapeMarkdown` does not escape, is not read back as it was, and a text that is cut ends in unescaped dots.

## 4. Hazards

`PROJECT.json` lists them with the line where each bites and the properties that watch it.
Four have none. Two providers may be configured with one root: `Validate` (`config.go:130-139`) does not refuse it, and `ArtifactStore` takes the
roots to be distinct. An aborted transfer is closed like a complete one: the driver is told of the abort
only through an interface `ObservedFile` does not implement, so that nothing in the code tells the two apart. The
event's timestamp is taken after the queue, and the models have no clock. Labels are added once per attempt, and
nothing reads them.

## 5. What is proved

All theorems are for every value of the constants that satisfies the named assumptions
(`EventsAssumption`: finitely many calls, `FilesAssumption`, `NotifiersAssumption`,
`ConfigAssumption`; `SessionsAssumption`, `NoneAssumption`, `BoundAssumption`;
`CoordinatorAssumption` of `Ingestion`; `NAssumption`,
`ChunksAssumption`; `SizeAssumption`; `LimitsAssumption`).

**Coordinator** (`CoordinatorProofs`).

- `TypeCorrect`, `BalanceKept`. `TypeOK` is not inductive: that `sem` does not fall below 0 when a permit is given back,
  nor `wg`, follows from `PermitsBalanced`. The inductive invariant `IndInv` is their conjunction. `CountMove` states
  how the cardinality of "the calls whose `pc` is in S" changes when one `pc` moves,
  `GotoBalanced` applies it to the two sets at once, and every action is one or the other.
- `AlertsJustified`, `OutcomesComplete` rest on `StageInv`, which says of each place in
  `Process` what the stages before it have established; it is the strengthening from which both follow (`FullInv` is
  `IndInv /\ StageInv`).
- `Refinement`: `Spec => LifecycleSpec`. `phaseBar` maps a call's `pc` to queued, active or
  finished, `alertedBar` its notifiers to those that have been tried. The bound on
  active calls is that of `Acquire` through `PermitsBalanced`; that a finished call has alerted all
  that want it comes from `StageInv`.
- `ArtifactsAvailable` assumes `DistinctFiles` (each call has a file of its own): without it one call's
  cleanup removes another's file, which is what `ftp_shared_upload` ends in.
- `NothingLeft`, `RetentionKept`, under the same assumption: a call's file is there from its upload to its own
  removal and to nobody else's (`FilesPresent`), and the deferred removal is the last word on it.
- `LateBounded`: at most one analysis starts after the context is done, by an
  invariant that relates the ghost counter to the loop's position (`LateInv`). `WaitDrained`: from `PermitsBalanced`.
- `ShutdownSteps` and `NobodyWaitsForNobody` are what a shutdown's termination rests on and can be proved without
  fairness. `Progress` is a call's place in `Process` plus twice its late analyses: the only step back, from the backoff to
  another analysis, is one of those under a done context, so that a call has at most twelve steps left, and `LateInv` bounds
  the sum. Whoever waits (for a permit, for the counter) waits for a call that holds what it waits for.

**ObservedFs** (`ObservedFsProofs`).

- `FsTypeCorrect`, `Isolation`, `Injectivity`, `NothingForgotten` hold of any cameras, any number of
  sessions of each, any names. Their conjunction with `TypeOK` is inductive (`Inv`); one
  lemma per conjunct has one step per action. A new mapping is of a name nobody has drawn
  (`drawnBy`), which is what `Injectivity` needs `CamerasIsolated` for.
- `Ownership` and `NoLeaks` hold of any number of sessions, too. Their strengthening, `SoleInv`, says of each file that no two sessions were ever at work
  on at once (`Sole`) that one session at most is (`ByOne`), under the name that is mapped to the file (`ByItsName`); that the file of
  a transfer is there (`Present`); that a mapping is that of its session or was left by an error (`ForAReason`); and that once handed
  over the file is nobody else's (`Owned`). One lemma per part has one step per action.
- `Uncontested`: with one session per camera (`OneSession`) no file is ever contested; `QuietHandover` follows under
  that hypothesis, and the run `ftp_shared_upload` shows that it cannot be dropped. No other theorem of the module has it.

**ArtifactStore** (`ArtifactStoreProofs`). `NothingPartial`, `URLCorrect`, `SuccessLasts` for
any number of providers and chunks. The invariant says of each place in `copyFile` what the
destination holds (`PlaceOf`) and of a returned `Save` that all copies had ended.
`FirstSuccessWorks` is about the search for the URL: the least index that succeeded exists
by well-foundedness of `<` on the naturals. `StorageImplements`: a `Save` is `Coordinator`'s `SaveReturn`, once, and
"stored" means that some provider holds the whole artifact. `SaveSteps`: a provider has at most `Chunks + 6` steps.
`SingleProviderServed`: with one provider the URL is one the API can resolve, so that `store_url_served` takes two.

**Ingestion** (`IngestionProofs`). The composition is proved from the parts. `IngestionInv` is the invariants of
both sides and what ties them: a file that has been handed over has no name and no session (`Fresh`); that the file of
a transfer is on the disk is `SoleInv` of `ObservedFs`. Any number of sessions per camera is allowed. Each side's step keeps its own invariant by that side's lemma, once it
is known to be a step, or a stutter, of the other: `FsStep` shows it of `ObservedFs` under
`callsBar` and `leftBar`, `CoStep` of `Coordinator` over the files handed over. `SessionsSide` and
`PipelinesSide` are the refinements; the theorems of either module then carry over: `CamerasApart`, `PipelineUndisturbed`,
`RegistryEmpties` from `ObservedFsProofs` and `PipelineFindsItsFiles` from `ArtifactsAvailable`, whose `DistinctFiles` is a fact here, as the path is the
file's own and `HandOversReady` shows that no file is handed over twice. `NothingLeftByCalls` and `UploadsLifecycle`
(the refinement of `EventLifecycle`) carry over in the same way. `EveryFileAccounted` joins the two sides: whatever is in
the temp dir is written, handed over, removed or processed by somebody, or retention, or an error that was reported, left it.

**Application** (`ApplicationProofs`). `ProcessImplements`: the whole process is a behaviour of `Coordinator`, so that its
theorems hold here. `ExitCorrect` and `ApiStopsLast`: `Wait` returns at a counter of 0, which by
`PermitsBalanced` means that no registered call is between its first line and its last; those that register later are in
`missed`, and nobody leaves `missed`. `CleanStop`: from a moment at which the listener is closed, no connection is up, no transfer in flight and no
call half handed over, none of them comes back (only the listener makes connections, only a connection transfers, only a transfer calls), so
that the counter only falls. `ProcessRetains` and
`ProcessLifecycle` are `RetentionKept` and `Refinement` in the process. `WaitIsWoken`: a `Stop` that is blocked in `Wait` has a
call before it whose `Done` is still to come, so that its wake-up is not lost. `StopSteps`: main, and the calls once their
context is cancelled, only go forward.

**Detection** (`DetectionProofs`). `FailsSecure`, `ResultsAnswered`, `AnalysisInContext`, `MemoryIsBounded` for
any limit. The invariant adds what the four need: an attempt that runs has no answer yet, one that waits
for its retry failed softly, only a prefilter that exists has seen anything, and what is about to be read of an unshared file
was measured. `AnswerInv` treats a stage's answer once for all the steps that end in one. `AnalyzerImplements`:
the chain under its retry loop takes only the steps of `Coordinator`'s `AnalyzeReturn`, `BackoffFires`, `BackoffCancelled`
and `Timeout`; a stage's answer is one of the ways out of `AnalyzeReturn` or, when the prefilter passes the event on, no step
at all. `AttemptsBounded`: the chain starts at most one attempt under a done context.

**TelegramText** (`TelegramTextProofs`). Escaping and reading are recursive functions over the prefixes of a text, and
what they make of a whole text is an induction over its length. The induction is one on sets: a set of naturals that holds 0 and,
with n, n + 1 is the set of all (`SetInduction`, from the well-foundedness of `<`), and that the recursive definition defines a
function is proved the same way (`ReadingsDef`, `EscapedPrefixesDef`).

- `EscapedIsLiteral`: read after any text that leaves nothing open, an escaped text adds exactly itself, unescaped: for every text without a
  backslash, of any length and over any characters. `MessageIsRead`: the whole message of an event that is no threat.
- `ThreatIsRefused`, `CutIsRefused`: once a reading is unsound it stays so, and the exclamation mark of the
  threat's header, and at least two of the dots that `truncate` appends, are read outside an escape. (The first dot need not be: a cut
  may leave a backslash at the end.)

**Delivery** (`DeliveryProofs`).

- `NilIsShown`, `TwiceTakesLoss` for any message and limits: as long as no
  reply was lost, an alert that was shown is the one `Send` waits for or has ended with (`KnownInv`).
- `EscapingFaithful` and `RecordedShown` from the theorems about texts; `RecordedShown` needs `Untroubled`, which says what
  `Send` has done as long as nothing went wrong: nothing was shown before its end, and a text is only sent after the server has
  refused the caption.
- `ThreatNeverShown`: no Telegram request of a threat is ever shown, for any field, limits and behaviour of the network. It
  extends the finding of `delivery_threat` from one message to all. `LongNeverShown` says the same of texts over the limit.
- `NotifierImplements`: a `Send` is one `SendReturn` of `Coordinator`, and "sent" means that people have been alerted.
  `SendSteps`: no request is made twice, and five steps are the most.

**Model-checked only.** Liveness (`UploadsSettle`, `SignalEndsProcess`, `SaveEnds`,
`AnalysisEnds`, `SendEnds`), as the proof system has no rules for fairness; of all but `AnalysisEnds` the safety half is proved
(`ShutdownSteps`, `StopSteps`, `SaveSteps`, `SendSteps`: there are finitely many steps to take), and TLC checks the rest, that fairness
has them taken. An analysis may retry for as long as its deadline has not passed; from then on `AttemptsBounded` applies.
What concerns a file two sessions are at work on at once and is not `Isolation`, `Injectivity` or `NothingForgotten` is either checked to
fail (section 3) or not stated.

## 6. What is not modelled, and why

- `New` and `Config.Validate`: the wiring of a configuration into components. It runs once, before
  anything else, on data nothing else has; its outcomes are constants (`Concurrency`, `RetainFiles`, `AlwaysStore`, the
  notifiers' conditions) and initial states (`Detection`'s stages, `Delivery`'s notifier) of the modules.
- A restart: no code reads what an earlier process left in the temp dir or under the
  providers' roots, so that a new process is a new behaviour. A kill at any point is in
  `Application`; what it leaves behind is what there was.
- The check of credentials and of the camera's zone: `Sessions` are those that pass it; when `AuthUser` passes it is not bounded by anything.
  Virtual directories (`Mkdir` changes nothing; a prefix of a mapped name is a directory to `Stat`), and the methods
  `ObservedFs` inherits (`Chmod`, `RemoveAll`, listings), which go past the registry to the temp dir.
- Of the notifiers: JSON, multipart and URL encoding, the artifact link, and the HTTP
  transport's own repetition of a GET over a broken connection.
- The handlers of the REST API (stateless), zones (an immutable map), configuration
  loading (I/O), logging and metrics (nothing depends on them), the mocks.
- Contents: of a file only its presence, its size or its number of chunks; of a message
  the roles of its characters. ftpserverlib, the backoff library, the file system and the Gemini API are
  modelled by how the code uses them.

## 7. Plan

1. `EventLifecycle`, `Coordinator`, their runs and proofs. *Done.*
2. `ObservedFs`, `ArtifactStore`, `Detection`, their runs and proofs. *Done.*
3. `Delivery` and `TelegramText`, their runs and proofs. *Done.*
4. `Application`: the process around the coordinator, its run and proofs. *Done.*
5. `Ingestion`: `ObservedFs` composed with `Coordinator`, its run and proofs. *Done.*
6. Each stage of the pipeline shown to be what `Coordinator` takes it to be. *Done.*
7. The safety half of each liveness property. *Done* but for the uploads that no shutdown ends: between retries their number of steps
   is not bounded.
8. Left: the three composed (`Application` over `Ingestion`, whose `Upload` is a session's); a
   clock in `Coordinator` for the event's timestamp (`docs/DESIGN.md:43`); `Ingestion` with contested files, for which
   calls of `Process` have to be told apart from files, as far as it keeps its promises then; `New` as a function from configurations to constants.
