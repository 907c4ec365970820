# TLA+ models of paperless-scan-bridge

paperless-scan-bridge lets a button (a touch panel, Home Assistant, `curl`) scan
the sheets of a document feeder into Paperless-ngx. Three Go daemons do it:
**scan-bridge** takes the request, **sane-runtime** owns the scanner,
**scan-processor** cleans, reads and assembles the pages. scan-bridge also
mirrors the touch panel's own firmware from GitHub and serves it.

This directory holds models of the parts of those daemons where the order of
things matters, the TLC runs that check them, and proofs of their most important
properties for every value of the constants. Everything is translated from the
code; paths below are relative to `src/components/`, the panel's from
`src/firmware/esp32-panel/`.

    tlc -workers 2 -config X.cfg M      # one run; table under "Runs"
    tlapm MProofs.tla                   # the proofs of one component

## 1. The system

### Components, state, operations

| Part | State it keeps | Operations |
|---|---|---|
| firmware mirror (`scan-bridge/internal/firmware`) | cache directory: one directory per *generation* (tag + digest of SHA256SUMS), `.staging-*` and `.staging-replaced-*`, `state.json`; in memory the published `*Release`, `lastAttempt`, the trigger channel | `Load` at start, `Refresh`, `Run` (loop), `TriggerRefresh`; readers `Current`, `Open`, `OpenAt`, `Manifest` |
| firmware routes (`scan-bridge/internal/api/firmware.go`) | none | GET manifest, versioned file, current file; POST refresh |
| scan handler (`scan-bridge/internal/api/scan.go`, `scan_destinations.go`) | per request: context, scan ID, pages and documents under `OutputDir/<scan_id>`, results per destination | POST /scan |
| clients (`dispatch`, `procclient`, `destinations/paperless`) | none across calls | `Dispatch`, `Process`, `Deliver` |
| delivery metadata (`tag`, `scan_metadata.go`, `scan_title.go`) | none (pure) | `Merge`, `resolveMetadata`, `renderTitle` |
| sane-runtime (`scanapi`, `scanner`) | `scanMu` (one slot), scratch directory per scan with a count of open pages | POST /scan, GET /ready (the device list) |
| scan-processor API (`procapi`) | `processMu` (one slot) | POST /process |
| page pipeline (`scan-processor/internal/pipeline`) | per call: surviving pages, confidences and warnings in parallel slices, scratch directory | `Process` |
| profiles (`scan-bridge/internal/profiles`) | the profile set, loaded once | defaults and validation, all or nothing |
| config, secrets | loaded once at start | validation |
| daemons' `main.go` | listeners, calls in flight, the signal channel, the service's socket file, the refresh goroutine | start, `run`, graceful stop, in scan-bridge with a hard window after it |
| health, readiness, metrics, auth, jobs | counters | stateless answers |
| touch panel firmware (`cyd-scan-panel.yaml`) | Bridge URL, poller, supervisor, forced fast window, the last check's outcome | polls the manifest fast or slowly, installs by MD5, scans at a press |

### Interactions

* scan-bridge → sane-runtime → (pages streamed as multipart, written to disk) →
  scan-bridge → scan-processor → (documents streamed back, written to disk) →
  scan-bridge → each destination, document by document. One context, ended by
  the caller hanging up or by the profile's `timeout_seconds`, spans all of it;
  either service also sets a timer of its own. Neither queues: a second request
  is refused by `TryLock`.
* The refresh loop and the HTTP handlers of the mirror share one pointer under
  a mutex and one directory without any lock: a handler opens files while a
  refresh renames, prunes or repairs them.
* A panel polls the manifest of whatever bridge it is pointed at, on a task of
  its own; every other request it makes blocks the loop its timers run in.
* A stop waits for the handlers in flight and for nothing else: the refresh loop
  is started with `go fwMirror.Run` (scan-bridge `main.go:223-225`) and never
  joined, so it ends at its next step or with the process.
* The release workflow creates a release first and uploads its assets in a later
  job; a rerun replaces assets with `--clobber`. One tag may therefore stand for
  several generations, and for a while for none.

### What is hard here

* **Mirror**: a kill between any two file operations; any operation failing; a
  pointer, a directory tree and a state file that must agree; releases whose
  assets change under an unchanged tag; panels that hold a manifest for hours.
* **Loop**: ticker, deferred timer, button and floor race in one `select`; the
  pending flag and the timer are two pieces of state.
* **Scan**: paper is consumed by the first of several steps that can each be
  refused, time out, break off mid-stream or be killed; the answer must not lie
  about what was delivered, the slots must come back.
* **Profiles**: three programs check the same fields against lists of their own,
  and destinations are built only once the paper has been through.
* **Stop**: a signal, a failing listener, a draining and a hanging handler, two
  budgets and an exit code that somebody relies on.
* **Panel**: a check in flight cannot be called back when the URL is edited;
  timers are late by however long the loop is blocked; `millis()` wraps.
* **Processing**: some failures are tolerated and some are not, and the end of
  the context looks like either; parallel slices must stay in step when pages
  are dropped.

The full list, line by line, is `hazards` in `PROJECT.json`.

### What makes each component correct

* Mirror: the manifest never advertises what cannot be served; what panels may
  hold stays servable; a restart finds what it needs; nothing accumulates; it
  ends up on the latest release.
* Loop: never two calls within the floor; no wake-up lost; retries bounded;
  returns when told.
* Scan: a success is complete; an error delivered nothing; a refusal cost no
  paper; slots are held by who works and are given back.
* Processing: every surviving page in exactly one document, with its own report;
  time running out is never a degraded page.
* Profiles: what one program accepts the others refuse only in known cases; a
  destination in trouble costs the others nothing.
* Stop: it ends, in time, nobody is cut off early, and exit code 0 means so.
* Panel: what it takes for settled is its own bridge's word; a bridge that comes,
  goes or is replaced is noticed in bounded time.
* Metadata: tags are the documented algebra of defaults, document type and
  caller. Routes: a response never mixes two generations, and "come back later"
  is not answered as "does not exist".

## 2. Plan

| Order | Module | State |
|---|---|---|
| 1 | `FirmwareMirror`, `MirrorRun` | modelled, checked; every safety property proved |
| 2 | `ScanPipeline` (composes handler, clients, both services, destinations) | modelled, checked; every safety property proved |
| 3 | `ProcPipeline` (what `ScanPipeline` abstracts as one working call) | modelled, checked, proved |
| 4 | `FirmwareServing`: the routes and a panel, composed with `FirmwareMirror` | modelled, checked, proved |
| 5 | `ScanService`: what POST /scan promises; `ScanPipeline` implements it | stated; refinement checked and proved |
| 6 | `ProfileJourney` with `DeliveryMetadata` as a part: a profile from file to stored document | modelled, checked, proved |
| 7 | `DaemonStop`: start and stop of both kinds of daemon | modelled, checked, safety proved |
| 8 | `PanelUpdates`: the panel's update cadence | modelled, checked, proved |
| 9 | an abstract firmware service (what is advertised is available) that mirror and routes implement; sane-runtime's scratch count | left |

Every safety property a run expects to hold is also a theorem. Left to prove is
what the abstract firmware service would promise, once it is stated.

## 3. Modules

### FirmwareMirror — `scan-bridge/internal/firmware/firmware.go`

A generation is a value; `TagOf` gives the tag it was released under and
`Renderable` says whether its manifest renders. `disk`, `parked`, `litter` and
`stateFile` are the cache volume; a directory is `absent`, `intact` (its files
hash to its checksums) or `damaged`. `current` is the published pointer; `pc`
and `tag, previousDir, rel, hadOld` are the locals of `Refresh`, cut at every
file operation and every network exchange:

| Action | Code (`Refresh`) |
|---|---|
| `BeginRefresh` | latest release read, tag validated, `previousDir` remembered |
| `CompareSameTag` | short-circuit on an unchanged tag (`verifyCached`, `checksumsUnchanged`), sweeping staging |
| `FetchChecksums`, `DownloadAndVerify`, `AbandonDownload` | SHA256SUMS, the files, the manifest; any failure |
| `ClearParkingSlot`, `SetAside`, `SwapIn`, `SwapFails`, `Restore`, `DiscardParked`, `ChmodDest` | the swap, one rename or removal each |
| `Publish`, `RecordState`, `Prune` | pointer, `state.json`, eviction |
| `Crash`, `Load` | a kill anywhere; the next start |
| `CreateRelease`, `UploadAssets`, `ClobberAssets`, `DamageFile` | the environment |

`RecordState` is one action because `writeState` writes a temporary file and
renames it. Removals are not: a failed or killed `RemoveAll` may leave any
subset, and a half-removed directory counts as damaged (`Leftovers`).
`served`, `prior` and `harmed` are history: what panels may hold a manifest of,
and which generations came to harm in a way the daemon could not prevent (damage
from outside, a kill inside their swap, a swap and its undo both failing).

### MirrorRun — `Run`, `TriggerRefresh`, `retryDelay`, `throttleRemaining`

Discrete time: `Elapse` is one unit, during which the timers count down and the
API floor shrinks. `select` picks any ready case. Ticker, deferred timer and
trigger are a countdown plus a one-place channel each, as in Go. An attempt is a
phase of at most `RefreshTimeout` units that succeeds or fails. `press`,
`answering`, `gap` and `series` are history.

`FirmwareMirror` and `MirrorRun` split the mirror between them: the first lets a
refresh begin whenever none runs, which is more than the loop allows; the second
says when one begins, whatever it does.

### FirmwareServing — `api/firmware.go` and the readers of `firmware.go`

`FirmwareMirror` with one HTTP handler and one touch panel beside it. A handler
is two steps, because that is what it is: the published pointer is read under a
lock (`LookUpManifest`, `LookUpFile`), the file is opened without one
(`ReadManifest`, `OpenFile`), and any part of a refresh may happen in between.
`ProbeCurrent` is the question asked after a failure, `InstallHeld` the panel
asking for what its manifest named. Only a file that is not there is a 404 on
that route; one that cannot be read is a 500. `staged` and `content` say whose
bytes the staging directory and every directory *name* hold: a download stages
what upstream has at that moment, the swap puts it under `Dir`, the tag and the
digest of the release's checksums. A 200 is labelled with the generation the
handler knows (the `X-Firmware-Generation` header) and carries what lies under
that generation's name, so the two can differ. `passed` and `since` are history: what was published
since the handler read the pointer, and since the panel's manifest was looked up.
One handler is enough: handlers only read. A file once opened stays readable,
whatever happens to its name.

### ScanPipeline — POST /scan through all three daemons

`stage`, `ctx`, `answer`, `pages`, `documents`, `results` are the handler;
`scan`/`scanLock` and `proc`/`procLock` the two services' sides of the calls;
`loaded`, `taken`, `fedBy` the feeder. `accepted` is what destinations really
hold, which is not always what they are reported to hold. Each request names a
profile (grouping, image format, `max_pages`, destinations, and whether its
deadline lies beyond the clients' five minutes); two profiles share the scanner
in the runs.

| Action | Code |
|---|---|
| `PostScan`, `DispatchReturns`, `DispatchFails`, `ProcessReturns`, `ProcessFails`, `Deliver`, `AnswerScan`, `Cleanup` | `handleScan` and what it calls, in its order |
| `ReadPage`, `ReadDocument` | the clients' part-by-part loops that write files |
| `SaneTryLock`, `NoScanner`, `FeedSheet`, `ScanDone`, `ScanFails`, `ScanKilled`, `ScanWritten` | sane-runtime's handler and `ExecScanner.Scan` |
| `ProcTryLock`, `ProcDone`, `ProcFails`, `ProcKilled`, `ProcWritten` | scan-processor's handler, `Process` as one step |
| `Disconnect`, `Expire` | the context ending |
| `CallTimesOut` | the clients' own `http.Client.Timeout` of five minutes, which `timeout_seconds` may exceed |
| `KillBridge`, `KillSane`, `KillProc` | a container killed |
| `LoadSheet` | somebody puts a sheet in |

A service notices the end of the bridge's context some time after it happened,
so it may go on scanning for a request that is already answered. `Headroom` is
the one profile shape whose deadline is doubled; only there do the services' own
timers fire first. A stream ends properly or is detected as cut short, because
both clients require the closing multipart boundary. `Cleanup` is the deferred
removal of the scan output: the files stay when `RemoveAll` fails, which is only
logged (a removal that fails part way counts as one that fails). A 400 before the processor's slot (a body that does not decode)
and the classification of scanimage's failures by what it printed, after any
number of sheets, are alternatives of `ProcTryLock` and `ScanFails`. Validation that refuses a
request before dispatch (400, 404, 413) is in `ProfileJourney`.

### ScanService — the promise of POST /scan

The same call as its caller, the person at the feeder and a destination see it:
no handlers, calls, slots or deadlines. `told` is what the caller has been told,
`received` what each destination holds, `fedBy` where each sheet went. Paper goes
one way; a batch is not mixed with another's; a caller that was refused lost no
sheet, one told of an error had nothing delivered, one told "submitted" has every
sheet worth keeping at every destination, and no destination gets a sheet twice.
`ScanPipeline` implements it with `received <- accepted` and `told` read off
`stage` and `answer` (`ToldOf`): 409 and 503 for the scanner are "refused", a 200
is "submitted" or "partly" according to its results, every other answer "failed",
a handler that died "hung up". TLC checks this on small instances, and it is a
theorem (`ServiceImplemented`).

### ProcPipeline — `ExecPipeline.Process`

One call over every request shape (`req`) with `NumPages` pages. One action per
external tool, in the code's order: `Deskew`, `BlankCheck`, `Orient`, `Rotate`
over all pages, then `Pass1`, `Pass2`, `Convert` over the survivors, then
`Assemble`; `CleanTop` and `OCRTop` are the context checks at the top of the two
loops. Any tool may fail by itself, and fails when the context has ended.
`killed` and `softened` are history: a tool was lost to the context; pages for
which that was taken for a tolerable failure. Which words, which language and
which confidence are abstracted; *whose* confidence an entry is, is not.

### ProfileJourney — `profiles.go`, the validations along the way, `paperless.go`

One `profiles.yaml` and one POST /scan (`Scenarios`), without failing hardware:
what remains is what three programs and a destination make of the same fields.

| Action | Code |
|---|---|
| `ParseProfile`, `ParseRefuses`, `ParseReturns` | `Parse`: defaults, every rule, duplicate names, all or nothing |
| `RefuseRequest`, `AcceptRequest` | body limit, JSON, profile lookup |
| `DispatchRefused`, `Dispatch` | sane-runtime's own validation, then the feeder |
| `ProcessRefused`, `Process` | scan-processor's own validation, language packs, blank pages dropped, one image per file |
| `BuildDestinations` | the registry and `Build` of each block, an unusable one kept as an error |
| `OpenDocument`, `SkipUnbuilt`, `ResolveMetadata`, `Upload` | the two delivery loops, `Deliver` |
| `Answer` | the 200 |

### DeliveryMetadata — `tag/merge.go`, `api/scan_metadata.go`

A part of every delivery of `ProfileJourney`, with a program counter of its own.
What one delivery says about a document: `Resolve` puts the destination block's
tags and those of its `document_type_map` entry together, `Merge` chooses the
branch, `Dedup` and `RemoveTag` are the code's loops, one element at a time.
`Mapping` is the entry the map has for the profile's document type, or `None`.
`Described` is the documented algebra to compare with: `Picked` takes the
elements of a list at a set of places, in order, and what dedup and remove keep
is the places of first occurrences (`FirstOccurrences`) and of what the caller
did not name (`Without`).
Titles, the correspondent and the decoding of malformed values are left out.

### DaemonStop — the three `main.go`

`daemon` chooses the design: scan-bridge with two listeners, a graceful budget
per signal and a hard window after it (`shutdownAll`), or a service on a Unix
socket with one listener that closes when the budget is up (`shutdown`).

| Action | Code |
|---|---|
| `Start`, `RemoveStale`, `BindSocket`, `ChmodSocket`, `Listen` | `run` up to its `select`; in a service `newUnixListener`, each step of which may fail or be killed |
| `SelectSignal`, `SelectError` | the two cases of the `select` |
| `BeginShutdown`, `ShutdownReturns` | a `Shutdown` call per listener |
| `DrainedInTime`, `EnterHardWindow`, `GiveUp`, `ForceClose` | how `shutdownAll` or `shutdown` goes on |
| `Accept`, `Answer`, `ListenerFails`, `Signal`, `Kill`, `Tick` | net/http, callers, the supervisor, time |

`socket` is the service's socket file: absent, made by Listen but not yet open to
scan-bridge (`private`), `bound`, or `stale` when its process is gone. `cause` and
`cut` are history: why it stopped, whom the end cut off. A handler may take for
ever.

### PanelUpdates — `cyd-scan-panel.yaml`

The update component, its poller, and the scripts that start and stop it, in
whole units of time: `OnBoot`, `AdaptiveUpdatePoll`, `Poll`, `EditURL`,
`Connect`, `Press`, `Request`, and `Update` for what two of them do after their
blocking requests. `apply_update_source` and `sync_update_cadence` are operators
named after the scripts, used by whichever action calls them.
A check (`task`) runs beside the loop and keeps the source it began with
(`CheckSucceeds`, `CheckFails`); `busy` is how long the loop stays blocked, and
what is due waits for it. `fastFor` is the forced fast window as time left,
negative values and the wrap of `millis()` included; `zero` remembers that its
deadline came out as 0, which the code takes for "none". `Flip` and `Disconnect`
are the bridges and the Wi-Fi. ESPHome is external and modelled from how the
YAML uses it.

Three bounds say how long things may take, each as the sum of what can be in the
way: `Recovery` until a bridge that is back is found (a check that fails, the
supervisor, the poller, a good check), `Notice` until one that has gone is noticed
(a check of the bridge before, the supervisor that then puts off a slow poll, and
a check that fails), and `Settling` until the slow cadence returns (the later of
an answer and the window's end, then the supervisor); every timer may be late by
`MaxBlock`, the opening of the window included. `steady` is the time since URL,
Wi-Fi and bridge are as they are.

## 4. Runs

| Run | Module, cfg | Checks | Shows |
|---|---|---|---|
| `mirror` | MCFirmwareMirror, FirmwareMirror | `OrderingInvariant` `TwoGenerations` `RecordedIsCached` `CleanAtRest` `BoundedCache` | safety of the mirror under releases, failures, kills, damage |
| `mirror_live` | MCFirmwareMirror, FirmwareMirrorLive | `Convergence` | it ends up on the latest release |
| `mirror_swap_crash` | MCFirmwareMirror, FirmwareMirrorSwapCrash | `RestartKeepsServing` | *violation*, see 6 |
| `refresh_loop` | MirrorRun, MirrorRun | `WakeUpsAreKept` `PressAnsweredInTime` `RetriesBounded` `FloorBetweenAttempts` `CancelReturns` | floor, wake-ups, retries, cancellation |
| `serving` | MCFirmwareServing, FirmwareServing | `OneGeneration` `InstallFindsItsFile` `UnreadableIsReal` `NotFoundIsNotCarried` | the bytes of a response are those of the release it names, late installs, what a 500 and a 404 mean |
| `scan` | MCScanPipeline, ScanPipeline | `SlotsMatchWork` `RefusalFeedsNothing` `ImplementsService` | safety of an image scan and a page-by-page one side by side, and that they keep the service's promise |
| `scan_live` | MCScanPipeline, ScanPipelineLive | `SubmittedIsComplete` `ErrorMeansNothingDelivered` `EveryRequestEnds` `SlotsFreed` | requests end, slots come back, with two destinations |
| `process` | ProcPipeline, ProcPipeline | `TimeoutNeverSoft` `DocumentsHoldSurvivors` `ReportsBelong` | documents, reports, deadlines of one processing call |
| `process_deadline` | ProcPipeline, ProcPipelineDeadline | `DeadlineIs504` | *violation*, see 6 |
| `journey` | MCProfileJourney, ProfileJourney | `TypeOK` `RefusalsAreKnown` `EveryDestinationAnswered` `StoredAsAsked` | a profile from its file to the stored document |
| `shutdown` | DaemonStop, DaemonStop | `ExitCodeIsTrue` `CutOnlyAfterBudget` `StopsInTime` `ReachableWhileUp` `SignalStops` | start and stop of both kinds of daemon |
| `panel` | MCPanelUpdates, PanelUpdates | `SettledIsTrue` `PickedUpInTime` `NoticedInTime` `SettlesAgain` `ChecksFollowURL` | how a panel follows its bridge |

The type invariants are theorems (5) and not repeated in the runs, but for that of
`ProfileJourney`, which also says that only usable profiles are scanned with.

### Bounds, and why they are enough

* **mirror**: two tags and four generations — two under one tag, so that assets
  can be replaced, one under another tag, and one whose manifest does not
  render; up to 3 upstream changes (two releases and a replacement in any
  order), 2 failed operations (a swap and its undo), one kill, one damaged file.
  Every step of the swap meets every fault. About 2 million states.
* **mirror_live**: without the unrenderable generation (a mirror whose latest
  release never renders converges to nothing); two upstream changes, one failed
  operation, one kill, one damaged file.
* **serving**: three generations under two tags, two upstream changes, one failed
  operation, one kill: enough for a publication, a repair in place and a pruning
  to fall between a handler's steps, and for two generations to share a tag.
  About 2 million states.
* **refresh_loop**: a floor of 3, an attempt of up to 3 and an interval of 20
  with the code's 3 retries: several floors and a whole retry series fit between
  ticks, and a tick can fall anywhere in them. The history counters are capped
  just above the values at which a property would notice (`GapCap`, `PressCap`,
  `SeriesCap`). The retry delay without any floor is left to `WakeUpsHold`, which
  is for every floor, zero included.
* **scan**: two requests, because each service has one slot and refuses rather
  than queues: a third would meet the same refusals. A profile with `max_pages` 2
  and single images, and one page by page; three sheets, the first blank, so that
  a batch can be split between requests, lose a blank and still leave two pages to
  deliver or to refuse; `KeepScanOutput` off; one killed container; the second
  profile's deadline lies beyond the client's. About 1.9 million states.
* **scan_live**: a combined PDF for two destinations and single images; two
  sheets, so that a batch can be incomplete; `KeepScanOutput` on; one kill. About
  750,000 states.
* **process**: two pages, so that one can be dropped before the other; every
  shape of request. Three pages are beyond what TLC finishes in minutes; the
  proofs are for any number.
* **journey**: one usable profile with one or two fields changed to a value on
  either side of each rule; destination lists with an unknown target, a missing
  or relative URL, a malformed token, no secret, one after another; configured tag
  lists of up to two and caller lists of up to three tags with repetitions within
  and between them, every strategy, an empty and an unknown one included; files of
  several profiles; up to three page images, any number of them blank where the
  profile has them dropped; two language packs, those of the image. About 2.3
  million states.
* **shutdown**: two calls (one that drains and one that hangs), timeouts of one
  and two units in every order `Validate` allows, two starts, one failure: of a
  listener or of a step of a start. A kill may fall anywhere. About 290 000 states.
* **panel**: a unit of 20 seconds. Supervisor 3, fast 3, check timeout 2 and
  window 15 are the code's 60 s, 60 s, 55 s (rounded so that it stays below the
  fast period) and 300 s; the slow period of half an hour is cut from 90 to 8,
  still more than twice the fast one, and the clock wraps at 32, more than twice
  the window. The loop is blocked for up to 3 units at a stretch, the watchdog's
  limit. Two bridges, which are symmetric.

Deadlock checking is off where the system really stops: finitely many requests
(`scan`, `scan_live`), one processing call, one profile's journey, a daemon not
started again, a loop that returned.

### Fairness

* `MirrorRun`: weak fairness of time and of an attempt ending (it runs under a
  timeout); *strong* fairness of each case of `select`, which chooses at random
  among the ready ones: a permanently ready `ctx.Done` is chosen eventually,
  though it is not enabled while an attempt runs.
* `FirmwareMirror`: weak fairness of a refresh's steps (the loop keeps starting
  them) and of `Load` (the supervisor restarts the container); strong fairness
  of the two network exchanges: retried for ever, they do not fail every time.
* `ScanPipeline`: weak fairness of what the three daemons do by themselves and of
  the deadline: the request's context has one, and a waiting goroutine whose
  channel is ready runs. None of the scanner or a tool ever completing, of a
  person loading paper, of a caller, of a kill, and not of the clients' own timer.
  Requests end nevertheless, because everything waits under a context.
* `DaemonStop`: weak fairness of `run` and of time. No handler is assumed to
  return and no listener to drain.

### Mutants

Each property of a passing run has a mutant in the module it is about (marked
`Mutant:`), a plausible slip in that piece of code, under which the property
fails: a swap that is not undone, a pruning that forgets the predecessor, a
wake-up dropped at the floor, a slot not given back, a truncated stream taken
for a complete one, a deadline taken for a tolerable failure, a stale
socket file left in place, a directory named by its tag alone, a forced window that covers one check only.

## 5. Proofs

Each `*Proofs` module extends its component. They assume what the modules declare
about their constants and nothing else; TLC evaluates these assumptions in every
run: `GensAssumption`, `BoundsAssumption` (mirror), `RunAssumption` (loop),
`ProfileAssumption`, `NoneAssumption` (scan), `PagesAssumption`, `NoneAssumption`
(processing), `StopAssumption` (stop), `PanelAssumption`, `NoneAssumption` (panel),
`TagsAssumption`, `ScenariosAssumption`, `ReplyAssumption` (journey: tag lists are
lists of tags, files and requests are what decoding can yield, `None` is no error
code). What a theorem needs beyond them stands in its statement: a finite set of
generations for `UnreadableExplained`, more than two of them for `InstallsFind`,
and for the panel's four timing theorems `ChainFits`, `SupervisorFits` and
`ClockFits` (below), which the panel's own numbers and the run's satisfy.

| Module | Theorems |
|---|---|
| `FirmwareMirrorProofs` | `TypeCorrect`, `OrderingHolds`, `TwoGenerationsHold`, `RecordedIsCachedHolds`, `CleanAtRestHolds`, `VolumeIsBounded` |
| `MirrorRunProofs` | `TypeCorrect`, `WakeUpsHold`, `FloorHolds`, `RetriesHold`, `PressesHold` |
| `FirmwareServingProofs` | `RoutesOnlyRead`, `ServingTypes`, `LabelsMatch`, `UnreadableExplained`, `NotFoundExplained`, `InstallsFind` |
| `ScanPipelineProofs` | `TypeCorrect`, `SlotsHold`, `RefusalHolds`, `ErrorHolds`, `CompleteHolds`, `ServiceImplemented` |
| `ProcPipelineProofs` | `TypeCorrect`, `TimeoutsAreHard`, `ReportsHold`, `DocumentsHold` |
| `DaemonStopProofs` | `StopTypes`, `ExitCodeTold`, `BudgetIsKept`, `EndsInTime`, `SocketIsItsOwn` |
| `ProfileJourneyProofs` | `TypeCorrect`, `RefusalsHold`, `AnsweredHolds`, `StoredHolds` |
| `PanelUpdatesProofs` | `TypeCorrect`, `ChecksFollow`, `SettledByItsBridge`, `FoundInTime`, `MissedInTime`, `SettlesInTime` |

*Mirror.* `OrderingInvariant` is not inductive: that the published generation is
whole now says nothing about a pruning to come. The strengthening says what
`current`, `served`, `prior` and `previousDir` have to do with each other at each
step of a refresh (what is published is what was served last; once the pointer
has moved, `previousDir` is its predecessor), that a set-aside directory is in
its parking slot while its path is empty, and, for the state file, which of the
retained generations it names. Then one step per action. `CleanAtRest` needs to
know at which steps staging and a parked directory can exist without a failure
(`StagingInv`). `BoundedCache` is a count: `Held` is what is cached, published or
being exchanged, and what may be held grows by one with each kill, each failure
and, from the swap to the pruning, the generation brought in (`Allowed`). A step
either holds nothing new or is one of the two that count: the swap, and the
pruning that leaves the two retained generations.

*Loop.* The pending flag equals "timer running or tick waiting". The time since
the last attempt and the rest of the floor add up to the floor at least. A series
of attempts is ahead of the failures counted against the budget by one, or by two
while a promised wake-up is outstanding (`SeriesInv`). A press waits for the
attempt under way or for the floor, never for both in a row (`PressInv`).

*Routes.* They only read (`RoutesOnlyRead`), so every theorem of the mirror
carries over. A generation looked up is the published one, or behind it by what
has been published since (`Behind`); across one publication it is one of the two
retained, which `TwoGenerations` keeps. A restart that forgets everything counts
as having published everything, hence the condition of `InstallsFind`.
`OneGeneration` rests on `NamesHold`: what is on the disk for a generation, at its
place or set aside, has that generation's bytes under its name, and from the end of
the download to the swap the staging directory holds the release being refreshed.
It needs that no two generations share a name (`DirIsInjective`: the digest) and
that a directory only ever comes in by a swap (`StoredMoves`).

*Scan.* Type correctness and the slots are proved first. `RefusalFeedsNothing`
needs that a call which was refused never held the slot (`TrayIsNobodys`,
`ColdCalls`). `SubmittedIsComplete` runs along the pipeline: a finished call
streamed everything it was fed; the pages read at `process` are those fed; the
documents read at `deliver` are those made of the pages; what is reported
submitted was taken (`ReportedIsTaken`); and none of it changes once answered.

*Scan implements its promise.* `ServiceImplemented` maps every step: one lemma per
kind of step names the step of `ScanService` it is, and a step in which nobody is
told anything, no sheet moves and no destination takes anything is a stutter
(most of the pipeline). Reachable states the safety invariants do not describe
closely enough are excluded by `RefinementInv`: the sheet pulled in last belongs to
the batch being scanned (`BatchesDoNotMix`), scan-processor answers 200 only with
a sheet worth delivering (`SomethingIsLeft`), what was taken is reported, so that
no destination gets a sheet twice (`TakenIsReported`), and the cleanup only starts
once there is an answer (`OverIsAnswered`). A kill of the bridge maps to the hanging
up of every caller that waits.

*Processing.* `TimeoutNeverSoft` rests on `SoftIsLate`: once a page was softened
by the context, the context has ended, so no later tool runs and no document
with that page is made. `ReportsBelong` rests on `Parallel`: entry *i* of the
confidences belongs to assembled page *i* at every step of the loop.
`DocumentsHoldSurvivors` rests on `PagesInv`: the survivors are ascending, a page
that has been cleaned is among them unless it was dropped as blank, and what has
been assembled is a prefix of them.

*Journey.* `Before` says how a request passes its stages and that what is scanned
with was let through (`OnlyUsable`); with it a refusal, which a single step gives,
has one of the known reasons. `EveryDestinationAnswered` rests on `InRows`: the
report so far is the rows before the current document and the entries before the
current destination, which needs that division and remainder recover the two loop
counters. `StoredAsAsked` is about two loops over lists of any length. Their
invariant, `SoFarDescribed`, is stated without recursion: `IsPicked(s, K, o)` says
that `o` has one element for each place in `K`, each at the rank of its place; a
loop turn adds a place behind all the others or none, and at the end `K` is the
set `Described` picks. `ForThisDelivery` adds that block and caller are those of
the current destination, which a second destination or document could upset.

*Stop.* `StopInv`: the deadline of the `Shutdown` calls is the graceful budget,
then the full one, and time does not pass it while one runs; a listener that is
closed accepts nothing, so that what has drained stays drained. For the socket
(`FileIsBound`): at each step of a start, and of a stop, what may be at the path.

*Panel.* `SettledIsTrue` is a race between the forced fast window and the chain
"the old bridge's check ends, the supervisor notices, the poller fires, the new
bridge's check ends". `SettledInv` says that at every step what is left of the
window is more than what is left of the chain. That needs the window to be longer
than the chain to begin with, every timer late by as long as the loop can be
blocked (`ChainFits`). In the code's numbers this holds while the loop is blocked
for less than 90 s at a stretch, and the panel's watchdog restarts it after 60 s.

The three time bounds are proved alike: `steady`, which grows with time, and what
is still to come, which shrinks with it, add up to no more than the bound. What
is to come is measured by `Fires` (a timer that may be late), `UntilPoll` and
`UntilAnyPoll`. For `PickedUpInTime`: a check that is still to fail, or is of
another bridge, is no younger than the moment the bridge came back
(`StaleIsOld`), and after it a poll comes while there is no word
(`AnswerComes`). For `NoticedInTime`, what could go wrong is a poll put off over
and over. A supervisor puts one off at most once: it may turn a fast poll into a
slow one, never a slow one into a later one; and a poll it has brought forward
because a window opened is not put off again, as the window outlasts it
(`WindowOutlastsRestart`, `PollIsKept`, `FailureComes`). That needs a supervisor no
faster than the fast cadence (`SupervisorFits`), or its two periods would interfere.
For `SettlesAgain`: a script that is pending is new (`PendingIsNew`), so the window
opens at most one block late; it runs down with `steady` or, once over, is cleared
by the supervisor before `millis()` has come half way round (`DeadlineIsCleared`);
and the supervisor keeps the fast cadence only without word or with the window
open (`FastEnds`). That needs a supervisor well within half the clock
(`ClockFits`: 60 s and a block against 24 days). The invariants were checked with
TLC on the run's instance before they were proved.

Only model-checked: liveness, which is out of the prover's reach (`Convergence`,
`CancelReturns`, `EveryRequestEnds`, `SlotsFreed`, `SignalStops`). The two runs that
expect a violation state what comments say and the code does not do.

## 6. Where code and documents disagree

With a run that shows it:

* **A kill inside a repair** (`mirror_swap_crash`). `Load`'s comment
  (firmware.go:327-328) says a restart keeps serving. When a generation is
  repaired in place, a kill between setting the old directory aside and renaming
  the new one in leaves nothing at the recorded path; the restart sweeps the
  parking slot, adopts nothing and answers 503 until a refresh succeeds.
* **A deadline as a processing failure** (`process_deadline`). Hard stages wrap
  both `ErrOCRFailed` and `ErrTimeout`; `writeProcessError` looks for the first
  first, so a deadline inside tesseract, convert or qpdf is a 422, where the
  comment at exec_pipeline.go:389-399 counts on a 504.

Seen while modelling, without a run of their own.

Mirror and routes:

* `handleFirmwareFile` finds nothing mirrored, the very first refresh publishes,
  and the question asked afterwards finds something: 404 "does not exist"
  (api/firmware.go:134-137, firmware.go:396-399) for a file the release carries.
  `NotFoundIsNotCarried` exempts exactly this case; only a GET of a bare file name
  meets it.
* A stale `state.json` names a pruned generation once two writes in a row failed
  (firmware.go:1017-1020 says it is "still cached"; `RecordedIsCached` therefore
  allows one failure).

Scan:

* `processor_busy` is a 409 that arrives after the sheets were fed, and the
  cleanup then deletes the pages, where openapi.yaml:305 describes 409 as
  sane-runtime being busy; a 422 may follow a scan that fed sheets and a 500 a
  completed one (openapi.yaml:314, 323); a deadline during deliveries is a 200
  with failed destinations (troubleshooting.md:131-149 speaks of a 504).
* `effective_tag_ids` (openapi.yaml:1052, "the resolved tag IDs") is the caller's
  list merged into nothing, not what any destination received.
* A killed bridge leaves scan output behind, and so does a `RemoveAll` that fails
  (scan.go:443-448, logged only): api.go:64-66 promises its removal after every
  request, troubleshooting.md:162 says that nothing deletes it.

Profiles (`RefusalsAreKnown` lists the refusals that are left):

* A resolution of 601 to 1200 loads (profiles.go:389) and is refused by
  sane-runtime as a bad request, a 502 `dispatch_failed`.
* OCR languages are not compared with the installed packs when a profile loads,
  and a combined JPEG or PNG is not refused: both are a 500 `unsupported_output`
  after the paper has been through (the comment at scan.go:339-346 counts on
  `validateProfile`), the second only if more than one page is left once blank
  ones are dropped.
* paperless.go:161-164 says a configuration error "surfaces at load time", but
  `Build` runs in `handleScan`; an unknown `target` is found there too.
* A profile without destinations scans, answers 200 and deletes the result.

Stop:

* main.go:281-282 says `shutdownAll` fails only when the hard deadline is
  breached; it fails whenever the graceful budget ran out, though everything may
  have drained in the hard window (main.go:367, 414). `ExitCodeIsTrue` states what
  holds.
* With a SIGINT budget at or above the hard timeout, or a SIGTERM budget equal to
  it, a stop takes up to a second more than `hard` in `StopsInTime`.
* A second signal is swallowed; a service whose listener fails returns at once,
  without draining its handlers; the refresh loop is not joined.

Panel:

* yaml:2084-2086 takes 0 for safe as "none" because a deadline is at least
  300000; `millis() + 300000` can wrap to exactly 0 (`zero`, exempted in
  `SettledIsTrue` and `PickedUpInTime`).
* yaml:850-852 says that the window is set at every reconnect and press;
  `apply_update_source` returns early for an unchanged source.
* ADR 0025's "175 s at worst" leaves out a check that began before the bridge
  came back (`Recovery` counts it).
* A bridge that goes away is said to be noticed within "a poll interval plus the
  client timeout" (ADR 0025:208-210, lessons-learned.md:29). When the window of a
  new source lapses, `sync_update_cadence` restarts the poller at the slow cadence
  (yaml:2125-2127), though a fast poll may be due that very moment; a bridge that
  went away since the last fast check is noticed a fast and a slow interval and a
  timeout later, with nothing blocking the loop. `Notice` is the bound that holds.
* `do_scan` logs "Nothing was scanned" and a timeout of 8 s where the timeout is
  55 s and the scan goes on.

## 7. Not modelled

* The panel's profile grid, scan button and display: layout, and one HTTP
  request whose other side is `ScanPipeline`. `set_source_url` assigns a string
  that the update task may be reading (yaml:2151): a data race inside ESPHome; the
  model gives a check the source it had when it began.
* Authentication, health, readiness, metrics, jobs: stateless, counters, or a
  type without a runner. Configuration and secrets but for the timeouts: read
  once.
* sane-runtime's GET /ready runs `scanimage -L` without the slot while a scan may
  hold the device; what SANE does then is not known from this code.
* Argument lists of the tools (`argv.go` but for the page count, `exec_argv.go`),
  language scoring and the numbers of the confidence gate; sane-runtime's scratch
  directories and their count.
* Two live instances of one service on one socket path: the second would remove the
  first's file (sane-runtime main.go:158), but compose.yaml runs one of each, and a
  start here follows the end of its predecessor.
* A killed tool is taken to end. A process stuck in the kernel would keep its
  slot, and no model here says otherwise.
* Of the routes: POST refresh (it is `TriggerRefresh` in `MirrorRun`), headers,
  conditional requests, the transfer of an opened file.
* Titles, the correspondent, the decoding of malformed metadata values; retention
  and expiry of documents inside a destination, which is external.
* Deployment, CI and the documentation site, but for the release workflow as the
  mirror's upstream.
