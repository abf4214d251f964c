# A verification development for KITT Assistant

KITT Assistant is a desktop assistant in two halves: a Rust half (`apps/kittd`,
`apps/kittctl`, `apps/kitt-hud` and the `crates/`) that listens, routes a
request to a model, shows a heads-up display and serves a Control Center, and a
Python half (`packages/kitt-assistant-runtime/kitt`) whose workspace daemon runs
agent turns, asks the user to approve actions, records every event and serves it
to terminal and browser clients.  This directory holds TLA+ specifications of
the parts that are hard to test, the TLC runs that check them on small instances
and TLAPS proofs of the invariants that matter most.

Paths are relative to the repository.  `server.py`, `process.py`, `transport.py`
and `client.py` are those of `packages/kitt-assistant-runtime/kitt/daemon/`,
`gateway.py` and `app.js` those of `kitt/remote/` unless said otherwise.

1. [Inventory](#1-inventory) 2. [Modules](#2-modules) 3. [Runs](#3-runs)
4. [Fairness](#4-fairness) 5. [Proofs](#5-proofs)
6. [Where code and documents disagree](#6-where-code-and-documents-disagree)
7. [Not modelled](#7-not-modelled)

## 1. Inventory

| component | state | operations | hard behaviour | what makes it correct |
|---|---|---|---|---|
| Turn engine (`server.py`) | `_active_turns`, `_cancelled_turns`, a lock per session, pending events, `daemon_events`, messages, approvals | `send_input`, `cancel_turn`, `continue_turn`, `approval.approve/deny`, `_execute_turn`, `_continue_turn`, `stop` | coroutines that interleave at every await: cancel against a running, paused or queued turn; resumption; restart | every active turn has a cause, a running turn can be cancelled, a cancelled run says nothing critical any more, questions and answers pair up, every turn settles, also when a save fails or a stream ends early |
| Event stream (`server.py`, `client.py`, `gateway.py`, `remote/server.py`, `app.js`) | rows, subscriber queues (500), sockets, cursors | record, broadcast, write, page, attach, live merge, reconnect | bounded queues, slow clients, events between two requests, lost connections | in order, none twice, none missing, catches up |
| Approvals of direct UI tools (`server.py`) | `_direct_pending`, approval store | `ui.tool.execute`, approve, deny, prune | the decision meets a capacity limit, a restart, a second decision | a tool runs at most once and only when granted |
| Blocking-generator bridge (`server.py:1186`) | queue of 128, executor thread | produce, consume, time out | put timeouts, a slow consumer | every event or an error, then an end |
| Daemon lifecycle, lock and launcher (`server.py` start/stop, `process.py`, `transport.py`) | lock, socket and pid files, lifecycle state | start, stop, run loop, `start_daemon_detached`, `stop_daemon` | crash between create and write, stale owner, stop during start, two callers | one authority per workspace, named by its files; a start serves, a stop ends |
| Client RPC (`client.py`) | pending requests, reader task | send, answer, time out, close | late and lost answers | every request is answered, fails or times out |
| Remote web (`remote/`) | pairing codes, sessions, limiter windows, stream slots | pair, authenticate, limit, stream | concurrent requests of several threads | limits hold, slots return |
| HUD broadcast (`apps/kittd/src/main.rs`, `apps/kitt-hud`) | last event, 8 subscribers; the HUD process and what it shows | subscribe, send; show, expire, time out | slow or dead subscribers, concurrent senders | none missed, the last event is shown |
| Requests and ask pipeline (`apps/kittd/src/main.rs`, `kitt-application`, `kitt-domain`, `kitt-infrastructure`) | connection counter (64), memories, per request the model it goes to and the memories that go along | accept, refuse, dispatch, route, recall, complete, fall back, remember | the limit on every path, a fallback from a local to a remote model, timeouts | nothing private goes to a remote model, places come back, every request ends |
| Voice (`apps/kittd/src/voice.rs`) | segmenter, activation, event queue (8), recordings on disk, pause flag, the STT worker and its handle | capture, detect, segment, record; transcribe, ask, speak, guard; ensure, spawn, poll, kill; warm up | two threads that wait for one worker, a full queue, microphone failures, KITT's own voice | one worker, no command without its wake word, recordings deleted, always back to listening |
| Settings of the Control Center (`settings_web.rs`, `settings_overlay.rs`, `control-center-web/app.js`) | the overlay file with its revision; a page's snapshot and edits | get, validate, review, put | two writers, edits during a request | no accepted write is lost, no edit forgotten |
| Reverse-proxy manager (`settings_web.rs`) | the child process behind a mutex | status, start, stop | what lies between a check and the registration; kittd's end | one proxy, which ends when nobody holds it |
| Start and configuration (`main.rs`, `model_config.rs`, `settings_overlay.rs`, `kittctl`) | `config.json`, `models.json`, the overlay, the profile in use, the service | create, migrate, layer, validate; start, stop, restart, restart on failure | a crash in a write, an overlay over a file that was validated before | the prefix mode stays local, broken defaults are not used, a service whose files are whole serves again |
| Web rendering (`surface.js`), HUD front end | view state | render | | presentation only |

How they meet.  A client's request reaches `_handle_client`, whose handlers start
turn tasks and answer decisions; tasks append rows to `daemon_events` and
broadcast them into the queues of the subscribed connections; a connection's
writer loop moves them to the socket, where the gateway merges them with replayed
pages and emits them to the browser.  Blocking kernel iterators come to the event
loop through the bridge.  Frontends find, start and stop the daemon through the
files of `.kitt`.  In the Rust half each connection has a thread; asks send HUD
events to the subscribed HUD processes; the Control Center's threads read and
replace the overlay and own the proxy child.

## 2. Modules

One action is one stretch of code that nothing can interleave with: for the
Python daemon what lies between two awaits, for processes and threads what lies
between two looks at shared files or two sections of a mutex.  `MC*` modules only
add symmetry sets and functions for the instances.

| module | models | state | actions |
|---|---|---|---|
| `DaemonTurns` | the turn engine | `active`, `cancelled` (the tables), `tasks` (per session, the coroutines in line for the lock; the first holds it), `stage`, `pending`, `paused`, `progress` (locals of the coroutine that holds it), `log` (`daemon_events`), `approval`, `messages` (durable), `cut` (history: turns whose stream ended early) | `SendInput`, `BeginExecute`, `BeginContinue`, `Suppress`, `Buffer`, `Flush` (an event of the kernel's stream: after a cancellation, into the batch, or with the batch into the log; a message with it is saved or, with `Save`, lost), `Exhaust` (the end of the stream, after its last event or before it, when that may be a lost approval request, `RequestLost`), `Raise` (both with `Finish`, the finally clause), `CancelTurn`, `Approve`, `Deny`, `GrantElsewhere`, `ContinueTurn`, `Restart` |
| `EventLog` | what a stream promises | `recorded`, `delivered`, `lossy` | `Record`, `Deliver`, `Overflow`, `Skip` |
| `EventStream` | rows to browser, one daemon connection at a time | `recorded`; `conn`, `subscribed`, `queue`, `wire`, `request` (connection); `phase`, `cursor`, `reply`, `pendingLive`, `emitted` (gateway); `sse`; `lastSequence`, `missed` (page); `truncated`, `overflowed` (history) | `Record` with `Broadcast`, `ServePage`, `ServeAttach`, `WriteNext`, `Open`, `ReceivePage`, `ReceiveAttach`, `ReceiveLive`, `GoLive`, `Show`, `CloseDone`, `DaemonFails`, `BrowserFails` |
| `DaemonAuthority` | who is the daemon of a workspace | `lock`, `lockPid`, `sock`, `pidFile` (the files); per daemon `pc`, `running`, `listener`, `stop` (two `stop()` coroutines); per frontend `fe`, `target`, `peer` | `CreateLock`, `WriteLock`, `InspectLock`, `RecoverLock`, `Bind`, `Announce`, `Loaded`, `LoadFails`, `RollBack`; `StopAsked`, `ListenerClosed`, `StopCleanup`, `StopRelease`, `LoopEnds`, `Interrupt`, `LoopStopped`, `Exit`; `CallStart`, `Probe`, `ProbeState`, `Ask`, `Answer`, `AwaitExit`, `Clear`, `Spawn`, `Await`, `Terminate`, `FrontendCleanup`, `CallStop`; `Crash`, `Outage`, `RunForeground` |
| `DirectApprovals` | `ui.tool.execute` and its decisions | `store` (durable), `direct` (`_direct_pending`), `stage`, `log` | `Execute`, `AwaitDecision`, `CompleteAtOnce`, `Fail`, `Approve`, `Deny`, `Complete`, `List` (all with `Pruned` where the code prunes), `Restart` |
| `BlockingBridge` | `_astream_blocking` | `worker`, `made`, `queue`, `got`, `result`; `cause`, `late` (history) | `Submit`, `Take`, `Yield`, `Exhaust`, `Raise`, `Put`, `LoopLate` and `NobodyTakes` (with `GiveUp`, a put that times out), `Receive`, `Abandon` |
| `HudBroadcast` | asks, the broadcaster, HUD processes | `sent` (last one is `last_event`), `clients`, `joining` (holder of the list's mutex), `replayed`; per thread `job`, `phase`, `send`, `event`, `todo`, `failed`; per HUD `hud`, `inbox`, `listens`, `shown` | `Ensure`, `Resolve`, `Announce`, `Snapshot`, `Write`, `EndSend`; `Greet`, `Replay`, `Join`; `Listen`, `Show`, `ExpireShown`, `ReadTimeout`, `Disconnected`, `UserCloses` |
| `SettingsOverlay` | the settings page and its PUT | `overlay` (the file); per page `snapshot`, `pending`, `phase`, `diff`; per request `request`, `server`, `copy` | `Edit`, `Reset`, `Reload`, `Preview`, `Previewed`, `Cancel`, `Apply`, `Applied`; `Read`, `Replace`; `Interrupted` |
| `Configuration` | the start of kittd and its service, composed with `SettingsOverlay` | `kittd` (how far it is), `environment`, `config`, `models` (the files), `used` (the profile it runs with), `mode` | `LoadConfig`, `LoadModels` (with `Created`, `Migrated`, `Layered`, `Valid`), `StartVoice`; `StartService`, `StopService`, `RestartService`, `Crash`; `Browse` (a step of a page while kittd serves) |
| `ReverseProxyManager` | status, start and stop of the proxy | `manager` (child, preset, start), `proxy`, `attended` (standard inputs open), `foreign`; per thread `pc`, `online`, `held` | `Probe`, `Check`, `Spawn`, `Watch`, `Adopt`, `Take`, `AwaitExit`, `Forget`; `Listen`, `Exit`, `EndOfInput`, `Foreign`, `KittdEnds` |
| `SpeechWorker` | `ensure_local_stt_ready` of two callers | `worker` (per process), `owned` (the handle), `stage` (per caller) | `FirstProbe`, `Spawn`, `Poll`, `Deadline`, `Kill`; `WorkerStep` (loads, degrades, exits) |
| `VoiceLoop` | capture, pipeline and warm-up threads, composed with `SpeechWorker` | `chunk`, `segment`, `counter`, `activation` (capture); `events`, `files`, `paused`; `pc`, `awaiting`, `utterance`, `waited` (pipeline); `echo` (what KITT has said that is still in the room) | `Take`, `Detect`, `Push`, `Reopen`; `BootEnds`, `ReceiveWake`, `ReceiveUtterance`, `EnsureEnds`, `TranscribeFails`, `Ignore`, `Reply`, `Request`, `Think`, `GuardEnds`; `EchoFades`; `Supervise` |
| `Assistant` | connections, requests and questions to a model | `local` (per tier), `store` (memories), `active`, `accepting`; per caller `pc`, `tier`, `context` | `Connect`, `Accept`, `Refuse`, `Dispatch`, `VoiceAsks`, `TakeMemories`, `Complete`, `Fails`, `RememberEpisode`, `Close`, `Expire` |

`DaemonTurns` takes the agent kernel (`rt.processor`, `rt.approval`, a package
outside the repository) as `server.py` uses it: its stream yields non-final
events, an approval request or a final event, ends at any point, or raises.  `EventStream`
refines `EventLog` through `Log == INSTANCE EventLog WITH delivered <-
lastSequence, lossy <- truncated \/ overflowed`.  `Configuration` and `VoiceLoop`
extend the module they are composed with and interleave its actions with theirs:
the pages of `SettingsOverlay` are served while kittd serves, and `Interrupted`
is what its end does to them; the pipeline and the warm-up thread of `VoiceLoop`
are the two callers of `SpeechWorker`.

Operators whose names begin with `Fault` are the code with one plausible mistake
in it; nothing uses them but the mutants of `PROJECT.json`, which put one in the
place of the operator that follows it to show that a property notices.

Variables marked "history" only record what happened, for properties and bounds.

## 3. Runs

`tlc -config X.cfg M` for each; all but the two that end in a counterexample
finish without error.  The systems may stop when clients ask for nothing more or
a bound is reached, so deadlock is not checked.

| run | module | checks | bounds |
|---|---|---|---|
| `DaemonTurns` | `MCDaemonTurns` | `TypeOK`, `ActiveHasCause`, `RunningIsCancellable`, `AwaitingStaysActive`, `LateCriticalSuppressed`, `TranscriptPairs`, `SubmittedSettles` | two turns on one session, batches of two, one progress event and two runs per turn, one turn whose saves may fail and whose stream may end early, one restart |
| `DaemonTurnsSingleTerminal` | `MCDaemonTurns` | counterexample to `SingleTerminal` | no restart |
| `EventStream` | `EventStream` | `ResponseSurvives`, `CatchesUp`, `LogSpec` | queue of 2, pages of 3, 7 events, 2 failures |
| `DaemonAuthority` | `MCDaemonAuthority` | `OneAuthority`, `AuthorityIsNamed`, `StartServes`, `StopEnds` | three daemons, one frontend with two calls, one foreground daemon, two crashes or outages, no overlap, every wait may run out |
| `DaemonAuthorityTwoStarts` | `MCDaemonAuthority` | counterexample to `OneAuthority` | two daemons started in the foreground, overlapping |
| `DirectApprovals` | `MCDirectApprovals` | `OneOutcome`, `RefusedOnlyWhenFull`, `PendingDecidable` | four calls on two places, five decisions, one restart |
| `BlockingBridge` | `BlockingBridge` | `EventsInOrder`, `HonestEnd`, `StreamEnds` | two streams on one worker, queue of 2, three events, two late puts |
| `HudBroadcast` | `MCHudBroadcast` | `NoneMissed`, `ShowsLatest`, `RestIsFinal` | two threads, two HUDs on one place, four events |
| `Configuration` | `MCConfiguration` | `RevisionNamesContent`, `SeenBeforeWrite`, `EditsKept`, `MicrophoneStaysLocal`, `BrokenDefaultUnused`, `ServesAgain` | two pages, the settings of the speech provider, three files and three environments to begin with, two revisions, one edit at a time, one interruption, saves one at a time in the service |
| `ReverseProxyManager` | `ReverseProxyManager` | `OneProxy`, `ManagedIsNamed`, `UnheldEnds` | two threads, three processes, a foreign proxy, one restart |
| `VoiceLoop` | `VoiceLoop` | `WorkerOwned`, `AnswersIgnored`, `RecordingsDeleted`, `AskHasItsWake`, `RecordingsServed` | two processes, a queue of one, utterances of two chunks, two wake words, two recordings at a time, one microphone failure |
| `Assistant` | `Assistant` | `NothingPrivateLeaves`, `ConnectionsCounted`, `RequestsEnd` | two connections on one place and the voice loop, one memory per question, both tiers local or remote |

What they show, and why the bounds suffice:

* **Turns.** Everything hard happens between two tasks of a session and the
  handlers: a second turn that waits for the lock, a pause, a resumption that
  queues behind the other turn, a cancellation at each of these points, a
  restart that keeps the approval and loses the task.  Two turns with two runs
  each reach all of them; a batch of two lets a batch be flushed by its size, by
  a final event and by the end of the stream.  Two sessions share nothing but
  the two tables, which are keyed by turn.  The properties tie the tables to the
  tasks (`ActiveHasCause`, `RunningIsCancellable`, `AwaitingStaysActive`), the
  log to the cancellations (`LateCriticalSuppressed`) and the transcript to both
  (`TranscriptPairs`).  A message that cannot be saved is logged and the turn goes
  on, so a question may be missing, or an answer; what `TranscriptPairs` says is
  that nothing comes between the two when both are there, that no turn has two of
  either, and that none has an answer that was cancelled or denied.
  A stream may end before its last event, since the bridge gives up when a put
  times out (`server.py:1207`); the turn then ends without an outcome, and an
  approval request that was lost that way stays in the store.  `Faulty = {t1}`
  lets this happen to one turn, alone, before the other and behind it; the two
  turns differ in nothing else.  `AwaitingStaysActive` and `SubmittedSettles`
  except turns whose last stream was cut (`cut`).  `AwaitingStaysActive` speaks
  of the time until a restart, which reloads what waits; `SubmittedSettles` of
  tasks that no restart ends.
* **Event stream.** A queue of two overflows, pages of three need several
  requests, and failures hit replay, attach and live delivery.  `CatchesUp`
  excepts one case, an attach that leaves events out (history variable
  `truncated`), see section 6.  `LogSpec` is the refinement: whatever fails, the
  page's cursor grows by the next event only, and skips some at most after a
  burst that was larger than a queue or an attach page (`lossy`).  Seven events
  are two more than a full page and a full queue together.
* **Authority.** With `Overlap = FALSE` a call of the frontend or a start in the
  foreground begins only when no other call, start or stop is under way; a call
  may find a daemon that is still loading, a start or a stop in the foreground
  waits for it.  Crashes and outages come at every
  step and leave any combination of files, and a frontend's waits for a probe's
  answer, readiness, the answer to a stop or an exit may run out (`Slow`): a daemon that is
  slow looks like one that is dead, and its files are removed when it has ended.  Three daemons are what two calls
  and a foreground start can create.
* **Approvals.** Four calls on two places fill the table, free it by decisions
  and by settled calls, and race two decisions for one call.  The code's limit
  is 64; nothing depends on the number.
* **Bridge.** Three events on two places make a producer wait for room with an
  event and with the end; one worker makes the second stream wait for the first.
  `HonestEnd` and `StreamEnds` are conditional on `late = 0`: a put that the
  loop does not take within 30 s is given up.
* **HUD.** Four events are "thinking" and the outcome of two asks, in every order.
  Two threads overlap two sends with a subscription; any write may time out (2 s) and
  take its HUD off the list; a HUD that has
  gone and is not noticed keeps the one place.  `ShowsLatest` excepts HUDs in
  `stale`: their page listened after an event had arrived, or two sends
  overtook each other on the way to them.
* **Settings and configuration.** Two pages that edit, review and save the same
  settings in turn, with refused and failed saves, while kittd is started,
  interrupted at any step of its boot or of a save, and started again over what
  was left.  The settings are those of the speech provider that validation and
  migration relate: the URL, which may be local, remote or the default of an older
  version; whether the provider counts as local; and the model, where "whisper-1" is
  that model without a key and not allowed to be remote, and "other" anything else,
  so that only the first is migrated.  `Files` has today's file, that of an older
  version and one that contradicts itself, `Environments` an empty one, a remote
  provider and one that the override `KITT_STT_LOCAL_PROVIDER` calls local.  Others
  differ from these by what two saves change as well, and the theorems are about
  every file and environment.  One interruption suffices for a file that is torn, and a save
  that is cut, at every step; the start after it is a new one.
  `MaxBusy = 1` keeps the service's `PUT` handlers from
  overlapping and `BusyEdits = FALSE` edits out of a save; section 6 says what
  happens otherwise.  `ServesAgain` is about files that are whole and agree.
* **Proxy.** A start, a stop and a status of two threads in every interleaving;
  `OneProxy` and `ManagedIsNamed` hold until two requests have overlapped
  (history variable `overlap`), the other two always.

* **Voice.** An utterance of two chunks can be noise that is dropped, a command,
  or one that is cut by the length limit; a queue of one drops wake words and
  utterances; two wake words and a microphone failure let an activation id come
  twice; two processes let one caller spawn while the other kills.  The actions
  of the worker and of the two callers interleave with everything else.
  `RecordingsDeleted` excepts recordings that no event is about (history variable
  `orphans`): their event found the queue full, or the write failed half-way.
  `AnswersIgnored` is about the answers to requests; the replies to "status" and
  "repeat" have no echo guard, see section 6.
* **Requests.** Two connections on one place make one wait or be refused; the
  voice loop asks at the same time; `local` takes every combination of local and
  remote tiers, so that a question falls back from a local model to a remote one.
  One memory per question is enough, since memories go along independently of
  each other.

Each property of a passing run has a mutant that it notices, listed in
`PROJECT.json`.

## 4. Fairness

* `DaemonTurns`: the event loop runs a task that can run (`Begin`), and the
  kernel's stream does not stall: it goes on to an event that ends or pauses the
  run, or ends without one (`KernelAdvances`).  Nothing is assumed of clients, exceptions or restarts, so
  a turn may wait for a decision for ever, which `SubmittedSettles` allows.
* `EventStream`: the loops of daemon and gateway run, the network delivers, the
  browser reads and reconnects (`app.js` sets a timer after every failure).
  Recording and failures are not fair.
* `DaemonAuthority`: the operating system runs every process.  A wait that may
  run out does so or not.
* `BlockingBridge`: the executor takes what is submitted (strongly fair: with one
  worker `Take` is enabled whenever the worker is free), the iterator does not
  stall, the loop runs what is scheduled on it.  A consumer's abandonment is not
  fair.
* `ReverseProxyManager`: threads run on, and a proxy ends when its standard input
  does (it is started with `--parent-stdin-lifecycle`).  That it ever listens is
  not assumed: it waits for the user to sign in.
* `Configuration`: a boot goes on, and the service manager starts a service that
  failed (`Restart=on-failure`, `kittctl/src/service.rs`).  Users and crashes are
  not fair.
* `VoiceLoop`: threads run, sleeps and time limits end, the transcriber, the model
  and the speaker answer or time out.  Nothing is assumed of the user, the device
  or the worker.  `GuardEnds` waits for the echo to be over: the model takes
  `echo_guard_ms` to be longer than the echo lasts, which is what it is set for.
* `Assistant`: the accept loop and the handlers run, since reads, writes and
  providers have time limits.  A connection that waits is accepted in the end
  (strongly fair: while another one is being refused the loop cannot accept).

## 5. Proofs

Eight modules hold the proofs.  They state every invariant and every action
property that a run checks on a small instance, and the refinement of the event log,
for every value of the constants: from the named assumption of the module they are about (which TLC
evaluates in each run), and where the table says so from one that the theorem
states itself.

| module | theorems | beyond the module's assumption |
|---|---|---|
| `DaemonTurnsProofs` | `TypeCorrect`, `ActiveCause`, `Cancellable`, `AwaitingActive`, `LateSuppressed`, `Transcript` | |
| `EventStreamProofs` | `Survives`, `Refines`, `TypeCorrect` | |
| `DaemonAuthorityProofs` | `NamedAuthority`, `Unique`, `TypeCorrect` | the first two: `Overlap = FALSE` |
| `DirectApprovalsProofs` | `Outcome`, `Decidable`, `Backpressure`, `TypeCorrect` | `Backpressure`: the set of calls is finite |
| `BlockingBridgeProofs` | `InOrder`, `Honesty`, `TypeCorrect` | |
| `ControlCenterProofs`, on `Configuration` | `PrefixIsLocal`, `BrokenDefaultMigrated`, `Revisions`, `Seen`, `Kept`, `TypeCorrect` | `Revisions`, `Seen`: `MaxBusy = 1`; `Kept`: `BusyEdits = FALSE` |
| `ControlCenterProofs`, on `ReverseProxyManager` | `SingleProxy`, `NamedProxy`, `ProxyTypes` | |
| `VoiceLoopProofs` | `OneWorker`, `Deaf`, `Recordings`, `OneRequestPerWake`, `TypeCorrect` | |
| `KittdProofs`, on `Assistant` | `Privacy`, `Counted`, `TypeCorrect` | |
| `KittdProofs`, on `HudBroadcast` | `NoEventFallsBetween`, `LastEventIsShown`, `ThinkingGivesWay`, `HudTypes` | |

Few of these invariants are inductive.  What each proof adds, and why:

* **Types.**  `TypeOK` of `DaemonTurns` is inductive by itself.  The lemmas before
  it give the types of what the actions are built from: the row of a cancellation
  (its run is a least element of a set of naturals, from the well-foundedness of
  `<`), the holder of a lock, the rows of a flush, a new task.
* **`ActiveCause`**: no turn stays in `_active_turns` with neither a task that will
  retire it nor a decision to wait for.  The finally clause keeps a *paused* run's
  turn active and takes its task away, so one has to know that a paused run has a
  cause of its own.  `CauseInv` adds
  * `TaskHome`, a task queues on the lock of its own turn's session, so that
    looking for a turn's task in its session's line finds it;
  * `PausedEnded`, a run pauses only with the last event of its stream, so that
    no event after it takes the cause away;
  * `BegunHolds`, only a task that holds the lock has begun;
  * `PausedCause`, the turn of a paused run is not active any more, or waits for
    a decision, or has another task behind the one that holds the lock.
* **The other properties of turns** all rest on `LineInv`, which says what can stand
  in a session's line: a turn has one task there, or two while its paused run still
  has the lock and the resumption waits behind it (`Followed`); a turn that waits
  for a decision has no other task than that paused run (`AwaitedPaused`); runs are
  numbered as their tasks are created.
  * `Cancellable` and `AwaitingActive` follow from `KnownInv`, in which a turn is
    *known* when it is active or something final is recorded for it.  A finally
    clause that retires a turn can then harm no other task of it.
  * `LateSuppressed` needs that the mark in `_cancelled_turns` lives as long as the
    task it is meant for (`StoppedMarked`).  The finally clause of an earlier run
    removes it, so a cancellation must not be filed under the second task of a turn
    (`FollowerSpared`).
  * `Transcript` needs that the question of the task that streams is the last
    message (the lock keeps other turns from asking) or, when it could not be saved,
    that the turn has no message at all (`PairInv`); that an answered turn is
    settled, so that nobody can cancel or deny it later, and that the task of a
    refused turn has its events suppressed or has seen the last one.
* **`Survives`** needs only that queue and wire are sequences; what the messages
  carry does not matter.
* **`Refines`**: the stream implements `EventLog`, with `delivered` the page's cursor
  and `lossy` set once a queue or an attach page was too small.  After that
  `StreamTypeInv` is enough: whatever the page gets was recorded, so its cursor skips
  forward, never back.  Until then `StreamInv` says that there is a `top` to which
  everything was emitted (`EmittedTo`: the batches on their way to the browser hold
  every event after its cursor up to `top`, in order), and how the connection goes on
  from there (`Progress`), by the phase of the gateway: the next page or the request
  for it starts after `top` (`NextPage`); the attach response starts there and the
  events behind it go on from its end to the last row (`Attaching`); the events held
  back are those between the response and the channel (`HeldBack`); or the channel, the
  socket followed by the queue, continues `top` to the last row (`Live`).  The
  invariant has to say "every event up to the last row" because an event recorded
  during the attach is found in the channel or in the response, and in one of them only.
* **Authority.**  `OneAuthority` says nothing of daemons that start or end, so
  `AuthorityInv` follows a daemon through its life: it runs from its announcement until
  a stop begins (`RunsOnce`), takes lock, socket and pid file one after the other and
  keeps them (`TakesOver`), and two daemons are alive at once only while a newcomer
  looks at the lock of one that serves (`OneStands`).  That a frontend does not remove
  the files of a live daemon needs `OneCall` and `CallSees`: one call is under way,
  it knows the daemon that is there, and it removes files or starts a daemon only after
  the last one has ended.  Both need `Overlap = FALSE`; with overlap the run
  `DaemonAuthorityTwoStarts` shows the invariant violated.
* **Approvals.**  `PendingInv`: a call runs because it was granted, and one that may
  be decided awaits its decision.  `OutcomeInv`: a call has one outcome at most, and
  a denial only in a store that says denied.
* **Bridge.**  `BridgeInv` describes the whole way of an event: what the consumer has
  is a prefix of the iterator's events, what is queued goes on from there, no event
  follows an end, and a worker that still iterates has lost none (`Ordered`); while
  no put was late an end on its way follows every event and tells how the iterator
  ended (`Honest`).
* **Configuration.**  `UsedInv`: a profile in use was validated and is not the
  broken default, since what the overlay makes of a file is migrated once more
  (`LayeredIsNotBroken`).
  `RevisionInv`: versions known to the pages, to the file and to answers on their way
  agree where their revisions do, and a request about to be written is about the
  current one, which is where `MaxBusy = 1` is needed.  `EditsInv` ties a save on its
  way to the edits of its page, which is where `BusyEdits = FALSE` is needed.
* **Proxy.**  A start waits for its process, and a stop for the end of the one it took,
  without the manager's mutex.  `ProxyInv` therefore accounts for what a thread
  carries meanwhile: as long as requests come one by one, a process that runs with its
  input open is the manager's or its starter's, and while a request starts or stops a
  proxy the manager has none; a managed process has its preset and its start time.
* **Voice.**  `WorkerInv` is the owner property with its types.  For `Deaf`, the
  capture thread is paused exactly while an utterance is worked on (`PauseInv`), so
  that an answer is heard only by a thread that discards what it hears, and neither
  chunk, pre-roll nor segment ever holds one (`OwnInv`).
  `FilesInv`: the recordings on disk are those of the queue, of the pipeline and those
  without an event (`orphans`), and these are disjoint, so that a deletion takes no
  other's recording.
  `OneRequestPerWake` is the action property `AskHasItsWake`.  Activation ids start
  again with the microphone, so equal ids do not mean the same wake word; `WakeInv`
  rests on the order of the queue instead: an utterance behind a wake event is by its
  wake word, by a later one or by none (`InLine`), and while the pipeline awaits a
  command no wake word a coming utterance can be by has led to a request (`Awaited`).
* **Requests.**  `PrivacyInv`: whatever is stored that must not leave the machine is
  labelled so, and what goes with a question was allowed to go to the model that has
  it, also after a fallback.  `CountInv`: at most one connection is being refused at
  a time, and it is the one the counter counts beyond those served.
* **HUD.**  A HUD subscribes in three steps under the mutex of the list, and an event
  is stored before its sender looks at the list and written after that, so the
  invariants speak of HUDs that are about to join the list as well.
  `ListInv` and `PlacesInv`: who is in the list has subscribed, and who is about to
  join it has a place there.  `NoEventFallsBetween` follows from
  `MissedInv`: for a HUD in the list, or about to join it with the replay done,
  every event came before the one replayed, was delivered, or is `Coming`, its sender
  not having looked at the list yet or having this HUD still to write to or to take off
  the list.  `LatestInv`: the last thing in the
  inbox of a HUD, or what it shows, is the greatest event delivered to it, unless it is
  `stale`.  `ThinkingInv`: the last event is "thinking" only while an ask that
  sent it has yet to send its outcome.

Only model-checked is liveness (`SubmittedSettles`, `CatchesUp`, `StartServes`,
`StopEnds`, `StreamEnds`, `ServesAgain`, `UnheldEnds`, `RecordingsServed`,
`RequestsEnd`): TLAPS reaches neither `ENABLED` nor leads-to under fairness.

## 6. Where code and documents disagree

Two disagreements have a run of their own.

* `DaemonTurnsSingleTerminal`: `CHANGELOG.md:296` says that a cancellation "owns a
  single terminal notification".  An approval queues a resumption; the turn is
  cancelled before that gets the lock; the paused run's finally clause takes the
  turn out of `_cancelled_turns`, and `_continue_turn` (`server.py:2044`) makes it
  active again and records another outcome.
* `DaemonAuthorityTwoStarts`: a lock file exists before its pid is written
  (`transport.py:431-447`).  A second daemon that reads it in between takes it for
  stale, removes it and starts as well (`transport.py:456`).

The models show the following as well.  The definition is in the module; the
constants say in which instance TLC finds it violated.

| definition | constants | what happens | what is said |
|---|---|---|---|
| `DaemonTurns!NoLateEvents` | as in `DaemonTurnsSingleTerminal` | events in the batch at a cancellation are flushed after it when the stream ends before its next event (`server.py:1994`) | `CHANGELOG.md:296`: "late producer events cannot appear after the cancellation" |
| `EventStream!OverflowReplayed` | `QueueMax = 2`, `PageLimit = MaxEvents = 8`, `MaxFailures = 0` | a full queue closes the writer and stays subscribed; later events are delivered on the closing connection and move the cursor past the dropped one (`server.py:1914`) | the comment there: the "next attach replays all missing events" |
| `EventStream!AttachReplaysAll` | `QueueMax = 6`, `PageLimit = 2`, `MaxEvents = 5`, `MaxFailures = 0` | `gateway.py:206` does not look at `has_more`: after more than a page between the last page and the attach the rest is never emitted | `gateway.py:183`: "prevents ... a large historical gap" |
| `DaemonAuthority!StartingKept` | two frontends, three daemons, `MaxCalls = 2`, no crash, `Slow = {}`, `Overlap` | the second start's daemon is refused, and its frontend removes the files of the first, which is loading (`process.py:328`) | `process.py:198`: "Do not stop an authenticated daemon that is still initializing" |
| `DaemonAuthority!StartNeverStops` | the same | a daemon that becomes ready between the two probes is asked to stop (`process.py:204`) | the same |
| `DaemonAuthority!StopCompletes` | one foreground daemon, `MaxCalls = 1`, all of `Slow`, `Overlap` | the run loop returns while `stop()` closes the runtimes; `asyncio.run` cancels it (`process.py:32`) | `process.py:41`: "the coroutine's finally block closes the server/runtime" |
| `DirectApprovals!PendingDecidable` without `restarts = 0` | as in `DirectApprovals` | after a restart the request is PENDING in the store and neither listed nor decidable (`server.py:317`, `836`) | runtime `README.md:52`: "remains listable/decidable" |
| `HudBroadcast!ThinkingKeepsHud` | `MaxSubscribers = 2`, `MaxEvents = 2`, `Silence` | the HUD's 30 s read timeout ends it during a long model call (`apps/kitt-hud/src-tauri/src/lib.rs:82`) | `apps/kitt-hud/src/main.ts:22`: a HUD must not end "while a later thinking/responding state is still active" |
| the same | `MaxSubscribers = 2`, `MaxEvents = 4`, no `Silence` | the text of an older ask is written after the "thinking" of a later one, and its time to live ends the HUD (`apps/kittd/src/main.rs:166`) | the same |
| `SettingsOverlay!RevisionNamesContent` | `MaxBusy = 2` | two `PUT`s read the overlay before either replaces it: both are accepted under one revision (`settings_web.rs:217`) | `README.md:103`: "revisioned atomic configuration overlays" |
| `SettingsOverlay!ReviewedBeforeWrite` | `BusyEdits = TRUE` | an edit made while the preview is on its way is written without having been in the diff (`control-center-web/app.js:1163`) | `README.md:103`: "a diff viewer before writes" |
| `ReverseProxyManager!OneProxy` without `~overlap` | as in `ReverseProxyManager` | two starts pass the check before either registers its child (`settings_web.rs:952`) | `settings_web.rs:954` refuses a second start |
| `Configuration!SavesStayBootable` | as in `Configuration` | two saves that are valid one by one give a remote URL to a provider marked as local; kittd does not start with it, and the Control Center that could mend it is part of kittd (`settings_web.rs:450`) | `README.md:103` offers the overlays as the way to configure it |
| `Configuration!ShownIsUsed` | the same | a setting that the overlay does not name is shown with the catalog's default, whatever `models.json` says (`control-center-web/app.js:79`) | the page presents it as the current value |
| `Configuration!ServesAgain` without `Bootable` | the same | `models.json` is written in place (`model_config.rs:169`); a torn one is fatal at every later start | `README.md:103`: "atomic", which is true of the overlay only |
| `VoiceLoop!SttOnlyAfterWake` | as in `VoiceLoop` | the segmenter records every utterance and the pipeline transcribes it before it looks whether a wake word preceded (`voice.rs:1323`) | `docs/VOICE.md:46`: "STT is invoked only after local activation" |
| `VoiceLoop!OwnVoiceIgnored` | the same | the replies to "status" and "repeat" are spoken, and the microphone is listened to again, without the echo guard that follows an answer (`voice.rs:1443`, `voice.rs:1458`) | `docs/VOICE.md:137`: "discarded while KITT is speaking and for a short echo guard afterwards" |
| `VoiceLoop!NothingLeft` | the same | a recording whose event finds the queue full is not removed (`voice.rs:860`), nor what `write_wav` has written when it fails (`voice.rs:1842`); both stay until a later start of the voice loop finds them old (`voice.rs:594`) | `docs/VOICE.md:142`: "deleted immediately after transcription" |

Reading the code for the models showed some more, which the models abstract or
permit: a turn whose stream ends before its last event gets no outcome
(`server.py:1994`), and a question that could not be saved is answered all the
same (`server.py:1934`); the instant command
"cancel" cancels nothing that is under way; `WARMUP_RUNNING` stays set when the
warm-up thread cannot be spawned (`voice.rs:1236`); a caller whose time is up
kills a worker the other one waits for, whose recording is then dropped;
`hud_ttl_ms` and `tts_enabled` are marked `live` in the catalog and read at boot
only; forgetting a memory leaves the episodes that repeat it.

## 7. Not modelled

* The agent kernel, the approval store, tools and the memory store belong to
  packages outside this repository; they appear as nondeterministic environments.
* Redaction, framing, formatting and validation of texts and paths keep no
  state.  The HTTP and WebSocket layers appear as channels.
* Permissions of the files under `.kitt`, releases of different versions (a
  start that replaces an older daemon) and `get_daemon_status` (read only).
* Goal-owned approvals and automatic contracts in the turn engine: what they do
  is decided by the agent package, the daemon forwards the calls.
* A connection that attaches to a second session, and detaching.
* Time limits of single client requests: the outcome they leave open depends on
  the caller, a person at a terminal.
* Pairing, sessions and limits of the remote server: each operation holds one lock
  from its first look to its last change, and nothing waits for another one.
* Of the settings all but those of the speech provider: they are read, merged
  and validated alike.  `auth.token` and `memory.db` are created once.
* What the microphone hears below the level of chunks, the texts that the
  wake-phrase matcher compares, and the choice among speech backends.
* Installing and removing the service, which calls the system's manager.
* Packaging, schemas, markup and rendering.
