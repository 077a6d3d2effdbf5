# Prana OPS in TLA+

Prana OPS watches terminal sessions of coding agents on remote hosts, tells the
sessions that need a human from the ones that work, notifies the operator and
delivers the answer back into the session. This directory holds TLA+ modules that
model the program, TLC configurations that check them on small instances, and
proofs that TLAPS checks for every value of the constants.

## The system

| Part | State it keeps | Operations | Talks to |
|---|---|---|---|
| Watcher store and handlers (`watcher/watcher.mjs`) | SQLite: `events`, `decisions`, `session_state`, `dedup` | `POST /hook`, `PATCH /decisions/:id`, `ingestCandidate`, `applyHeuristicState`, `applyClassification`, `checkAndRecordDedup` | hooks (curl), the poller (ssh + curl), the three layers below |
| Scanner, layer 2 (`scanner.mjs`) | one in-memory record per log file | `scanOnce` on a timer | the store, synchronously |
| Classifier, layer 3 (`classifier.mjs`) | sessions with a call in flight | `maybeClassify`, fire and forget | the LLM, the store |
| Notifier (`telegram.mjs`) | decisions with a send in flight | `maybeNotify`, `sweepUnnotified` on a timer | Telegram, the store |
| SSH ConnectionManager (`server/src/ssh`) | a pool of connections for each profile, channels, backoff timers | connect, disconnect, open, write, resize, close, relocation, reconnection | ssh2, everything on the server through events |
| Local manager and profile router (`server/src/local`, `server/src/transport`) | PTYs, child processes, channel routes | the same contract | the session manager, the WebSocket server |
| TmuxSessionManager (`server/src/tmux`) | metadata rows, reconciliation timers, rearm attempts | create or attach, adopt, reconcile, kill, rearm pipes | a control channel, SQLite |
| WatcherPoller (`server/src/watcher/poller.ts`) | last snapshot and one timer chain per profile | start, stop, poll, patch | the watcher through ssh |
| DecisionResponder (`responder.ts`) | confirmation tokens | respond | tmux through ssh, the poller |
| Wiring and boot (`wiring.ts`, `index.ts`) | subscriptions | start and stop polling and reconciliation on connection state | all managers |
| WebSocket server (`server/src/ws`) | profiles and channels of each socket | one handler for each message, cleanup on close | all managers, the browser |
| Web client (`web/src`) | tiles, output batches, watcher snapshot, coverage | React hooks and components | the WebSocket server |

### What is hard

* Four writers share the decision queue: hooks, the scanner, the classifier and the
  operator. Handlers are atomic on the event loop, but LLM calls, Telegram calls and
  sweeps span many of them, and the operator acts on a snapshot that may be stale.
* A hook is evidence and a heuristic is a guess. The precedence between them (ADR 002)
  is spread over three guards.
* A notification must survive a crash, and Telegram gives no exactly-once delivery.
* On the server, reconnection, refusal of channels and late callbacks of old clients
  meet user actions; timer chains re-arm themselves after an `await`.
* In the browser, history and live output reach a tile through different messages.

### What makes each part correct

* **Watcher**: at most one unread decision per session; no unread decision on a session
  that a hook vouches for as calm; a session that waits has a decision; settled
  decisions do not change; heuristics do not talk a hook down; a pending decision is
  notified in the end and each message is sent once, lost answers and restarts apart.
* **ConnectionManager**: no shell runs that no channel holds; a terminal survives drops,
  refusals and failed openings and is attached again before it takes input; one reconnect
  at a time and one TCP connection for each pool connection; the pool grows under refusal
  only; no channel is acknowledged on a dead connection.
* **TmuxSessionManager**: a row turns to error on the word of the host only; rows, pipes and
  hook coverage end up telling the truth whatever stale list or lost command came between;
  the loop of a profile that is not connected ends, and one whose timer is kept has not ended.
* **Poller and wiring**: the panel ends up showing what the watcher says, or that it does not
  answer; the polls of a profile that is not connected end.
* **Responder**: what is typed at high risk is what the operator saw and confirmed; one
  challenge types once; nothing is reported sent that was not typed; every answer is told.
* **WebSocket server and routers**: a channel goes with its socket, its test or its profile;
  every open is answered; a page that says it reconnects does so for a fault that lasts.
* **Web client**: the tiles of a page and the channels of its socket agree.
* **Tile and batcher**: every chunk once and in order, no history behind what came since it was
  asked for; nothing is held back for good.

## Modules

`WatcherStore` <- `Classifier`, `Notifier` <- `DecisionQueue` <- `Scanner` <- `Watcher`
(each EXTENDS the ones before it); `MCWatcher` gives TLC its instances and
`WatcherProofs` and `QueueProofs` hold its theorems.

| Module | Models | State | Actions |
|---|---|---|---|
| `WatcherStore` | the tables and the statements that write them | `now`, `states`, `decisions`, `lastId`, `dedup`, `shown` (the end of each log) | row operators: `Upserted`, `Heuristic`, `Released`, `Drained`, `IsDuplicate`, ... |
| `Classifier` | layer 3 | `requests`, `callsToday` | `MaybeClassify`, `ClassifyFails`, `ClassifyAnswers`, `Midnight` |
| `Notifier` | Telegram | `sending`, `delivered`, `lost` | `MaybeNotify`, `SweepNotifies`, `TelegramAccepts`, `SendSucceeds`, `SendFails`, `SendRetries` |
| `DecisionQueue` | the handlers | - | `IngestCandidate`, `Hook`, `Patch` |
| `Scanner` | layer 2 and the logs | `logs`, `unread`, `fileStates`, `scanning`, `asOf` | `ScanBegins`, `ScanFile` and the terminal: `Write`, `Repaint`, `LogRemoved` |
| `Watcher` | the daemon in its world | `crashes` | all of the above with their frames, `Tick`, `Restart` |

`ConnectionManager` stands alone; `MCConnectionManager` gives it small instances. It models
one profile (the pools of two profiles share nothing):

| State | In the code |
|---|---|
| `conns` | the `ProfileConnection`s ever made, in pool order; `disposed` ones have left the pool |
| `timers` | the callbacks handed to `scheduler` and not run yet, for each connection |
| `clients` | every ssh2 `Client`, with the connection whose handlers `wireClient` gave it: events belong to a Client, not to a connection |
| `channels` | the `ChannelRecord`s; `home` is the connection whose map holds the record, `stream` the Client of its live stream |
| `announcing` | the connection whose `connected` is being told in the middle of `ready`, while its listeners run |
| `requests`, `again` | `shell()` calls without callback yet, and those of them that are out twice for one record |
| `shells`, `strays` | the shells the sshd runs, with what was typed first, and the older shell of a record that got two |
| `ceiling` | `observedCeiling`, 0 for undefined |

`OpenChannel`, `SendData`, `CloseChannel` and `Disconnect` are the public methods; `Ready` and
`Reopens` are the two halves of `ready`, before and behind the listeners of `connected`, and
`HandshakeFails`, `Drops`, `Closes` the other events of a Client; `ShellOpens`, `ShellFails`,
`ShellRefused` the outcomes of the callback in `openStream`; `RemoteCloses` the close event of
a stream; `TimerFires` the backoff. `pickConnection` is the set `WithRoom`, of which the first
in pool order is taken, or none and a connection is spawned.

The modules of the server and the browser, each of one profile:

| Module | Models | State | Actions |
|---|---|---|---|
| `Sessions` | `TmuxSessionManager`, the rows of `session_metadata`, the delete route, the wiring of the reconciliation | `rows`, `rearms`, `hookless`, `foreign`, `handle` (the timer that `reconcileTimers` keeps), `tasks` (each chain and other asker with the query it awaits), `up`, `opened` (sessions whose channel may attach again), and of the host `host`, `births`, `deaths` | `Fires`, `reconcileOnce`, `listPipeStates`, `rearmPipe`, `refreshHookCoverage`; `Connected`, `Reconnecting`, `ClosedOrError`; `adoptExistingSessions`, `createOrAttach`, `DeleteSession`, `killSession`; `HostRuns`, `HostKills`, `HostAttaches` and what happens on the host by itself |
| `Panel` | `WatcherPoller`, `DecisionResponder`, the `decisions:*` messages, `useWatcher` and the buttons of the panel, the wiring of the polling | `poll` (the `ProfilePollState`), `rounds` (timers and queries that are out), `tokens`, `asks` (each click and how far it is), `typed`, `page`, `watcher`, `session`, `link` | `startPolling`, `TimerFires`, `PollEnds`, `LinkLost`, `LinkError`; the clicks; `Challenged`, `Responds`, `SendKeysEnds`, `patchDecision`, `audit`; `TokenExpires`, `Reload`; the host |
| `Console` | the tiles of the pages, the WebSocket server's channels and tests, `ProfileConnectionManager`, `LocalConnectionManager` and the outside of the SSH manager | `tiles`, `banners`, `sockets` (`socketChannels`), `wires` (messages under way to the server), `channels`, `routes` (`channelRoutes`), `tests`, `pool` (the state of each connection), `gone`, `orphans` | the clicks, one action for each outcome of a message, `SocketFails`, `SocketClose`, `PageLoads`, `Connected`, `Reconnecting`, `GivesUp`, `Spawns`, `Disconnect`, `handleNaturalClose` |
| `OutputStream` | what a tile promises of the output (abstract) | `line`, `queue`, `shown`, `mark`, `replayed` | `Receive`, `Show`, `Replay`, `Cut`, `Resume`, `End` |
| `Terminal` | `TerminalTile`'s history gate, `OutputBatcher`, the outcomes of `history:request` | `historyPending`, `pendingBuffer`, `historyTimeout`, `wasReconnecting`, `buffer`, `timer`, `output`, `requests` | `ChannelData`, `flush`, `HistoryResult`, `HistoryError`, `HistoryTimeout`, `StateReconnecting`, `StateConnected`, `Unmount` |

`Terminal` implements `OutputStream` under the mapping `line` <- whether the tile is there and
was told of a drop, `queue` <- the batcher's buffer and behind it what waits at the gate,
`shown` <- what the batcher wrote. `MCConsole` puts `Console` and `Terminal` into one run, and
`MCServer` does it with `Sessions` and `Panel`: the two share no state, and each behaviour is one of
the one or of the other, under the fairness of its part. Each module has its
theorems in one of its own: `ManagerProofs` (of `ConnectionManager`), `SessionsProofs`,
`PanelProofs`, `ConsoleProofs`, `TerminalProofs` (with the refinement) and `MCConsoleProofs`, which
joins the last two.

### How the code is read

* One handler is one action: Node runs it to its end, and better-sqlite3 is synchronous.
  An `await` (LLM call, Telegram call, pause between attempts) splits a handler.
* A pass of the scanner is one callback too, but it is modelled file by file, because the
  terminals write while it runs and `now` moves. `LoopFree` keeps every other handler of
  the daemon out until the pass is over; terminals, the clock and Telegram's side of a
  call go on.
* A question, the text shown for it and the last lines of a terminal are one value
  (`Screens`, of which `Questions` match a decision pattern). A hash of the last lines is
  then the screen itself.
* `updated_at` and `state_since` are ticks; comparisons keep their strictness.
* `risk` may be absent in a payload, and then it is high.
* A PATCH carries a status of `VALID_ACTIONS` of `poller.ts` and any id of the table,
  also of a decision long settled: the operator's snapshot may be old.
* A restart keeps the SQLite tables and the logs and loses the rest, also in the middle
  of a pass or of a call. A crash between two statements of one handler is not modelled.
* In the transport, `openChannel` and the first write of its caller are one action:
  `createOrAttach` and `runQuery` make both without an await. Of what is typed only the order
  matters: `init` is the attach command (or the query), `input` everything else.
* An error on a connection that was up is followed at once by its close (the socket is
  destroyed), so `Drops` is both. A failed handshake may leave the socket half closed, so
  `HandshakeFails` and `Closes` are two steps. Whether the second may come after the backoff is
  the constant `CloseLags`.
* A refusal may come at any time (`MaxSessions` is not the only reason of an sshd); whatever
  is refused while no stream is live teaches nothing, as in the code. Every open failure of
  ssh2 has `Channel open failure` in its message and counts as a refusal; `ShellFails` is what
  comes later, a pty or shell request denied.
* A query of the host (`runQuery`) is three steps: it is asked, the host runs it, the answer or
  the time-out is handled. So an answer may be stale when it is handled, and a command may
  have run although its caller was told null. The order of the queries of two chains is free.
* The one timer that the code keeps for a profile (`reconcileTimers`, `state.timer`) is kept
  apart from the timers that run: stopped and started in the middle of a tick, a profile has
  two chains, and the handle of one of them only.
* A message of the server is handled by the page at once, and the delay of a socket is all on
  the way to the server. Each order of events that a page or the server can tell apart is
  still there: a later delivery is a later emission.
* In `Panel`, the order of the operator's texts on the wire is kept; the text that the page
  confirms (`pendingText`) and the text of the command it shows are two fields, because the
  code takes them from two places.
* `ready` is two steps, because its listeners run in between and open channels; until the second
  step nothing else happens (`Settled`).
* In `Console` the pool is the state of each connection, as `setState` tells it under the id of the
  profile; which of them carries a channel is left out, and `ConnectionManager` says what a pool
  does behind that. The manager of the host itself has one connection, up from the first channel on.
* The tile hears the states of every connection of its profile and only one carries its channel, so
  output may come between a `reconnecting` and the `connected` that follows.
* In `Terminal` a chunk is a number, and a history is known by whether it was written. `mark` and
  `replayed` are history variables, for the mapping.
* Operators commented as faulty variants are not used by the specification. They are
  the bugs each property is tried against.

## Runs

| Run | Instance | What it shows |
|---|---|---|
| `scanner` | 1 session, 2 one-line questions, 2 decisions, 2 ticks, windows of 1 tick, 1 restart, clicks `seen` and `answered` | `OnePendingPerSession`, `CalmMeansNothingPending`, `WaitingHasDecision`, `SettledStaysFrozen`, `HookNeverDemoted` for every order of hooks, scans, clicks and a restart; `FreshQuestionIsAsked`: a question whose screen was not seen within the window is asked with its own text, whatever the session's earlier decisions |
| `classifier` | 2 sessions (symmetric), structured and native hooks, cap 1, 3 decisions, 1 restart, the clock standing still | `TypeOK`, `CapOvershootBounded`, `SettledStaysFrozen` with LLM calls that outlive the decision |
| `delivery` | 1 session, 1 decision, 3 attempts, 1 lost answer, 1 restart, fairness | `DuplicatesAccounted`, `EventuallyNotified` |
| `pool` | 3 channels (sessions and queries, one opened inside `connected`), 2 connections, 3 Clients, 2 failures, 1 reconnect attempt, reserve 1, `CloseLags = FALSE` | `TypeOK`, `NoLeakedShell`, `SessionsAttached` (attached once, first, and with nothing that waits behind a live stream), `ReconnectIsSerial`, `OneTcpPerConnection`, `PoolGrowsUnderRefusal`, `TerminalsAreKept`, `RefusalsMoveOn` |
| `server` | either 1 session, 2 chains, pool of 2, 1 rearm attempt, 1 event of the host, 1 of the links, 1 order of the operator; or 1 decision, 2 texts, 3 polls, 3 clicks, 3 clicks and faults in all | `SessionsTypeOK`, `EntryHasALoop`, `ErrorNeedsAList`, `RowsTellTheTruth`, `PipesAreHealed`, `HooksTellTheTruth`, `StoppedLoopEnds`; `PanelTypeOK`, `ConfirmedIsTyped`, `OneTypingPerChallenge`, `ReportedIsTyped`, `EveryAnswerIsTold`, `PageFollowsWatcher`, `StoppedPollEnds` |
| `console` | 2 pages, 2 sessions, a pool of 2, 3 channels, 4 clicks and faults; a tile with 4 chunks and 2 drops | `TypeOK`, `TilesAndChannelsAgree`, `NothingOutlivesItsSocket`, `BannerMeansAFault`, `EveryOpenIsAnswered`; `TerminalImplementsStream` (the refinement), `EveryChunkIsShown` |
| `dead_ack` | violation of `NoDeadAck` | a channel is acked on a dead connection of a pool that has another |
| `stale_client` | violation of `OneTcpPerConnection`, `CloseLags = TRUE` | the late close of an old Client is taken for one of the new |
| `leaked_shell` | violation of `EveryShellIsHeld` | a query opened inside `connected` gets two shells |
| `hook_lock` | violation of `LockReleasedByHookOrOperator` | the scanner takes a hook's row over |
| `low_risk` | violation of `LowRiskIsHarmless` | a new question inherits the low risk of the old one |
| `same_prompt` | violation of `WaitingHasDecision` with two sessions | dedup is not per session |

**Bounds.** `MaxDecisions`, `MaxTime`, `MaxLost` and `MaxCrashes` cap counters the code does
not cap. A handler that would create a row beyond `MaxDecisions` is not taken. Two
decisions of one session are enough for every pair of open, settled and resurrected
rows; two ticks with windows of one let the dedup and the stall window be inside, at
the edge and over; one restart reaches every point of every call. In the `scanner` run a
question is a one-line pattern (found anywhere in the delta), in `delivery` it is a long one (found at
its end only). The clicks of the `scanner` run are `seen` and `answered`: `dismissed` is the other
closed status, which nothing tells from `answered`, and the other runs have it. In the `classifier` and `delivery` runs the clock
stands still: their properties do not depend on a window, and the age guard of the
heuristics, which needs a moving clock, is exercised in the `scanner` run. The third
decision of the `classifier` run lets one session settle a decision, raise another and have
a call in flight for the old one while the other session waits at the cap. Deadlock is checked in the watcher's runs: a terminal
can always write or a hook always arrive.

In `pool`, two connections and one relocation for each channel give every way of moving; the
third channel is the one that arrives once a ceiling is known, or is refused by a
connection that has a live stream beside it. Two failures reach a drop followed by a failed redial, which with one attempt is
giving up. Three Clients are two of one connection and one of the other, or a connection that is
redialled twice; a step that would need a fourth, or a third connection, is not taken.
`MaxAnnounced = 1`: one query of a listener has all of its two shells' orders against two other
channels. `MaxRelocations` is what the code says, 1. The runs of the transport
do not check deadlock: after a disconnect, with the bounds used up, nothing is left to do.

In the first part of `server`, sessions do not interact but through the order in which one loop rearms them, so
one session shows each of them; the model takes any number. One event of each kind is enough
for the worst orders known: a list taken before a connect and handled after it, a kill that is
lost, a profile stopped and started in the middle of a tick (two chains), a pipe that dies
again. `MaxRearms = 1` makes the limit bite at once. In the second part, three clicks are a challenge, its
confirmation and a second one of the same token, or two answers that challenge each other;
two of the polls may belong to chains, one to a PATCH. A poll after a PATCH is left out when
the three are in use, and `startPolling` waits for two that are free. Nothing tells the two texts
apart, so the first that is answered is the same in all behaviours (`FirstTextIsYes`). In `console`, three channels
are two sessions and a duplicate or a test; a click that would need a fourth is not taken
(`ChannelsLeft`). Four events are two opens with a drop of one connection and a fault beside it;
the connects and the second connection of the pool cost none. Four chunks and two drops put a chunk on each side of each gate. In these
runs deadlock is not checked: with the clicks and faults used up, nothing is left to do.

**Fairness** (`FairSpec`, in `delivery`). `ScanStep` is weakly fair: `setInterval` fires and a
pass ends. Sweep, retry, Telegram's acceptance and the arrival of its answer are strongly
fair for each decision: their timers and promises are handled between two passes,
during which they are disabled, so weak fairness would let them starve behind an endless
sequence of passes, which the event loop does not do. Strong fairness of acceptance says
that Telegram is not out of reach for ever. Nothing is assumed of hooks, terminals,
operator, LLM or restarts.

`SessionsSpec` and `PanelSpec`: timers fire, a host that is connected runs what it is asked, and an
answer or its time-out is handled (`runQuery` always ends). `ConsoleSpec`: the event loop comes to
each message and each close, and a test ends by its timer. `TerminalSpec`: the two timers of the
tile fire; the server need not answer. All weak: what is enabled stays enabled until it is
done. Nothing is assumed of the operator, of the connections or of the sockets: the liveness
properties of `Sessions` and `Panel` say what happens once a profile stays connected, or stopped.

**Single session.** `WaitingHasDecision` is checked with one session; with two it is false,
which is the run `same_prompt`. `WaitersAreQueued` (below) says what it takes with
any number of sessions: no two terminals show the same last lines.

## Where code and documentation part

In the transport: `dead_ack` (`connection-manager.ts:334` against the comment at 526) and
`stale_client` (`connection-manager.ts:433` against the invariant of the header). Read off the
code: line 88 promises `channelClose` for a remote close, and no code emits it; the branch
for `target === conn` at 386 is only taken by a channel that a listener of `connected` opened, whose
own first shell is among the live ones (`RefusalsMoveOn` excepts it). And `leaked_shell`
(`connection-manager.ts:421` against 420 and 615): the query that polling or adoption open inside
`connected` gets a second shell, and the first is lost to the sshd's limit until the connection
ends. `NoLeakedShell` says that no other channel loses one.

On the server and in the browser, read off the code while modelling and reachable in the
models, without a run of their own:

* The state of one connection of the pool is told as that of the profile (`connection-manager.ts:808`),
  against the reading of `stateOf` at 786 ("o profile está `connected` se QUALQUER conexão está"): the
  drop of one puts the banner on the tiles of the other, which is up.
* The tile takes the `connected` of any connection of its profile for a new attachment of its own
  channel (`TerminalTile.tsx:282`, "Reconnected: same channelId reattached") and writes the history
  again behind output of the same attachment. The `Resume` of `OutputStream` is that of any connection.
* `createOrAttach` opens the channel before it writes the row (`session-manager.ts:410-446`). When the
  row cannot be written, the channel is in no `socketChannels` and nothing closes it. The set
  `orphans` of `Console` is the exception that `NothingOutlivesItsSocket` makes for it.
* `handleDeleteSession` (`App.tsx:176`) takes the tile and leaves its channel, unlike
  `handleCloseTile`. The orphan keeps its init command: when an SSH connection comes back, the
  command creates the deleted session again, and the adoption gives it a row. The set `left`
  of `Console` is the exception that `TilesAndChannelsAgree` makes for it.
* A stop and a start in the middle of a tick leave two chains (`session-manager.ts:599`,
  `poller.ts:249`), while `wiring.ts:46` calls both idempotent. `StoppedLoopEnds` and
  `StoppedPollEnds` say that they end with the next stop; with a poll that was still out, the
  page may be told by the old one last (`PageFollowsWatcher` excepts `overlap`).
* An `error` of one connection of a pool stops the loops of the profile (`wiring.ts:88`) although
  the others are up.
* Nothing on the page handles the `channel:close` of the server: the tile of a session whose
  channel ended stays (the set `ended`).
* The tile knows `reconnecting` and `connected` only (`TerminalTile.tsx:271`): when the attempts are
  over, it says that it reconnects for good. `BannerMeansAFault` therefore asks that some connection
  of the profile is redialled or given up, not that it will be up, nor that it is the tile's own.
* A connection test listens only behind `openChannel`. A key that cannot be read is told inside
  it, so the test ends by its time-out (`ws/index.ts:595`, `connection-manager.ts:455`).
* A PATCH whose channel cannot be opened rejects the answer: it is told as failed, without audit,
  although its keys were sent (`poller.ts:308`).
* `killSession` forgets the row when the command was not answered (`session-manager.ts:545`): a
  session that lives on is adopted by the next connect.
* The answer to a history request has no number, so an old one answers a newer request, and a
  new request drops what waited at the gate (`TerminalTile.tsx:184`); with a drop it is in the
  history anyway. `OutputStream` allows both (`Resume`).
* `SessionForm` opens a session that is open already: a second channel, whose ack is dropped and
  closed. The page does not open a socket again that failed.

In the watcher, shown by runs: `hook_lock` (`watcher.mjs:404` against ADR 002, decision 4), `low_risk`
(`watcher.mjs:386`), `same_prompt` (`watcher.mjs:446`). Read off the code, without a run:

* `telegram.mjs:18` says one decision is one notification, guarded across restarts. The mark
  is written after the answer, so delivery is at least once; `DuplicatesAccounted` says by
  how much.
* README line 110 calls the daily limit of the classifier a ceiling. Only calls that have
  ended count (`watcher.mjs:333-340`), so it is overshot by the calls in flight;
  `CapOvershootBounded` says by how much.
* ADR 002, decision 3, describes a shield that covers the waiting state; the code since
  Story 2.18 shields every state of a hook (`watcher.mjs:432-436`).
* A `seen` click on an old snapshot reopens an answered decision (`watcher.mjs:606`), while
  `watcher.mjs:349` calls answered decisions out of the queue.

## Proofs

`WatcherProofs`, for all constants that satisfy the named assumptions (`StoreAssumption`,
`ClassifierAssumption`, `NotifierAssumption`, `PayloadAssumption`, `ScannerAssumption`,
`WatcherAssumption`):

* `TypeCorrect`: `Spec => []TypeOK`.
* `DuplicatesBounded`: `Spec => []DuplicatesAccounted`.

Neither invariant is inductive alone. A retry adds one to the attempt, so its range needs
that only a send with an attempt left pauses; writing `notified_at` needs that what is
being sent is a row of the table (both in `SendsOK`); and the bound on copies holds step by
step only if the copy that `notified_at` stands for, or is about to stand for, is counted
(`CopiesCounted`). `NotifierInv` is their conjunction, and TLC checked it on the instances
of the runs before it was proved. The steps outside of the notifier are brought under one
predicate, `KeepsSends` (they keep every mark and may start the first call of a new row),
so that the argument about copies is made once for all of them.

`QueueProofs` builds on `NotifierInv`, under the same assumptions:

* `OnePending`: `Spec => []OnePendingPerSession`.
* `SettledForGood`: `Spec => SettledStaysFrozen`.
* `HooksOutrank`: `Spec => HookNeverDemoted`.
* `NoGhostQuestions`: `Spec => []CalmMeansNothingPending` when no payload declares a state of
  its own. `ckpt-hook.sh` declares none; a payload that says `idle` without an event that
  goes on leaves the queue alone, and the property is then false.
* `CapHolds`: `Spec => []CapOvershootBounded` for a finite, non-empty set of sessions.

The arguments share their form. A lemma for each handler says what the handler may do to
the table (`TableStep`: keep or settle rows, relabel one, reword a pending one, mark one,
absorb a candidate, create a row where nothing of the session is open), to a session's row
(`RowStep`), to the calls (`CallsStep`) or to both at once (`CalmStep`); then the invariant is
shown from that shape alone, once. `OnePendingPerSession`, `CalmMeansNothingPending` and
`CapOvershootBounded` are inductive on top of the types; `HookNeverDemoted` needs that a row
written by a hook has a state (`HookRowsExist`), because the heuristics take any row
without one. The `scanner` run checks `HookNeverDemoted` with the scanner's heuristics; that a late
answer of the LLM keeps it as well is covered by the theorem.

The last two:

* `FreshQuestionsAreAsked`: `Spec => FreshQuestionIsAsked`. What the scanner has not read keeps its
  first match whatever is written behind it (`WriteKeepsQuestion`), the pass that reads it raises it
  (`ScanFileQuestions`), and a raise that is no repeat leaves the text in an open row of the session
  (`IngestQuestions`), new or not. That the pass comes is the timer's, and not part of it.
* `WaitersAreQueued`: `Spec => []WaitingHasDecision` under `OwnScreens`: no two terminals show the
  same last lines. One session satisfies it whatever it shows (the `scanner` run), two sessions
  may; the run `same_prompt` is the case that does not, since the dedup table is keyed by the lines
  alone (`watcher.mjs:447`, `scanner.mjs:265`).

A session waits on the word of the scanner because a candidate was raised, and a raise leaves no
row only if the screen was recorded before. So `WaitInv` says where the rows are: a recorded
screen belongs to a session that has one (`DedupOK`), a call to the LLM is made for such a session
(`CallsOK`, as its answer may say that the session waits), what the scanner holds and reads was
printed by that session's terminal (`TailsOK`), and a session that waits has a row (`WaitsOK`).
`Backed` is what every handler does to all four, and rows never go away (`RowsStay`).

`TerminalProofs`, under `TerminalAssumption`:

* `GateHolds`: `TerminalSpec => []TerminalInv`.
* `TileImplementsStream`: `TerminalSpec => TerminalImplementsStream`, the refinement.

What it promises is the order that the tile can keep: no history behind output that was received
since that history was asked for. That it was asked for because the channel is attached anew is not
part of it (see above, `TerminalTile.tsx:282`).

The initial states map to initial states; every step maps to one of `OutputStream` or to a
stutter. The only step that needs an invariant is the one that writes a history: `Replay` may
only come before what was received since, and that nothing of it is on the screen or in
the batcher while the gate is closed is `GateOK`. `OpenGateStream` makes the argument once for
the three ways in which a gate opens, and two lemmas on sequences say what an append and a
flush do to the queue that batcher and gate are together. `mark`, a history variable
of both modules, counts what was kept of the output before the last request.

`ConsoleProofs`, for any pages, sessions and bounds (`ConsoleAssumption`, which only the types
need):

* `ConsoleKeepsInv`: `ConsoleSpec => []ConsoleInv`.
* `NoChannelLeaks`: `ConsoleSpec => []NothingOutlivesItsSocket`.
* `NoStrayTiles`: `ConsoleSpec => []TilesAndChannelsAgree`.
* `NoBannerIsLeft`: `ConsoleSpec => []BannerMeansAFault`.
* `ConsoleTypes`: `ConsoleSpec => []ConsoleTypeOK`.

`NothingOutlivesItsSocket` becomes inductive when what it counts is said of the sets
(`OwnersOK`): the sockets and the tests share the open channels out among them, no channel has
two owners, an orphan has none, a closed socket owns nothing and has nothing under way, and a local
profile has no test that waits. Two lemmas carry it: `OwnersStay`, and `OwnersClose` for each of the six ways
in which channels are closed. `TilesAndChannelsAgree` needs `TilesOK` beside it: a page shows a
channel in one tile only, never one that it has asked to close, and no close is under way for a
channel that is not open yet, so that the server never takes a channel from under a tile. The
steps of other pages come under `PageUntouched`, those that leave the tiles alone under
`PageKept`; closing a tab, gaining a channel and losing one have a lemma each.

`BannerMeansAFault` speaks of the channels of a socket only, and says nothing of a channel that is
not opened yet: `BannersOK` adds that no banner is on one (it would be there when the channel is
given out) and that a page of the host itself has none. When all connections are well (`AllWell`)
the last of them was told to be connected, to every page that owned a channel then; whoever came
later has a new channel. The size of the pool does not matter to it. In the types what is not obvious is
`asked`, the number of opens that a page waits for: it is the number of `create` messages under way
(`AskedOK`), so that it never falls below zero when an answer arrives, and no more than the clicks
made.

`MCConsoleProofs` has `PartsKeepTypes`: `MCSpec => []TypeOK`, the type invariant of the run that
joins console and tile, because every step of it is a step of one and a stutter of the other.

`PanelProofs`, under `PanelAssumption`, for any number of clicks, texts and polls:

* `PanelKeepsInv`: `PanelSpec => []PanelInv`, and from it
* `PanelTypes`: `PanelSpec => []PanelTypeOK`.
* `OnlyConfirmedIsTyped`: `PanelSpec => []ConfirmedIsTyped`.
* `TokensTypeOnce`: `PanelSpec => []OneTypingPerChallenge`.
* `OnlyTypedIsReported`: `PanelSpec => []ReportedIsTyped`.

The invariant follows a token through its life: one that is left is for the text of the click that
was challenged (`TokensOK`), the page shows that text beside it (`ChallengeOK`), the click that
brings it back carries both (`AskTokenOK`), and an answer that was let by with high risk has used it
up (`UsedOK`): the token is gone, so no second answer is let by with it, and the text is the one
confirmed. `StepOK`, `TypedOK` and `ReportOK` put the awaits of one answer in their order: let by,
typed, told. A reload of the page and an expired token only take away.

`SessionsProofs`, under `SessionsAssumption`, for any number of sessions, loops, connections and
attempts:

* `SessionsKeepInv`: `SessionsSpec => []SessionsInv`, and from it
* `SessionTypes`: `SessionsSpec => []SessionsTypeOK`.
* `NoDeadEntry`: `SessionsSpec => []EntryHasALoop`.
* `ErrorsAreSeen`: `SessionsSpec => ErrorNeedsAList`.

The two invariants are inductive together: a loop stops only when it finds no entry at the end of
its tick and becomes the entry when it finds one, and whoever cancels the timer takes the entry out
with it. `ErrorsAreSeen` goes through the steps that write a row. `MinIsLeast`, from the
well-foundedness of the numbers, says that the loop which is started and the session at which the
rearms stop are among those there are.

`ManagerProofs`, under `ManagerAssumption`, for any number of connections, Clients and channels.
With no further hypothesis:

* `ManagerKeepsCore`: `Spec => []CoreInv`, and from it
* `ManagerTypes`: `Spec => []TypeOK`.
* `GrowsOnRefusal`: `Spec => []PoolGrowsUnderRefusal`.
* `TerminalsStay`: `Spec => TerminalsAreKept`.
* `SessionsStayAttached`: `Spec => []SessionsAttached`.

`CoreInv` has the types, that rows and Clients of the pool point at each other, that a channel is
housed by a connection that was made, and that the pool has one connection until a refusal.
`SessionsStayAttached` adds `SaidOK`: until the channel of a session has been opened, what waits to
be written is its attach command and then input only; afterwards it is input only, nothing waits
behind a live stream, and a shell of a session has nothing but an attach typed first. Which
Client gave the stream does not matter to it.

The other four have the hypothesis `~CloseLags`, an old Client is closed by the time the next one
dials, which is also how the `pool` run is set:

* `ManagerKeepsInv`: `Spec => []ManagerInv`, and from it
* `NothingLeaks`: `Spec => []NoLeakedShell`.
* `ReconnectsInTurn`: `Spec => []ReconnectIsSerial`.
* `OneClientEach`: `Spec => []OneTcpPerConnection`.
* `RefusalsGoElsewhere`: `Spec => RefusalsMoveOn`.

The hypothesis cannot go: with `CloseLags = TRUE` each of the four is false. The run `stale_client`
shows it for `OneTcpPerConnection`; TLC finds counterexamples of the other three in the same
way, a late close of the old Client taken for one of the new. Under it, `NetOK` says that a Client
which is not closed is the present one of its connection (`Current`), that a connection that
reconnects has one timer, over a Client that is gone, and the others none (`OneTimer`), that a
disposed connection has ended its Client (`Ended`) and that one which is called connected has a
Client that is ready (`Up`). `ChannelsOK` says, channel by channel, that requests, streams and
shells fit the record (`Fits`), unless a listener of `connected` opened the channel: a request is out on a Client that answers, for a channel without
stream that lives there or was closed meanwhile; a stream is that of the home connection; and a
shell that runs is the stream of its record.

Every safety property of the passing runs is proved. What is model-checked only is liveness:
`EventuallyNotified`; `RowsTellTheTruth`, `PipesAreHealed`,
`HooksTellTheTruth` and `StoppedLoopEnds`; `EveryAnswerIsTold`, `PageFollowsWatcher` and
`StoppedPollEnds`; `EveryOpenIsAnswered` and `EveryChunkIsShown`. They rest on fairness, thus on
`ENABLED`, which the prover does not expand.

## Not modelled

The audit table `events` beyond the count of the cap; decision columns `state`, `source` and
`created_at`; rows from before the `state_since` and `source` columns; body parsing, the 400
and 404 answers and the read-only routes; a read error of the log in `readTailLines`, which
rejects the promise of `maybeClassify` with nobody to handle it; sessions outside of the
`ckpt-` allowlist, which only reach the audit table. In the transport: the size of a
terminal (`resizeChannel` and its replay when a stream opens), the text and order of events,
a profile deleted from the database while its pool lives.

In `Sessions`: which channels are on the connection that comes up (any of the sessions that were opened
may be attached again, which is more than the code does); the text of the commands, `nextSessionIndex`, hosts with sessions of other
profiles, a second adoption beside the first (a pool that connects twice at once). In `Panel`:
the backoff of the polls, which is time only; the states of the sessions beside the decisions,
which travel the same way; several decisions (a token
for another decision or session is refused by the comparison that refuses another text).
In `Console` and `Terminal`: `session:list` and a bare `channel:open`, which the pages do not use
to make tiles; input and resize of a terminal, which are passed on; output that arrives before
its tile is mounted, which is in the history that the tile asks for; the lines of a history;
the layout of the grid. The display rules (`session-coverage.ts`, `session-status.ts`) are tables
over one snapshot without steps, and rendering is left out.

## Plan

All parts with state of their own are modelled (PROJECT.json lists them), and every safety property
that a run checks is a theorem. What is left:

1. The safety facts that the liveness properties lean on, as invariants and then as theorems: that
   a click which is not done has an answer or a time-out to come (`EveryAnswerIsTold`), that a gate
   which is closed has its request or its timer (`EveryChunkIsShown`), that a loop of a profile
   that is stopped has no entry to fire again (`StoppedLoopEnds`).
2. That several profiles do not disturb each other, which the modules take from the code (each map
   is keyed by the profile) and do not show.
