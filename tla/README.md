# Eaon Desktop: specifications, model checks and proofs

TLA+ specifications of the concurrent and crash-prone cores of Eaon Desktop
(`src/`): who holds the computer's one pointer, the link to a worker computer,
how documents reach the disk, which terminal session runs the engines, when a
scheduled task runs, what the agent may spend, how a worker's runs survive quits
and crashes, and how workers hand jobs to each other. Each module is translated
from the TypeScript named in it; line numbers below are those of this commit.

| Module | Code | Checked | Proved |
|---|---|---|---|
| `ComputerLease` | `src/main/features/computer/lease.ts`, `tool.ts`, `session.ts`; the run table of `agent/loop.ts` | `lease_order`, `lease_runs` | `ComputerLeaseProofs` |
| `LeaseQueue` | what the lease promises, without how: the abstract specification `ComputerLease` implements | `lease_order` | `ComputerLeaseProofs` |
| `HostLink` | `src/main/workerHost/client.ts` | `link_retry` | `HostLinkProofs` |
| `StoreFiles` | `src/main/storeFiles.ts` | `store_saves` | `StoreFilesProofs` |
| `EngineLock` | `cli/src/bus/bus.ts`, `cli/src/runtime/engines.ts`, the leaving in `cli/src/tui/start.ts` | `lock_owner`, `lock_one` | `EngineLockProofs` |
| `Scheduler` | `src/main/features/scheduler/engine.ts`, `records.ts`, `service.ts`, `src/shared/scheduler.ts` | `sched_runs`, `sched_due` | `SchedulerProofs` |
| `Payments` | `src/main/features/payments/engine.ts`, `tool.ts`, `plans.ts` | `pay_orders` | `PaymentsProofs` |
| `WorkerRuns` | `src/main/features/workers/engine.ts`, `executions.ts` | `worker_runs` | `WorkerRunsProofs` |
| `WorkerJobs` | `src/main/features/workers/engine.ts`, `delegations.ts` | `worker_jobs`, `jobs_calledoff` | `WorkerJobsProofs` |

(The paths in this file are below `src/src/` unless they begin with `cli/`,
`cloud/` or `ios/`, which are below `src/`.)

`tlc -config <cfg> <module>` runs a check, `tlapm <module>` the proofs; the
pairs of module and cfg are in `PROJECT.json` with what each establishes. The
operators marked `\* Bug:` are not part of a specification: each is the
definition that follows it with a plausible mistake in it, kept so that every
property is known to notice one.

## 1. The system

Eaon Desktop is an Electron app around AI agents. The main process
(`main/index.ts`, `main/features`) owns all state; the renderer displays it over
IPC. The same engines also run headless on a worker computer (`host/`) and in a
terminal (`cli/`). All of it is JavaScript: within a process, code between two
`await`s runs undisturbed, so what interleaves is what happens across awaits,
timers, callbacks, child processes, sessions that share files, and the ends of
processes.

### Components

Those modelled, with what makes them correct:

**Computer lease** (`features/computer/lease.ts`). State: the holder and when it
last acted, the waiters with their timers, the runs the user took control back
from, who acted since which screenshot. Operations: acquire, touch, actedSince,
release, revoke, sweep, dispose; called by the `computer` tool of every run
(chat, worker, scheduled task, terminal). Interacts with the agent loop (is this
run going?), its abort signals, the `exclusive` queue of actions, and the
emergency stop. Hard: five ways to let go that must all hand on; a waiter
answered by whichever of timer, abort, hand-over, revoke comes first; runs that
die without a word. Correct when: the pointer has one holder, nobody waits for a
holder that is gone, turns are first come first served, a run stopped or
refused is off the computer at once, and the emergency stop reaches whoever is
on it.

**Worker computer link** (`workerHost/client.ts`). State: the connection, the
attempt in flight, the retry timer and its index, what the app shows. Operations:
start, stop, reconnect, setUpdating, and callbacks of the socket. Hard: the user
starts, stops and changes the address while an attempt awaits. Correct when:
there is one connection at most, none after a stop, it is with the address set,
and it comes back.

**Store documents** (`storeFiles.ts`). State: the JSON files; per document the
value queued, the value being written, the value whose write failed; one retry
timer. Operations: save at once, save later, read, flush; every feature calls
them. Hard: a failed value meeting a newer one; disks that fill up; crashes
between rename and bookkeeping. Correct when: reads see the last save, the disk
never goes back, and what was saved lands.

**CLI engines lock and roles** (`cli/src/bus`, `cli/src/runtime/engines.ts`).
State: the lock file, the registrations of the sessions, each session's role and
subscription. Operations: claim, attach, watch, take over, leave. Processes with
nothing between them but a folder. Hard: every file operation interleaves;
sessions are killed. Correct when: one session owns the engines, the lock names
it, and when it goes another takes over.

**Scheduler** (`features/scheduler`). State: tasks and run records in two files,
the run in progress, the records found cut off at launch. Operations: the due
check, run now, retry, cancel, save, switch on and off, remove, the report of a
run, load, stop. Hard: sleep and closed apps, runs longer than their interval,
quits and crashes during a run or between the two files, the automatic second
try of a purchase. Correct when: no slot runs twice or passes in silence, what is
shown is what goes on, the user's stop holds.

**Payments** (`features/payments`). State: mode, card, waiver, the purchases with
what was recorded of each (typed, pressed, expired), the grants of purchase
schedules. Operations: authorize with the question to the user, fill, the press
of the order button, complete, the settling at launch. Hard: the order button is
pressed and the app dies; several chats against one limit; the scheduler's
second try. Correct when: what may have been charged counts, automatic spending
stays within the limit, and an order is placed once.

**Workers engine** (`features/workers/engine.ts`, `executions.ts`,
`delegations.ts`). State: per worker its threads with inbox, transcript and
heartbeat, its routines, who runs, waits, is to be picked up or retried; receipts
of the runs; the jobs handed over and their states; three files, one saved at
once, two later. Operations: send, wake, retry, close, reopen, pause, the tick
and its timer, begin and finish, heartbeats, hand over, report, call off, remove, load, stop.
Interacts with the agent loop (a run), payments (was something bought?) and the
store (its saves). Hard: a limit on runs with many reasons to run; quits and
crashes that cut runs off with half of the writes landed; a run that sets the
wake-up that its own end will spend; jobs that end in five ways while they are
being sent or reported. Correct when: what waits gets its turn as soon as there
is room, mail is read once, a run is picked up once at most and only if it
changed nothing, a parent hears of every job's end, and nobody waits for itself.

Those not modelled (each is a component of `PROJECT.json`, with its sources):

| Component | State and operations | Hard part | Why not, or when |
|---|---|---|---|
| Agent loop, approvals, policy (`agent/`) | active runs, pending approvals, goal state; run, approve, cancel, pause | approval answered after a stop; goal pause racing the turn's end | planned: `AgentTurn` |
| Workers: service, memory, jobs and tools (the rest of `features/workers/`) | background commands, memory, rooms' files, the mail bridge | commands that outlive the app | commands run and texts kept; what it asks of the engine is in `WorkerRuns`, `WorkerJobs` |
| Worker host, move (`host/`, `workerHost/move.ts`) | where the workers live, the parts already sent | a move that fails half-way; two computers that both believe they run the workers | planned: `WorkerMove` |
| Providers and sign-ins (`providers/`) | tokens, catalog | one refresh at a time for rotating tokens | refresh guard planned; the rest is parsing and HTTP |
| Store: recovery, migrations (`store.ts`, `storeFiles.ts` readers) | `.bak`, blocked files | a crash between the `.bak` steps, blocked files | planned: `StoreRead` |
| Trading (`features/trading/`) | orders, limits, positions | money over floats, sessions, brokers outside | last: arithmetic is the point and TLC's integers are not its numbers |
| Scheduler runner, cron (`scheduler/runner.ts`, `shared/cron.ts`) | a run's watchdog; the next slot of a pattern | calendars, zones | calendar arithmetic: better tested by enumeration in its own language |
| Payments around the engine | tool gate, checkout wording, card form | | wording and forms |
| Computer use drivers | permissions, capture, input per OS | | I/O of the operating system |
| Agent engines (Codex, Claude Code, ACP) | child processes over JSON-RPC | requests in flight at a crash | protocols of other programs |
| Gateway, local API, llama, model library | requests translated, downloads, one child process | restart while requests run | mostly data |
| Remote API, relay (`remote/`, `rc/`, `cloud/rc`) | sockets, pairing | reconnect | a simpler `HostLink` |
| Channels, email | bots of nine services, who is let in; a daily cap | | each service's API |
| Terminals, ADE, Eaon Code, CLI accounts, connected apps | pseudo-terminals, worktrees, other programs' files | | files of other programs |
| MCP, plugins, browser use | connections to tool servers, a page | | SDKs and a browser |
| Usage, voice, images, smaller features | ledgers, calls of services | | sums and pure I/O |
| Updates | phases of electron-updater | | a library's states |
| Secrets, enterprise, hardening | vault, policy, audit | | checks on data |
| App shell, control, renderer, preload | windows, quitting, display | | display and glue |
| CLI terminal UI and tools | screens, edits | | the lock and roles are modelled |
| iOS app, build scripts, tests, docs | | | separate program; build time |

The hazards that the modules reach are in `PROJECT.json` under `hazards`, at their
lines, with the properties that watch them. Known and not reached by any module:

- `workerHost/client.ts:154`: the hello times out on a socket that stays open; the
  link shows "connecting" with no retry until the socket ends.
- `features/workerHost.ts:527`: the link is marked as updating before the chunks
  are sent; when one fails the mark stays until the next connection.
- `storeFiles.ts:330`: a crash between unlinking the old `.bak` and linking the new one;
  `:606`: a file blocked after a failed read is unblocked by any later read.
- `cli/src/runtime/engines.ts:127`: sessions attach while the new owner's engines
  still start; `cli/src/bus/bus.ts:183`: the process id of a killed session is used
  again while its registration is still there.
- `scheduler/engine.ts:433`: with the clock set back, the record of a run that
  begins is trimmed at once as the oldest; `:276`: a crash between the two writes of
  `remove()`.
- `computer/tool.ts:112`: other runs' activity is looked at before the turn in
  `exclusive`, and forgotten after ten minutes.

## 2. The modules

All modules abstract time the same way: a timer that is set may fire at any
moment, an `await` may take any time, and what a clock decides (idle, expired,
young) is a Boolean that may turn at any moment. That is weaker than the code,
so what holds here holds for every choice of the time limits. Only the
scheduler, which is about time, keeps a clock.

### ComputerLease

| State | Code |
|---|---|
| `holder`, `idle` | `holder` with its `lastActive` older than `idleMs` |
| `waiters`, `ahead` | the `waiters` array, as a set and who stands before whom |
| `revoked`, `watched`, `sweeping` | `revoked`, `watched`, the sweep interval |
| `shot`, `news` | the tool's `shotAt` per chat; the part of `acted` later than it |
| `phase`, `inside` | where a run's tool call stands; who is in `exclusive` |
| `live`, `aborted`, `driving` | `activeRuns`, fired signals, the runs `stopAll` ends |
| `moved` | a ghost: the run's screenshot really predates another's input |

`Acquire` is the whole of `acquire`: its own sweep first, then refused, granted
or parked. `Stop` runs every abort listener, as `AbortController.abort` does.
`Sweep`, `TimeOut`, `TakeBack`, `Dispose` are the other ways out. A tool call
goes `Call`, `Acquire`, `Proceed` (look again if someone acted), `Enter` (its
turn in `exclusive`), `Aim`, `Send`, `More`, `Finish` or `Fail`: cut at each
await, so that a lease lost between the check and the input is one of the
behaviours (section 5). The array is kept as an order and
not as a sequence because what is proved about it is an order, and because
symmetric runs then make one state of many.

### LeaseQueue

The promise of the lease alone: one thing, a line of runs, an order among them.
`Queue` (some leave, one may join at the back), `PassOn` (the holder lets go and
the front of those who stay takes over) and `Free` are all that may happen. The
refinement mapping of `ComputerLease` (`Queue == INSTANCE LeaseQueue WITH …`)
takes `holder` as it is, `waiters` for the line, and for `before` the pairs in
`ahead`; sweeps, timers, signals, refusals, screenshots and the tool's own
steps are stutters or one of the three. Nothing else of the lease can be seen by a
run that wants the pointer.

### HostLink

`connectOnce` is cut at its awaits (`step`); `dialed` is the address the attempt
took before the first. `TryConnect` hands a caller the attempt in flight if there
is one: `joined` records that the last try was so handed, the one way in which a
try is lost. `Reconnect` stands for "Try again", a new address and a newly linked
computer, and for the first start, which call the same function. The socket, the
ping and the frames are external; `PeerCloses` is any end of them.

### StoreFiles

A document's content is the number of the save it came from. `pending`,
`inflight`, `unsaved`, `timer` are the maps and the timer of the code; `phase`
cuts a queued write at its two awaits and between the rename and its promise.
`Succeeded` and `Failed` are `saved` and `saveFailed` with the timer they clear
or set. `overtaken` is a ghost: an older value was queued behind a newer one,
which the retry and the flush do (section 5); the properties that follow
are stated of the documents this has not happened to. It goes with the next save
that puts the newest value last.

### EngineLock

Each operation on the lock file is a step: create, write, read and judge, remove.
`Holder` is `readEngineLock` with the grace period (`young`) and the
registrations. A session opens, claims, and boots the engines or attaches; the
watcher (`Watch`) and the lapsed subscription lead to a takeover; `Leave`,
`Release`, `Close`, `End` are `leaveEngines`, the exit handlers and the end of
the process, at any time. `cleared` is a ghost: a lock was removed that was not
the one the remover looked at, or was one being written.

### Scheduler

One task: tasks share nothing but the files. `Tick` is the due check with its
four outcomes (`Skip`, `PullIn`, `Miss`, `Run`); `Begin` and `Report` are `begin`
and `finish`; `Commit` writes the runs file and `SaveTask` the tasks file, with
crashes in between; `Load` is `load` with `settleInterrupted`, `Quit` is `stop`,
`End` the process. `Resume` is `resumeCutOffPurchases`. The ghosts `ran`,
`accounted`, `retried` and `stopped` remember what happened, for the properties.

### Payments

`Ask` and `Authorize` (or `Refuse`) are one authorize call with the policy's
question before it and any other step in between. `Fill`, `Press`, `Complete`,
`Expire` follow one purchase; each saves its record before it returns, as the
code does, so disk and memory are one. `StartRun`, `AuthorizeOrder`, `EndRun`
follow a purchase schedule's run and its grant; `End`, `Launch` and `Resume` are
the quit or crash, `settleAbandoned`, and the second try, guarded by
`mayHaveBought` (both the scheduler's and the workers' retry ask it). `order` is
the store: external, answering when it likes. `SetMode` folds the card and the
waiver into the mode they lead to.

### WorkerRuns

| State | Code |
|---|---|
| `eng.inbox`, `read` | a slot's `inbox` (workers.json) and the mail in its transcript |
| `receipt` | the newest receipt of each thread: its state, its trigger, `sideEffects`; whether a receipt that never ran stands after it, whether any has ended (of the threads the user retries) |
| `beat`, `slots`, `took`, `fired`, `reset` | `heartbeat.nextAt`, routines whose `nextAt` has come; a run's `firedRoutines`, `fired`, `heartbeatSet` |
| `running`, `waiting`, `resumes`, `retries`, `woken` | the maps of the class, which a process end forgets |
| `closed`, `paused` | the flags of thread and worker |
| `disk` | receipts and transcripts as far as their asynchronous writes have landed |
| `newest` | nothing: history, what each thread's newest run really was (what began it, whether it acted and is over), and whether a crash came before its receipt was on disk |

`Tick` is the whole of `tick`: routines passed over (`Skipped`), what is due
(`Due`), what rests over its budget, who starts (`Begun`, as `begin` up to the
run itself), the queued receipts of the others and the cancelling of those no
longer due. It is part of every handler that calls it (`Give`, `Wake`, `Retry`,
`Unpause`, `Finish`, `Launch`) and not of those that do not (`Close`, `Pause`). A write
to workers.json is synchronous; the other two files land in the step or at
`Land`, one by one, and a `Crash` leaves what has landed. Since it takes the
engine's receipts back to the disk's, a property that judged by them would
forget with them what has happened: `PickedUpOnce` judges by `newest`. `Launch` is `load`,
`ExecutionLog.recover` and `start` together.

### WorkerJobs

A thread is the worker's main one or a job's. `Hand`/`Sent`/`Unsent` and
`Report`/`Reported`/`Unreported` are `handOff` and `finishHandoff` cut at their
`await message(…)`; `End` is `endDelegation` with the abort, the closing and the
result sent; `JobAfter` and `Closing` are what `finish` makes of a job, whose
own report, its failure, its being stopped, its heartbeat and its silence each
lead elsewhere, and whose being cut short by the emergency stop (`CutShort`:
cancelled, but not by the engine) leads nowhere. Such a run, like one a quit cut off
and does not pick up, is `"cut"`: the user may retry it. `Expire`, `Remove`, `StopTurn`, `CloseThread`, `RemoveThread` are the
ways it ends or is orphaned from outside; `Restart` is a quit and the next launch.
`told` counts the results a parent was sent. The runs themselves are
nondeterministic here (who finds room is any subset of who is due): that is `WorkerRuns`.

`Scheduler` and `Payments` meet in `Resume`: the scheduler module lets the
answer of `mayHaveBoughtSince` be anything, the payments module has a scheduler
that makes a cut-off run again as often as it is allowed to; `WorkerRuns` lets
`mayHaveBought` be anything too (`NothingBought`). Each is therefore
checked under any behaviour of the other.

## 3. The checks

Deadlock is checked where the system always has a next step (`ComputerLease`,
`HostLink`, `StoreFiles`, `WorkerRuns`, `WorkerJobs`); the other runs say
`CHECK_DEADLOCK FALSE` because a session lives once, the records run out, or the
last slot has passed.

| Run | Instance | Distinct states | Shows |
|---|---|---|---|
| `lease_order` | 3 runs, symmetric, nobody takes screenshots | 52 thousand | Turns: whoever ends, is stopped, idles or is refused, the lease goes to the longest-waiting live run, no waiter is lost, and all of it is a behaviour of `LeaseQueue` |
| `lease_runs` | 2 runs, everything | 75 thousand | A take-back holds for the rest of the run; the emergency stop reaches whoever is on the computer; waits end and ended runs let go |
| `link_retry` | 2 addresses, 3 pauses | 1 200 | One connection at most, none after a stop, always a next try, and the link comes back |
| `store_saves` | 1 asynchronous and 1 synchronous document, 3 saves each | 553 thousand | Reads and the disk follow the saves; what failed is tried again; what was saved lands |
| `lock_owner` | 3 sessions | 468 thousand | One owner, named by the lock, leaving none behind; the engines always come back |
| `sched_runs` | 3 ticks, 3 records, history of 2, no catch-up window, a one-off or a repeating task | 1.6 million | Slots neither twice nor in silence; settled records stay; second tries |
| `sched_due` | the same with 2 records and the clock also set back | 529 thousand | A due slot is dealt with while the app is on |
| `pay_orders` | 2 purchases, 2 chats, amounts of 0 and 1, a limit of 1, 2 days, symmetric | 2.0 million | Charges count; automatic spending within the limit; the schedule's order placed once |
| `worker_runs` | a main thread that sets heartbeats and a purchase schedule's thread, 1 message, room for 1 run | 417 thousand | What waits gets its turn; mail is read once; what acted or was a pick-up is not picked up, but after a crash its receipt's write had not survived; a chosen wake-up survives |
| `worker_jobs` | 3 workers, 2 jobs at once, 3 disturbances, symmetric | 426 thousand | Parents hear of every end; open jobs are worked on, but after a run that was cut off or cut short; limits hold while sending; no circle |
| `lock_one`, `jobs_calledoff` | 2 sessions; 3 workers, 1 job | | Two statements of the repository's comments that the code does not keep (section 5) |

**Why the bounds are enough.**

- *Lease*: with two runs one can have the computer and one wait; order among
  waiters needs the third, which is what `lease_order` adds. `lease_order`
  leaves screenshots out (constraint `NoScreenshots`) because who has seen what
  decides only whether a call that was granted goes on, never who is granted;
  liveness is checked in `lease_runs` alone, without constraint and symmetry.
- *Link*: an old address and a new one; three pauses, so that the index has a
  first, a middle and a last value.
- *Store*: three saves put one value on the disk, one in flight and one in the
  queue, and a failed one is then a fourth state of one of these; documents meet
  only in the timer and the flush, for which two are enough.
- *Lock*: an owner, one that judges its lock and one that replaces it.
- *Scheduler*: three records are a run that is cut off, its retry, and the next
  run or miss that competes with it; a history of two trims with three. Two ticks
  after the first allow a slot to pass while another run goes on. The window of
  zero makes every late slot a miss, so that all four outcomes of the due check
  occur. Not reached: a repeating task with several misses in a row.
- *Workers' runs*: room for one run and two threads is the least that makes
  something wait, and each thread has reasons to run the other has not. One
  message is enough for mail: mail is never compared with mail. While an asynchronous write
  is under way, or a crash has taken one and its thread has not run since,
  `worker_runs` keeps everything else plain, the other of these two included
  (constraint `OneTroubleAtATime`): a slow write matters only to a crash, which forgets what
  the other troubles are made of; with both at once no instance of this kind is checked in minutes.
- *Workers' jobs*: three workers are a circle through a colleague; two jobs at
  once one below the other or side by side; a depth of 2, two open and one for
  each worker reach every limit. `Budget` bounds how often the plain course of the jobs is disturbed:
  three are a disturbance, one that meets its outcome, and one that meets both.
- *Payments*: the second order, or the second chat, is the one that must not
  happen; a limit of one amount is broken by two.

**Fairness.** Weak fairness, and only of what the JavaScript runtime or the
operating system promises: timers that are set fire (lease timeouts and sweep,
retry of link and store), awaited calls with a time limit settle (`Attempt`),
file operations end (`Writing`), a live session goes on (`Step`). Users,
networks, disks and crashes are never fair. The one strong fairness is the
scheduler's `Tick`: the heartbeat is a timer that fires between any two calls,
but each call makes the check wait for its second file (`between`), so the check
is enabled again and again and not continuously. The liveness properties are
conditional on the environment in the obvious way: the link comes back if the
computer at the address stays reachable and the user leaves it on; a save lands
if the disk ends up taking writes; the engines come to run if some session stays.
The worker modules state no fairness: that mail is read in the end would need
runs that end, which nothing in the code bounds; what it does promise, that
nothing waits while there is room, is the invariant `RoomIsUsed`.

**What each property would notice.** For every property `PROJECT.json` names a
mutant: a changed definition, such as a hand-over that takes any waiter, a retry
that gives up after the last pause, a success that clears a timer other documents
need, a run that spends the heartbeat it has just set, a job settled without a word to
its parent, a claim that judges by age only, a slot advanced from the last one, an
authorization that is not checked again after the question. TLC finds each
property violated with its mutant.

## 4. The proofs

The instances above are small; these theorems are for every value of the
constants. They are invariants, action properties, a refinement and one property
of nested `[]`, each proved from an inductive invariant stated in the proof
module, one lemma per group of actions.

| Theorem | Says | Why it needs more than the property |
|---|---|---|
| `ComputerLease`: `NoAnswerIsLost`, `OffTheComputer`, `StopReaches` | For any runs: the array is the parked calls, someone holds while someone waits, refused and stopped runs are off, the stop reaches the rest | A stop can only take the lease away through an abort listener, so whoever holds or waits must be `watched`; and a run on the computer is driving because a call that stopped driving meanwhile will be refused |
| `LongestWaitingFirst` | The lease passes in the order of the array, never past those who wait | Needs that there is a holder while anyone waits, and that the waiters are the parked calls |
| `TakenBackForTheRunCorrect` | For any runs: once control is taken back from a run that is at no action, none of its actions ever gets under way | The refusal itself does not last: a sweep forgets the runs that are not going. So the run must from then on be refused, aborted or ended (`Off`), and one that is not going has ended or was aborted (`GoneInv`) |
| `LeaseIsQueue` | For any runs `ComputerLease` implements `LeaseQueue`: the initial states map to initial states, every step to a step or a stutter | Needs of the order that of two who wait one stands before the other (`InLine`), besides the invariant of the lease: without it the longest-waiting of those who stay need not be in front of all of them |
| `HostLink`: `OneLinkWhileRunning`, `OnlyJoinedTriesAreLost` | No second connection, none after a stop; a link that is down is being tried, but for a try handed the attempt in flight | What holds of a connection must hold already of the dial that will make it: no retry beside it, the right address |
| `StoreFiles`: `ReadsFollowSaves`, `DiskOnlyGoesForward` | For any documents and saves: reads give the last save, the disk never goes back, unless an older value was queued behind a newer one | Disk, value in flight and last save are in this order (`DocOK`); asynchronous documents fail only in the queue, and a synchronous one has no value but the last in memory |
| `EngineLock`: `OneOwnerCorrect` | For any sessions: one owner, which the lock names, and no lock left behind, unless a lock was removed that was not the one looked at | The lock a session is about to clear is that of one that has left, and a written lock is that of one that won (`WrittenOK`, `SessionOK`, `NamedOK`) |
| `Scheduler`: `SettledStaysCorrect`, `UserStopIsFinalCorrect` | For any schedules, limits and clocks: settled records stay; what the user stopped is not made again | Ids are unique and the file is the memory (`FilesOK`); only the run in progress is recorded as running (`ProgressOK`); a stopped run is never one a launch finds cut off (`StoppedOK`) |
| `EverySlotOnceCorrect` | For any schedules, limits and times, the clock not being set back: no slot is run for twice, and none passes without a run, a skip or a miss on record, also as the disk has it | The slot a task waits for is later than all that were run for, and all before it are dealt with, in memory and on disk (`TasksBehind`); a run whose record is not written yet is for the last slot run for, and the task waits for a later one (`PendingOK`); no slot of the future was run for (`RanPast`). Rests on what the next slot of a schedule and the latest due one are (`NextSlot`, `LatestDue`) |
| `RetriedOnceCorrect` | On the same condition: a run that was cut off is made again once at most, and its retry is not | A retry is known by its record, and records are trimmed: the record of a run made again is kept only together with that of its retry, which is newer (`RetryInv`, `TrimKeepsNewer`) |
| `Payments`: `ChargesCountCorrect`, `NeverBoughtTwiceCorrect` | For any purchases, chats and amounts: what was sent counts, and the schedule's order is placed once | One order is open at most; none in a run whose grant is unused; one left over at a launch may have charged, which is what the retry asks (`IInv`) |
| `WithinDailyLimitCorrect` | For any purchases, chats, amounts and limit: what was paid on one day without a question stays within the limit | What may yet be paid counts as much as what was: all authorized or charged purchases nobody was asked about are within the limit together (`InLimit`). The sum is the size of a set of units of money (`Units`), so that one purchase more or less is one set more or less, without an induction |
| `WorkerRuns`: `RunsAsShownCorrect`, `RoomIsUsedCorrect`, `MailKeptCorrect`, `PickedUpOnceCorrect`, `ChosenWakeUpKeptCorrect` | For any threads, mail, routines and limit: the receipts say what runs and waits; room is used and never exceeded; mail is kept once; a run is picked up only if it really was cut off, was no pick-up and had not acted, unless a crash overtook its receipt's write | Each handler makes a memory that is sound but for the room and comes from the one there was; the tick after it uses the room. The disk is never ahead of the memory, so a launch finds no receipt and no mail that was never there. A receipt of a run that is going or was cut off tells what the run really did (`Told`), until a crash comes before its write: the launch that judges by receipts then judges by the runs |
| `WorkerJobs`: `ToldWhenEndedCorrect`, `OpenJobIsWorkedOnCorrect`, `OpenJobsBoundedCorrect` | For any workers, jobs and limits: a parent hears of every end and of no job that is open; an open job has something that brings its worker back, but after a run that was cut; the limits hold while hand-overs are sent | An open thread is one of a worker that is there, and a job that is not sent has no thread (`ThreadFit`): so neither the end of a run, nor a quit, nor what `handOff` takes back can leave a job lying. What a job's own handler has still to tell is kept apart (`SoundBut`) |
| `NoWaitingCircleCorrect` | For any workers and jobs: nobody works on a job that waits, over however many colleagues, for a job of its own, and nobody waits deeper than the limit | The chain a job carries names everyone above it, and the chains grow downwards (`Wired`); a slot of the list that is used again is not below any job that stands. `AboveInChain` then needs no induction along the line, as the line is the least set closed upwards |

Each proof module also proves its component's `TypeOK`, for every value of the
constants.

**From which assumptions.** Only those the modules state: the sentinel `None` is
not one of the values, limits are naturals, there is at least one pause, amounts
are naturals. They are evaluated by TLC on every run.

Two theorems have a hypothesis of their own, `ClockBack = FALSE`: the user
does not set the clock back. With it set back TLC finds both violated,
and rightly: a slot that comes again is run for again, and a retry that is dated
before the run it repeats can be trimmed before it, after which that run counts
as never made again. `TypeOK`, `SettledStays` and `UserStopIsFinal` are proved
with and without.

**What the proofs found.** The case distinction in the scheduler's `Save` (switched
off, schedule kept, else) was a `CASE` whose guards overlapped, which TLA+ leaves
open where the code's `if … else if` (`engine.ts`) does not: TLC takes
the first, and the step of `EverySlotOnce` could not be proved. It is now an
`IF`. Stating that the scheduler's `None` is not a task needed an assumption
(`NoTaskAssumption`) that TLC's model values make true silently. No theorem needed
its property weakened.

**Model-checked only.** The liveness properties (`LeaseMovesOn`, `ComesBack`,
`SavedReachesDisk`, `EnginesComeBack`, `DueIsHandled`): fairness and ENABLED are
outside TLAPS. Every other property of a passing run is also a theorem. No module that a proof is about
declares a RECURSIVE operator; the money of a day and the line above a job are
defined by a set's size and by the least closed set, as above.

## 5. Disagreements

Each of these is a statement of the repository about itself that the
specification of its code violates. Two have a run of their own.

| Statement | Code | What happens |
|---|---|---|
| "so two sessions starting together can't both win" (`bus.ts:192`) | `bus.ts:206`; `lock_one` | The lock is empty between its creation and its writing: a second session takes it for stale and removes it |
| calling a job off "tells the parent's thread (so it doesn't wait forever), and stops the recipient's work on it" (`workers/engine.ts:1648`) | `workers/engine.ts:2862`; `jobs_calledoff` | A closed thread with mail may run: a job called off before it found room to begin is begun by the very tick that `endDelegation` ends with (`:1686`) |

The following are definitions of the modules that no run checks, because they
fail when they are; they are kept as the statement of what the code would have
to do.

- `ComputerLease!InputUnderLease` ("So a run must hold this lease to send input",
  `lease.ts:13`): the lease is checked, then focus and Eaon's windows are awaited,
  then the input is sent (`tool.ts:575`): a stop or take-back in between takes the
  lease and the input goes out anyway.
- `HostLink!NewAddressTaken` ("Drops the connection and connects again at once (a new
  address…)", `client.ts:66`): a dial to the old address in flight is what the
  new try is handed (`client.ts:105`); if the old address answers, the link stays
  with it.
- `StoreFiles!ReadsNewest` ("the new value is kept in memory, served to every
  read", `storeFiles.ts:20`; "behind any newer write", `:283`): the retry queues the
  old failed value in place of a newer one that waits, or behind one being
  written, and reads serve it (`:284`).
- `WorkerRuns!ActedWaitsForRetry` (a run that may already have acted is left for the user
  to retry, `workers/engine.ts:718`): a heartbeat is spent in `finish`
  (`:3551`), so a heartbeat's run that acted and was cut off is begun again by the same heartbeat.
- `WorkerRuns!CutOffIsPickedUp` (`workers/engine.ts:751`): a pick-up that has to wait gets
  a queued receipt; a second quit cancels it, and then it is the latest, so the run
  below it is not picked up again. The same after a routine's "missed" receipt.
- `WorkerJobs!RemovedIsStopped` (`workers/engine.ts:1075`): `remove` stops the runs,
  then calls the worker's jobs off, and the tick of that begins threads of the
  worker that is being removed.
- `WorkerJobs!EndedIsFinal` (`workers/engine.ts:1635`): a report sent from another thread of the
  worker that was under way when the deadline passed turns a failed job into a
  completed one, and the parent is told twice.
- `WorkerJobs!NeverLeftWaiting` ("so that worker is never left waiting on a colleague
  that forgot", `workers/engine.ts:3709`): the emergency stop of the computer's use
  cancels the run in the loop (`computer/session.ts:85`, `agent/loop.ts:1047`) and not
  in the engine, so `finish` sees it cancelled but not stopped by the user
  ("Cut short before it finished.", `:3523`), and none of its cases for the job
  (`:3659`) applies. The job stays "running" in its open thread; only a retry by
  the user, or the deadline, ends the parent's wait. `OpenJobIsWorkedOn` exempts it.
- `WorkerRuns!NeverReplayed` ("a run cut off by a crash is never replayed if it may
  already have acted", `agent/loop.ts:799`): the receipt says so before the tool
  runs, but its write is not awaited; a crash before it has landed finds a run that
  did nothing, and the launch picks it up. The same for a pick-up whose receipt had
  not landed. `PickedUpOnce` exempts exactly this (`lost`).
- `HostLink!StaysConnected` ("stays connected, trying again"): a try handed the
  attempt in flight, whose socket was dropped by `reconnect`, is the last one.
- `StoreFiles!FlushLands`: a flush that returns with nothing unsaved may leave an
  older value on the disk.
- `ComputerLease!ActsOnWhatItSaw`: the check for other runs' activity
  (`tool.ts:97`) comes before the turn in `exclusive` (`:112`), and the sweep
  forgets activity after ten minutes (`lease.ts:220`).
- `EngineLock!OneTeam`: `leaveEngines` removes the lock before the shutdown has
  stopped the engines (`cli/src/tui/start.ts:117`), so two teams run for a while.
- `EngineLock!AttachedHasChannels`, `AttachedFollows`: a session that attaches
  while the owner is still starting is told there are no channels and does not
  ask again; one whose subscription lapsed while a takeover was lost follows
  nobody (`engines.ts:168`, `:207`, `:229`).
- `Scheduler!RunHasRecord`: with the clock set back, the record of a run that
  begins can be trimmed at once as the oldest (`engine.ts:433`); its report then
  finds no record and the task says "running" until the next run.
- `Payments!RevokedStops` ("automatic purchases stop at once",
  `payments/engine.ts:348`): a purchase authorized automatically before may still
  be filled and pressed for up to twenty minutes, since `usable` and
  `claimSpendingClick` look only at whether payments are off.

Outside the modules, or allowed by them:

- A crash between the two writes of `remove()` during a run
  (`scheduler/engine.ts:276`) brings the task back without records and with the
  status "running".
- A failed `setJson` is logged and served from memory (`store.ts:627`), so a
  quit on a full disk loses `typedAt` or `submittedAt`, on which the second try
  of a purchase depends.
- "Every transition is saved as it happens, so a crash leaves a run marked `running` on
  disk" (`executions.ts:9`) holds once the asynchronous write has landed. A crash
  before that finds neither the receipt nor what it says of `sideEffects`
  (`NeverReplayed`, above), and may leave the inbox emptied on the disk and the
  transcript without the mail: `MailKept` exempts exactly this (`Lost`).
- Closing or deleting the thread of a job that waits leaves the job open until
  its deadline; `OpenJobIsWorkedOn` exempts it.
- A quit while a hand-over is being sent, with the list saved meanwhile by
  another commit, leaves an `assigned` job that nobody was sent; also until its
  deadline.
- A run the user stopped that is still unwinding at the quit is recorded as cut
  off, and picked up.

## 6. What the modules leave out

- *Lease*: what an action does to the screen, zooming, the Cua driver.
- *Link*: the calls made over it, error texts, `ready()`'s polling.
- *Workers' runs*: goals, questions, rooms, watches, background jobs, apps,
  playbooks; stale wake-ups; access caps; creating and trimming threads and routines;
  the budgets' arithmetic (`rest` is any subset); limits over several workers;
  which of several due threads goes first; reload and profiles.
- *Workers' jobs*: questions to the user, which keep a job waiting as a
  wake-up does; files copied along; the message budget's arithmetic.
- *Store*: the `.bak` link and recovery, notices, documents blocked after a failed
  read (`StoreRead` below).
- *Lock*: process ids being reused, the bus's messages, waits' lengths.
- *Scheduler*: zones, calendars and cron; the labels of wakes and causes; watches and
  follow-ups; damaged records; calls after `stop()`; the gap between a run's
  `.then` and `.finally`; how a run ended (all results are "ended"). Slots
  of a one-off that was used up are outside `NoSlotSilent`, which speaks of a
  task that is on.
- *Payments*: the clock's slack of an hour in `mayHaveBoughtSince`, a charge above what was
  authorized, recurring charges, several currencies and limits, records beyond 500,
  sites, order tracking. The agent is taken to report what the store did, and to
  press again on autopilot only after a refusal: that is the agent's text, not code.

## 7. The plan

Done, in this order: the lease, the link, the store's writing, the engines lock,
the scheduler, payments; their proofs; the lease as a line (`LeaseQueue`, by TLC
and by a proof); the workers' runs and jobs.

Next, in this order:

1. Proofs: the refinement of `KeptDocs` below, step by step as `LeaseIsQueue`.
2. `KeptDocs`, the abstract document store (each document one value in memory and
   an older or equal one on disk; a crash takes the second), implemented by
   `StoreFiles` for documents not overtaken; then `StoreRead`: `.bak`, recovery,
   blocked files.
3. `AgentTurn`: approvals, cancel and the goal pause in `agent/loop.ts`; composed
   with `ComputerLease` through the run table.
4. `WorkerMove` over `HostLink`, and the refresh guard of rotating tokens.
5. What is left of the workers engine: goals, questions, rooms, watches.
