# Verification of the ciaobot server

TLA+ modules, TLC configurations and TLAPS proofs about the server of ciaobot: one
Python asyncio process that runs agent CLIs ("providers") in chats, takes messages
from many clients over WebSockets, delivers webhooks as chat turns, and keeps its
state in files under the user's data directory.  Every definition is translated from
the code; `PROJECT.json` maps it to the lines it stands for.

The server is one event loop.  A handler runs without interruption until it awaits,
so in the modules an action is the code between two awaits, and what the
models explore is the order in which handlers, tasks, timers, providers and threads
get their turn at those awaits.

## Inventory

| component | state | operations | what is hard | what makes it correct |
|---|---|---|---|---|
| Chat turn pipeline (`web/chat_streaming.py`, `web/chat_broker.py`, `web/project_chats.py`, `web/routes_chat.py`) | the chat's stream in the broker, its drive task and turn task, live queue, drain window, parked queue, recorded send ids, steer lock, Stop flags | message frame, queue/steer/edit/remove/send now, drive loop, error park, reload, Stop, steer dispatch and echo, teardown | every await of the drive is a window for the clients; Stop races start-up, reload and steering; echoes race the call that caused them | no accepted send is lost, none runs twice, Stop holds the queue and always ends the turn, chips do not stay locked |
| Automatic retries (`web/project_chats.py`) | retry status, attempt count, kind, the retry task, parked queue | arm, delay, fire, defer behind a turn, stop, clear after success | the timer races a user's turn, Stop, restart drain and the next error | one retry at a time, a bounded number, none after Stop |
| Between-turns drain and subagent watchers (`web/chat_streaming.py`, `web/subagent_watchers.py`, broker) | the drain and watcher tasks and their registries, the held announce, the badge, and the broker's slot, shared with the turns | start, cancel, unwind, follow-up text and result, poll, Stop of a follow-up, idle sweep | a cancelled task runs on until it has unwound, beside its successor and a new turn; five tasks may each release the announce or leave it to another | one reader and one watcher at a time; no stream, announce or badge without somebody who ends it |
| Webhook delivery (`webhooks.py`, `webhook_dispatch.py`, `web/routes_hooks.py`) | trigger records, the receipt journal, in-flight claims | receive, dispatch, settle, recover at start-up, trim | crash between the two journal rows around a launch, two dispatchers of one receipt, journal failures, trim of a log others append to | at most one turn per receipt, a settled receipt stays settled, an accepted one is settled in the end |
| Task delegation (`task_board.py`, `task_attempts.py`, `control_plane.py`, `web/routes_api.py`) | the card (column, linked attempt, revision), the attempt records, the watchers of their turns | delegate, resume, stop, detach, approve, delete, edit, report, answer a native question, settle, reconcile at start-up | two files written by loop handlers and by worker threads; verdicts that come after their attempt was replaced; an approval undone half way | one attempt holds a task, the card leads to it, a task in Done leads nowhere, a turn that is over settles its attempt |
| Schedules (`schedules.py`, `web/schedule_dispatch.py`) | the row (status, last dispatch, triggered, completed, recovered), the runs in flight | tick, catch-up, Run now, listen, report, reconcile | runs of one row overlap and outlive their day, a run can die with its process or find its chat busy | a slot runs once and is recovered once, is credited only to a run of its own, nothing stays running for ever |
| Terminal sessions (`terminal_sessions.py`, `terminal_replay.py`, `web/routes_terminal_ws.py`) | the record, its shell and the tasks that start, read and close it, the replay ring, the sockets | create, read, attach, take over, detach, end, reap, shut down | starting and closing run on threads that cannot be stopped; a reader slower than the ring | the screen is the stream without gap or repeat, no shell is left without a closer, the exit comes last, a detached session is pruned |
| Memory pass and archive pipeline (`web/memory_pass.py`, `web/archive_pipeline.py`) | markers per chat | run once after idle | chat resumes during a pass | one pass per settled chat |
| Permission gate (`providers/permission_gate.py`) | open prompts | ask, answer, expire | Stop during a prompt | every prompt is settled once |
| DAG, job runs (`dag.py`, `job_runs.py`) | run log | start, finish, retry | crash in a run | a finished run stays finished |
| Restart, update, instance lock (`engine_update.py`, `instance_lock.py`, `web/restart_resume.py`) | drain flag, resume file, lock file | drain, exec, resume | sends during the drain | one server per data directory |
| Providers, events, workspaces, installers, front end | transports, sockets, documents | I/O | | |

Each of the eight state modules has a module of proofs, where its types are proved; two runs
check them as well.

`PROJECT.json` lists the hazards, each at its line, with the property that covers it or
the reason none does.

## Plan

| | modules | state |
|---|---|---|
| 1 | **ChatTurn**: one chat with all its queues; **MessageLifecycle**, which it implements; **ChatTurnProofs** | done |
| 2 | **WebhookDispatch** and **WebhookDispatchProofs**; **ReceiptJournal**, the file under it, and **ReceiptJournalProofs** | done; the two are not composed |
| 3 | **ChatRetry** and **ChatRetryProofs** | done; prompts, archiving and native forms left out |
| 4 | **TaskDelegation**, **DelegationContract**, which it implements, and **TaskDelegationProofs** | done |
| 5 | **ScheduleRow** and **ScheduleRowProofs** | done for a daily row |
| 6 | **TerminalSession**: record, shell, ring and sockets; **TerminalSessionProofs** | done; input and resize left out |
| 7 | **BetweenTurns** and **BetweenTurnsProofs**: drains, watchers and the broker slot they share with turns | done for Claude chats; OpenCode's watcher and tasks the CLI owns left out |
| 8 | Queue order: the list operations ChatTurn abstracts from, against a reference on short lists; the journal's backward windowed read likewise | open |
| 9 | Permission gate, memory pass, restart drain, instance lock, in this order | open |
| 10 | Proofs: every safety property of a passing run, the two refinements, and what the refuted claims need to be true (`Untrimmed...`, `RecoveryAloneMistakes`, `UndrainedHasLoop`, `AloneServedRan`) | done |
| 11 | WebhookDispatch and ReceiptJournal as one module, in which the dispatch reads the file; until then `UntrimmedIsMap` is what connects them | open |

How the modules meet: a webhook delivery, a schedule, a delegated attempt and a retry all enter a
chat through `start_stream`.  ChatTurn has that entry as a message frame; WebhookDispatch as its
`StartTurn`, whose refusal is an outcome; ChatRetry as `Starts`, with the streams of
others as what it defers to; TaskDelegation as `Send`, whose attempt takes over a turn that is
already running; ScheduleRow as `Listen`, which may find a turn of somebody else.  ChatTurn's `ErrorResult` parks the queue whether or not a
retry is armed, which is what ChatRetry decides, and a retry's end is ScheduleRow's
`SettleRetry`.  ChatTurn starts where BetweenTurns has `Send`: it takes the prelude's await of the
drain as one of its awaits, and BetweenTurns takes the whole turn as one step that may not
end for long; `TurnEnds` is what ChatTurn's `Teardown` leaves out.  WebhookDispatch takes the journal as a map
from receipts to states, ReceiptJournal is the file that has to behave like that map.

## One chat: ChatTurn

`ChatTurn` is the server side of one chat.  `pc` is the await at which the chat's
drive task is suspended:

| `pc` | code |
|---|---|
| `off` | no stream in the broker |
| `prelude` | `drive`: the awaits before the first turn (`chat_streaming.py:503`) |
| `spawned` | the turn task exists and has not run its first step |
| `turn` | the turn task runs, `drive` awaits it |
| `reload` | `await reload_provider` at the loop bottom (`:1126`) |
| `refresh` | the `finally` block's `await refresh_repo_location` (`:1325`) |

The queues are `pending` (`stream._pending`, entries with delivery mode and steer id),
`draining` (the entry `drain_one` took, until `finish_drain_one`), `parked`
(`chat.pending_queue`) and `owned` (`chat.user_turn_send_ids`).  A message is its
send id.  Queues are sets: the next entry is any entry, so the properties hold for each
order the user can produce, and order itself is not a subject of this module.
`cur` is what the running prompt consists of.  `stopCall` is the `stop_chat` coroutine;
`steerWant`, `steerLock`, `steerCalls` are `steer_queue` calls, `cli` the steers the
provider holds.  `acked`, `dropped`, `held` and `heard` are history variables: what the
client was told, what nothing took, what a Stop found in the queue, what the
provider consumed.

Actions are whole handlers.  `SendStarts`, `SendQueues`, `SendFallsThrough` are the
three outcomes of a message frame; `Bottom` and `Decide` are the loop bottom, used by
each way a turn can end; `Teardown` is the `finally` block.  `ForceClose` is
`TurnReturns` caused by Stop's grace timer and exists to carry fairness.

### Runs

| run | bounds | shows |
|---|---|---|
| `chat_queue` | 3 sends, 1 dispatch | OneOwner, AcceptedKept, StopHolds, LockedOnlyInTurn; the chat implements MessageLifecycle |
| `chat_stop` | 2 sends, 1 dispatch, fair | StopSettles |
| `chat_lost_send` | violation of AckedTaken | a send in the turn-end window is lost |

Three sends are one running, one drained and one in the rest of the queue, which is
what it takes for an operation to treat the drained entry and the rest differently.  Two
dispatches, one under a lock that a reload has dropped and one beside it, are left to
the proof of LockedOnlyInTurn, which holds for any number.  The
chat has no other counter.  Deadlock checking is off in the chat runs: a send id is used
once, so a behaviour that has used them all, in an idle chat, may stop.

Fairness (`FairSpec`) is what the event loop gives: ready tasks run (`LoopTop`,
`BeginTurn`, `StopReverts`, `Teardown` — `refresh_repo_location` has a timeout), timers
fire (`ForceClose`), and `reload_provider` returns (its disconnect is bounded).  The turn
itself need never end, clients need never act, and a steer call need never return.

### Proofs

`ChatTurnProofs` proves `TypeOK`, `OneOwner`, `AcceptedKept`, `StopHolds` and
`LockedOnlyInTurn` for every set of sends and every bound on steers, from
`SteerIdAssumption` alone.  None of the safety properties is inductive.  `Inv` adds

- `Ownership`: the containers are pairwise disjoint, entry by entry, and no entry is
  empty (an empty group could not be told from an empty drain window);
- `cur \subseteq owned`: what runs has been recorded, so a send found in a queue is not
  running;
- `Window`: the drain window holds at most one entry and is empty outside the reload's
  await and the teardown, so nothing is hidden in it when a turn starts;
- `StopSeen`: while a `stop_chat` call is alive the drive still sees `user_stopped`,
  or has left its loop;
- `HeldParked`: while no Stop is in force nothing a Stop held is where the loop
  takes its next prompt from.  `StopHolds` follows: the loop runs an entry only when
  `user_stopped` is false.

The queue operations are lemmas about `Ownership` (`Relabel`, `ParkAll`, `Drain`,
`Take`, `Delivered`, `Enqueue`, ...), the shapes of steps are lemmas about the invariant
(`Frame`, `QueueKept`, `Moved`), and each group of actions is one lemma over them.
LockedOnlyInTurn has a small invariant of its own, `Locks`: only entries in steer mode are
locked, so reverting the steers to the queue unlocks every one (`RevertedFree`).

`KeepsLifecycle` is the refinement.  By `Inv` a message's state in MessageLifecycle depends on
three sets only: the running prompt, the recorded ids, and the ids that are anywhere (`Stands`, used at both
ends of a step).  `Flow` lists the five ways in which a step may change these sets together; each group
of actions is a lemma that its step is a `Flow`, and `FlowMaps` turns a `Flow` into a step of the
abstract specification or a stutter.  `Resting` adds that without a stream nothing runs.

## Webhook events: WebhookDispatch

One trigger, its events (`Receipts`, one idempotency key each) and the dispatch tasks of
one process at a time.  `status` is the last journal row of a receipt; a journal write is one
step, because every writer holds the journal lock in its thread, and what the event loop
does with the answer is the next step of the task.  `at[t]` is the next step of a dispatch
task: `claim` (take the receipt in `_IN_FLIGHT`), `read`, `check` (the trigger and its
target), `launch` (append the `launching` row), `start` (start the turn), `settle` or `fail`
(append the outcome).  `sweep` is the start-up task: recover what a crash left launching,
list what is accepted, dispatch up to `SweepLimit` of it.  `Crash` may come between any two
steps and keeps only the trigger record and the journal.  Each journal operation can fail;
a failing append can fail after its row is on the disk, since `fsync` comes last.

| run | bounds | shows |
|---|---|---|
| `hook` | 2 events, 2 tasks, pending bound 1, `SweepLimit` 1, 1 failure, 1 crash, fair (560,179 states) | AtMostOneTurn, OutcomeMatchesTurn, PendingBounded, DeletedStaysDead, SettledStays, OpenSettles |

Two tasks are any two of the sweep's, a request's and its retry's, on one receipt or on two; a
pending bound of one makes the second event meet a full trigger.  One failure and one crash
suffice for each step to be the one that fails and each to be the last before a crash; the
proofs below cover any number.  Deadlock checking is off, since all events may be settled.
`FairSpec` gives fairness to the event loop's tasks, to the sweep and to `Boot`: the
service manager restarts the process (`main.py` is run under launchd, systemd or a Windows
service).  Senders and the operator need never act.

`WebhookDispatchProofs` proves the six safety properties for any receipts, tasks and
bounds from `DispatchAssumption`.  `Inv` adds to them: `Alone`, two tasks past their claim
have different receipts; `Knows`, what a task at each step knows of its receipt
(between `launch` and its outcome the row is `launching`, or `interrupted` by the sweep, and the
turn count is what the step implies); `Buried`, no task that could still start a turn holds
a dead receipt; and that the open receipts are finite in number.  AtMostOneTurn follows
because only `start` starts a turn, `Knows` says that it has had none, and `Alone` that nobody
else is about to.

`RecoveryAloneMistakes` locates the refuted claim `InterruptedMeansCrash` (below): for any
number of tasks, failures and crashes, the only step that can break it is the start-up recovery
itself, by settling a launch that a task of its own process has in hand; no request, dispatch,
failure or crash can.

All of this is about a journal that reads as the map `status`, and a trim can break that map
(see the journal file below).  The assumption carries more than `SettledStays`: a launched receipt that
reads as accepted after a trim is dispatched again by the next start-up's sweep, so
`AtMostOneTurn` and `OutcomeMatchesTurn` too are claims about a trigger whose journal has not been
trimmed (`UntrimmedIsMap`).

## The journal file: ReceiptJournal

The same receipts one level down: `journal` holds the lines that are left, each under the number of
its append, so that the order of the numbers is the order of the file; `midLine` says that
the last byte is not a newline.  Reading is a fold in which the latest row of an id wins.
`Write` appends a row, after closing off a torn tail, and trims a file that has grown past
`MaxBytes`; the trim may also fail and be skipped.  `WriteCutLate` and `WriteCutEarly` are
appends cut by a crash or an error after or before the row is whole.  A line's width is a
small number: what the trim does depends on no more than which rows fit.  As in the code each row of a
receipt is wider than the one before it (`Extra`): the `launching` row by one byte, since its status
is a letter longer than `accepted`, and an outcome's row by the `detail` that it carries.

| run | bounds | shows |
|---|---|---|
| `journal_safety` | 2 keys, widths 1 and 2, 5 bytes, 2 rows, 6 appends, 3 days (369,500 states) | TypeOK, OpenKept, OneOpen, TrimBounds |

Six appends are two events through their three states, or one event, its trim, and the same
key again; five bytes hold one to five rows, so the trim keeps some rows and drops others
of one receipt.  A window of one day within three days has retries inside it, at its end and
after it.

`JournalReopens.cfg` shows where the map that WebhookDispatch assumes is not what the file
gives: `_trim_if_large` chooses settled rows one by one, and a receipt whose wide outcome row is
passed over while a narrower row of it fits is open again.  If the `launching` row is what
fits, the next start-up reports a turn that ran as interrupted.  If only the `accepted` row
fits, one byte narrower still, the receipt waits for a launch that it has had, and the next
start-up's sweep starts a second turn; both files are within reach of the bounds above.  In WebhookDispatch
`SettledStays` and `AtMostOneTurn` hold under the map; the trace says what a long
journal can do to them.  `JournalUntrimmed.cfg` (152,631 states, by hand) checks
the same journal with no trim that drops a line, where both refuted claims and
`StatusMoves` hold.

`ReceiptJournalProofs` proves the four properties for any keys, sizes and bounds.  `Inv` adds
to the types `Well` (a generation is never greater than the number of its first append, so one is always
free; the rows of one id tell of one event; two events of one key are outside each
other's window, whether they are open or settled) and `Told` (the last row written for an open receipt is
the row in force).  The trim is the hard case: it keeps every row of an open receipt
(`TrimmedOpen`), so what it drops can only make settled receipts disappear or
read as an older row, and no generation is taken that a readable row uses (`GenerationIs`).  TrimBounds
needs the sum of the sizes, which the model has as a fold: `Adds` is what a sum does (one line more adds its
size, disjoint parts add up), `AddsExists` that there is such a function, `BytesAre` that the fold is one.  The library's induction theorems
cannot be used, since they take an operator; these lemmas argue from the least counterexample
(`WFMin`), which is about a set.  The same argument shows `TrimDecides`: the condition by which
`Trimmed` states the backward loop has exactly one solution, for every file.

`UntrimmedIsMap`, `UntrimmedStaysSettled` and `UntrimmedCollapses` are about
`UntrimmedSpec`, in which no line that was there is dropped.  The first says that such a file behaves as the map
that WebhookDispatch has for `status`, torn appends and failures included; the other two that
the trim alone breaks the two claims.

## Deferred retries: ChatRetry

One chat's retry state (`status`, `kind`, `attempts`, and `due` for "retry_next_at has
passed"), the loop tasks, the registry entry `reg` that names the current one, the stream in
the broker, and the schedule row of a run that waits for a network retry.  `loop[t]` is where a
loop task is suspended: `top` (created, not yet run), `sleep`, `poll` (waiting for the
stream it started to end).  `aimed[t]` says that its sleep ends at the current
`retry_next_at`; when the time has been moved the sleep may end at any moment.  `doomed` are
cancelled tasks whose `finally` has not run.

`LoopSleeps`, `LoopDefers`, `LoopExhausts`, `LoopFires` are the ways from one await of
`_retry_loop` to the next, `LoopDies` the end of a cancelled one.  The loop's early returns
for a retry that is not pending any more have no action: `LoopRegistered` shows that they are
never reached, because whoever clears a retry cancels its loop.  `TurnFails` is an error
that `_arm_retry` takes, of a kind in `AutoKinds`; `TurnFailsOtherwise` one it does not.
`Teardown` is the part of `drive`'s `finally` that clears a retry and settles the row.

| run | bounds | shows |
|---|---|---|
| `retry` | 2 loop tasks, 1 automatic kind, 1 network retry, 2 fires, 2 arms by hand, 1 other turn; drains, resets, restarts; fair | LoopRegistered, NetworkCapped, PendingFires |

Two tasks are one dying and its successor registered; the cap is 1 and 2 fires are allowed, so
two fires reach and would pass it.  PendingFires says that a pending retry fires in a process that
neither drains nor restarts for ever: in a drain a pending retry can lose its loop
(`RetryDrained.cfg` below).  It excuses the state in which `MaxFires` has stopped the model.
Fairness: tasks run, time passes, turns and background streams end.  That a turn ends is an
assumption here (ChatTurn does not need it); a turn that never ends keeps the retry deferred.

`ChatRetryProofs` proves the three safety properties for any number of loop tasks and any
caps.  They are inductive together with the types: a loop that is not cancelled is the
registered one, so `_ensure_retry_task` makes a new one only when there is none, and a clear
reaches every loop there is.  `UndrainedHasLoop` says that in a process that never drains a pending
retry always has its loop, for any number of arms, resets and restarts: the
restart drain is the only way to the state of `RetryDrained.cfg`.

## Delegated tasks: TaskDelegation

One task of the board and the attempts made at it.  `card` is the task's file (its column and
the attempt it is linked to), `att[a]` an attempt's record with what runs in its chat: the turn,
the watcher that waits for its end, and whether the chat is open, holds an unanswered native
form, or is gone.  `call[c]` is a request between two of its steps.  A request carries the
revision of the card it read; the revision itself is a counter of writes, and all the code asks of it is
whether it has moved, so a call keeps `fresh`, which every write of the card (`Writes`)
takes from the others.

Handlers on the loop (`Delegate`/`Link`, `Resume`, `Stop`, `Detach`, `Settle`, `ChatEnds`) run up
to their await; `Approve`, `Edit`, `Delete`, `Report` and the re-settle that follows an answered
question (`Answer`, `Check`, `Resettle`) are threads.  The loop does not run between the start of an
attempt and its link (`LoopFree`), but threads do.  An approval is five steps (`Approve`,
`Unlink`, `Complete`, then `Relink` if the completion was refused, and `Release`).

Abstractions: To do and In progress are one column; a loop handler's writes of several
files are one step towards the threads, except at the link; turns that nobody watches are not
followed; `stop_chat` may return at any time after the Stop; a write of the attempt's log moves the
card's revision.

| run | bounds | shows |
|---|---|---|
| `task_safety` | 2 attempts, 2 requests, turns end with an answer (1.17 million states) | OneLive, CardNamesHolder, DoneUnlinked; the whole implements DelegationContract |
| `task_settles` | 1 attempt, 2 requests, all six ends of a turn, fair (126,000 states) | TurnEndSettles |

Two attempts are the one that held the task and the one that takes it over, and two requests any pair
of handlers and threads; that a turn ends with an answer is what lets an attempt
be reviewed, approved and undone.  The other ends only change an attempt's state, and the proofs
cover them.  Fairness is WF of `Settle` per attempt (the watcher is a ready task) and of
`Link` per request (it has no await before it).

`DelegationContract` is the promise: a task is held by nobody or by one attempt, which works,
waits or is in review; an attempt is taken only when nobody holds, and one that left may be
resumed only then.  `ImplementsContract` maps `Holders` and their states to it.

`TaskDelegationProofs` proves all of these for any attempts, requests and ends.  `Inv` adds
`CallsMade` (a call that is past its first step is for an attempt that was made), `HandAlone` (an attempt
between its start and its link is running without a turn, and neither the card nor another
request names it), `LinkMade`, and `Approving` (what an approval in each step knows of
the card while its revision is fresh: this is what `DoneUnlinked` needs, as the
refused completion must not put the link back on a task that somebody else completed).  The refinement is the lemma that every
action changes at most one attempt's share in `Holders`, once per action.

## Schedules: ScheduleRow

One daily row.  Time is `day`, the number of slots that have come, and `due`, whether the minute of the
last one lasts: the code compares dates and minutes and nothing else.  `row` has the stored
fields, the dates among them as slot numbers.  `run[i]` is the task of a dispatch: `begun`,
`streaming` (it listens to a turn, its own or one that it found in its chat), `ended`, `over`
(reported), `vanished` (ended without a report) or `dead` (with its process).

`Tick`, `CatchUp` and `RunNow` are atomic: the store's methods do not await, and the run
they dispatch is a task of its own.  `TickFails` and `CatchUpFails` are the exceptions of a
row's preparation.  `Boot` and `CatchUp` are two steps, since the scheduler's task may tick before the
catch-up.  A run that ends `retrying` is settled later by `SettleRetry`, which stands for
ChatRetry.  `skipped` also stands for `unfinished`: both count as completed and keep
nothing else apart.

| run | bounds | shows |
|---|---|---|
| `sched_safety` | 3 dispatches, 1 slot, symmetric (3.07 million states) | StatusOfLatest, RecoveredOnce, ServedNotReplayed |
| `sched_settles` | 2 dispatches, 2 slots, fair | CompletedEarned, RunSettles |

Three dispatches on a slot are the tick's, a hand-started one and a recovery; two slots are what a run
that outlives its slot needs.  Fairness: the process is started again (`Boot`), is not killed
in every start-up before its catch-up (SF of `CatchUp`), and its tasks run; a turn need not end
and time need not pass.

`ScheduleRowProofs` proves the four safety properties and `CompletedEarned` for any dispatches
and any number of slots, and `RunningIsHere`: after the start-up pass a row that says running has a run of
this process behind it.  `Inv` adds `Quiet` (only a run that reported has a result),
`RunNamed` (a running row names a run that has not reported, and after the start-up pass one of
this process), `Bounded` (no stored date is ahead of `day`, no run ahead of its row),
`AutoStamped` (an automatic dispatch of a slot has left its date, which is what excludes the
second) and `Credited` (a completed run's slot is not past `last_completed_on`).
`AloneServedRan` says that a row that opens a chat for each run is credited only for its own
prompts: `ServedRan` below fails by shared chats only.

Not modelled: weekly, interval, monthly and one-off rows, editing and disabling a
row, and commands that a row runs besides its prompt.

## Terminals: TerminalSession

One session of the terminal manager.  `ses` is the record, `task` holds for each of the tasks
around it where it is suspended: `spawn` (the shielded start of the shell on a thread), `creator`, `reader`,
`finish` and `finalize` (the two shielded closers), `ender`, `shutdown`.  `close` is the
one close of the shell, which every closer awaits.  `late` says that a wait for the spawn ran into
its timeout, after which a shell may come that the manager no longer waits for.

A shutdown lists the session if it is in the registry (`listed`), waits for the spawns, finishes the
listed session and waits for every finalizer without a bound (`finish`), clears the registry, and joins the tasks
that the manager still owns (`join`).  That last join is bounded, so a shutdown ends `done` or, when its time
ran out, `left`: what can still be under way then is the close of a session that the sweep
had removed before the list was taken, or of a shell that came late.

A byte is known by its offset: `seq` counts what the shell has written, `ring` is the
circular storage, byte for byte with the code's two-part copies done by `Copied`, and a socket's
`screen` collects the offsets it was sent.  A socket goes through `replay` (the
snapshot after `Attach`), `pump` and `wait` (`_pump_output`) to `hangup` and `Detach`;
`ReplayBroken` is a send that fails in the replay, which ends the handler before it is in the
`try` whose `finally` detaches.

| run | bounds | shows |
|---|---|---|
| `term_session` | 2 sockets, ring of 1 byte, 2 bytes of output, fair (1.74 million states) | TypeOK, ShellClosed, ScreenTrue, ExitIsLast, RecordOutlivesClose, DetachedPruned |

Two bytes in a ring of one make it wrap and evict between any two reads; two sockets are one
that is displaced and one that displaces it.  `TerminalRing.cfg` is a larger instance without
fairness (ring of 2, 3 bytes, 2.17 million states), where a chunk straddles the wrap; it passes
the safety properties.  Fairness: threads answer (a spawn succeeds or fails, a close
returns), tasks run, time passes and the sweeper comes back; shells and clients need never do anything.

`TerminalSessionProofs` proves the five safety properties for any sockets, any size of the ring
and any output.  The manager's part of `Inv` says which tasks can be alive together:
`Order` (a create before all else, a shell before its reader, the reader's end before an
exit), `GivenUp` (who removes the record or closes it has asked for its close before), `CloserSaw` (a closer that
is past its wait for the spawn has seen the shell, unless the wait ran out), `Through` (so has a
shutdown) and `Asked` (a session that is out of the registry has had its closer started, and a
shutdown clears the registry after the finalizers, so a join that ends `done` has the shell closed).  The stream's part
says what a socket can see: `RingTrue` (the ring holds the last bytes written, each at its place
modulo the capacity), `Unread` (no cursor is ahead of the output), `Told` (who heard of the exit has all,
and no output follows) and `Shows` (a screen is the interval from its first byte to its cursor).  The stream
needs one fact of the manager: a session that has exited has no reader.  `AppendedTrue` and `CopiedTrue`
are the two-part copies of the ring.

Not modelled: input and its flusher, resizing, the capacity over all sessions, the grants
and the watchdog, and exit codes.

## Between turns: BetweenTurns

A Claude CLI stays alive after a turn and runs a follow-up turn of its own for each background
agent that ends.  One module has the tasks that deal with that, for one chat:

| variable | code |
|---|---|
| `slot` | whose `ChatStream` the broker has: a turn's, a drain's, nobody's |
| `turn`, `waits` | `drive` tasks, from `start_stream` to the end of the `finally`; the drain that one awaits in its prelude |
| `drain`, `reg` | the `drain_between_turns` tasks, and `_between_turn_drains` |
| `watch`, `wreg` | the subagent watchers, and `_pending_subagent_watchers` |
| `stop` | the drain that a `stop_chat` call awaits |
| `park` | `_parked_result_announce` holds the announce of a turn that ended on "I'll report back" |
| `shown` | the last count published for the badge is positive |
| `cli`, `work`, `lost`, `owed` | the CLI: alive, its agents at work, agents that died with it and are still counted by their files, agents it has yet to answer |
| `faults` | history: a message that cannot be read, a session file not found, agents lost |

A drain is `created`, `idle` (it awaits an event), `ready` (the event is there, the task has not
run yet), or `doomed`: cancelled and not yet unwound.  `wake` says that it has a stream
open.  The gap between `EventComes` and `WakeText` is where a message of the user, a Stop or the
sweep may come.  A watcher that was cancelled before it began never runs (`StartWatcher` takes it
to `off`), one that polls runs its `finally` in `WatchUnwinds`.  `TurnEnds` is the tail of
`drive`'s `finally`, which has no await: it clears the slot, replaces watcher and drain, and
drops or holds the announce.  What was announced is not kept: only whether one is held.  An empty
bookkeeping result (`chat_streaming.py:2034`) changes nothing and is no step; `Folds` is the answer it
stands for.

| run | bounds | shows |
|---|---|---|
| `between_turns` | 1 turn at a time, 2 drains, 2 watchers, 2 agents, all faults, fair (363,936 states) | OnePerChat, SlotOwned, ParkOwned, BadgeWatched, ParkReleased |

Ids are taken again when their task is done, so the run follows a chat through turn after turn
without end; two drains are one that unwinds and its successor, and likewise the watchers; of two agents one
can be answered while the other works.  `SlotOwned` and the others are proved below for
any number, which includes the turns that overlap when a drain has taken the slot
(`TurnKeepsSlot` in the table of counterexamples); a two-turn instance with its 6.36
million states also passes them, by hand.

Fairness: tasks run, cancelled ones unwind, turns end, agents end or are given up, and the CLI
answers what it owes and ends each answer with a result (SF, since a Stop may
cut one off).  `ParkReleased` asks this only of a chat in which nobody sends and no agent is
started any more; and only as long as no agents died with their CLI, for which
`NoneStranded` has the counterexample.  `Reap` assumes that a CLI answers within the
idle time.  In the model the end of a CLI (`CliExits`) is known at once; in the
code the reader of its pipe has to reach the end of it first.  A drain finds out in a step of its own (`DrainEnds`),
which may come as late.

`BetweenTurnsProofs` proves the four safety properties for any turns, drains, watchers and
agents.  `ParkOwned` carries the argument.  A watcher leaves the announce to a live drain, a
cancelled drain to the next turn, a turn with a drain to that drain; `Inv` says that these
never point at each other.  `DoomedIdle`: a drain that is cancelled and still registered
while no turn runs was cancelled by the sweep, so its CLI is gone and no watcher that saw work is left.
`PollHeard`: while a watcher that saw work polls, the drain it would leave the announce to still
has an agent to hear of.  `WatcherKept`, `NoStream` and `AgentsAlive` are what `BadgeWatched`,
`SlotOwned` and these two rest on.

Not modelled: OpenCode's watcher (`_watch_opencode`), tasks that the CLI owns and the wake for those
whose CLI died, the sweep for them after a restart, permission requests in a follow-up, and what the
announces say.

## Counterexamples outside the runs

The modules state these claims of the docs and comments too, and the code refutes each; the
configuration gives the trace with `tlc -config <cfg> <module>`.  The `Claims` configurations hold
several claims under the same bounds: TLC stops at the first, so leave in the one of interest.

| configuration, module | claim | what happens |
|---|---|---|
| `ChatTurnSteerUnlocked.cfg`, MCChatTurn | `ConfirmedStaysLocked` (`project_chats.py:7320`) | a second steer that cannot be dispatched reverts every steer entry, the one the provider has accepted included |
| `ChatTurnEarlyEcho.cfg`, MCChatTurn | `StopKeepsEarlyEcho` (`:9892`) | Stop requeues a steer whose echo landed before `steer_turn` returned |
| `ChatTurnStopUnseen.cfg`, MCChatTurn | `EveryStopSettles` (`project_chats.py:9849`) | a Stop in a starting turn that has no provider yet does nothing |
| `WebhookInterrupted.cfg`, MCWebhookDispatch | `InterruptedMeansCrash` (`webhooks.py:2253`) | the start-up sweep records as interrupted what a request of the same process is launching |
| `JournalForgets.cfg`, MCReceiptJournal | `RetriesCollapse` (`webhooks.py:1211`) | the trim forgets a settled receipt within its window, and a retry becomes a second event under the same id |
| `JournalReopens.cfg`, MCReceiptJournal | `SettledNeverReopens` (`webhooks.py:1700`) | the trim passes over a receipt's wide outcome and keeps its `launching` or only its `accepted` row: a settled receipt is open again, and an accepted one is launched a second time |
| `RetryDrained.cfg`, MCChatRetry | `PendingHasLoop` (`project_chats.py:8223`) | a retry due in a restart drain loses its loop and stays pending |
| `RetryUncapped.cfg`, MCChatRetry | `AutoCapped` (`project_chats.py:7913`) | a quota retry whose turns end without a retryable error is fired past its cap |
| `RetryAfterStop.cfg`, MCChatRetry | `StopCancels` (`:9813`) | an error result that arrives after Stop, without the stopped mark, arms a retry |
| `RetryEarly.cfg`, MCChatRetry | `FiresOnTime` (`:775`) | a loop asleep towards the old time fires a retry that was rescheduled to a later one |
| `RetryRowReset.cfg`, MCChatRetry | `RowSettles` (`schedules.py:881`) | a new session drops a network retry and its schedule row stays `retrying` |
| `RetryRowSuperseded.cfg`, MCChatRetry | `RowSettles` | a network retry that hit a quota, then superseded by a message, leaves its row `retrying` |
| `DelegationClaims.cfg`, MCTaskDelegation | `ReleasedForGood` (`task_attempts.py:1043`) | a released attempt is made live again by a verdict that comes late |
| `DelegationClaims.cfg`, MCTaskDelegation | `ReleasedIsResult` (`task_attempts.py:966`) | a release is not always of a result: the attempt it meets may have been reopened |
| `DelegationClaims.cfg`, MCTaskDelegation | `DetachKeepsResult` (`control_plane.py:5655`) | a Detach turns the result of a turn that ended while it waited into `stopped` |
| `DelegationClaims.cfg`, MCTaskDelegation | `DetachUnlinks` (`control_plane.py:5389`) | a Detach whose card was written meanwhile leaves the link |
| `DelegationClaims.cfg`, MCTaskDelegation | `FreeIsDelegable` (`control_plane.py:4170`) | an approval undone half way leaves a card without a link and an attempt that still holds the task |
| `DelegationClaims.cfg`, MCTaskDelegation | `ReviewIdle` (`control_plane.py:3845`) | a task is in review while its attempt's turn runs |
| `ScheduleClaims.cfg`, MCScheduleRow | `RunningReports` (`schedules.py:2505`) | a run that ends without a report leaves its row running in the process that lives |
| `ScheduleClaims.cfg`, MCScheduleRow | `ServedRan` (`project_chats.py:8387`) | a slot is credited to a turn of somebody else that the run found in its chat |
| `ScheduleClaims.cfg`, MCScheduleRow | `CatchUpReaches` (`schedules.py:2443`) | a preparation that raises ends the start-up pass before the missed row was fired |
| `TerminalExited.cfg`, MCTerminalSession | `ExitedIsClosed` (`terminal_sessions.py:1293`) | an exit is told while the close is still under way |
| `TerminalUnattended.cfg`, MCTerminalSession | `UnattendedPruned` (`terminal_sessions.py:511`) | a socket that breaks in its replay is never detached, and the session keeps its controller |
| `BetweenTurnsClaims.cfg`, MCBetweenTurns | `TurnKeepsSlot` (`chat_streaming.py:2004`) | an event that is ready when the user's message arrives opens a background stream over the turn's |
| `BetweenTurnsClaims.cfg`, MCBetweenTurns | `TurnReadsAlone` (`providers/claude.py:1418`, `chat_streaming.py:1937`) | a turn awaits the drain in the registry only, and a cancelled one that was replaced there may still be unwinding |
| `BetweenTurnsClaims.cfg`, MCBetweenTurns | `PipeDrained` (`providers/claude.py:1409`) | after a Stop of a follow-up no drain reads what the CLI says until the next turn |
| `BetweenTurnsClaims.cfg`, MCBetweenTurns | `NoneStranded` (`subagent_watchers.py:253`) | a watcher that counted agents of a dead CLI leaves the announce to a drain to which nobody will speak |
| `BetweenTurnsClaims.cfg`, MCBetweenTurns | `BadgeClears` (`subagent_watchers.py:363`) | a watcher is replaced by one that does not find the session file, and neither takes the badge down |

## What is left out

Chat: text, images, titles, transcripts, notifications and event fan-out; the save of the
chat file (taken as atomic with the change it saves); crashes (a crash loses the live queue,
by design); more than one chat, since chats share nothing the properties speak of.
Webhooks: the trigger document, the rate window, the text of prompts, and the history
endpoint's backward read.  Retries: prompts and images, the length of intervals,
archived chats, and the open native form on which `start_stream` refuses a turn as it does
in a drain.  Components without a module are listed with the reason in `PROJECT.json`.

Proved for every value of the constants: each safety property of the passing runs, and the
refinements of MessageLifecycle and DelegationContract.  The assumptions are those the modules
name, about the kinds of the constants (a number is a number, a null value is not an id).

Only model-checked, and not proved: liveness (`StopSettles`, `OpenSettles`, `PendingFires`,
`TurnEndSettles`, `RunSettles`, `DetachedPruned`, `ParkReleased`), which rests on fairness and is
beyond the prover.  The counterexamples below their claims are TLC's too; the theorems about
what a claim needs are named with the module.
