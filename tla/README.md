# duet: TLA+ models, model-checking runs and proofs

duet is a dual-pane file manager written in Rust. Everything that can lose a
user's data happens below its panels, in `crates/duet-ops`: an operation is
turned into a plan of steps, queued, executed by concurrent tasks that write an
intent journal ahead of every change, and recovered from that journal after a
crash. These modules model that part first, then the panels' tables, the
directory sizes, the viewer and the conflict dialog, where threads and callbacks
overtake each other. They follow the source, not the documents under `docs/` and
`documentation/`; where the two disagree, "Disagreements" says so.

Paths below are relative to the repository's root. `PROJECT.json` maps every
definition to the lines it stands for.

## The system

| component | state it keeps | operations | talks to |
|---|---|---|---|
| job queue (`duet-ops/src/queue.rs`, `job.rs`, `event.rs`) | job table, priorities, slot count, space hold, one `ExecutionControl` per started job | `enqueue`, `reorder`, `pause`, `resume`, `cancel`, `resume_queue`; inside: `try_start_next`, `spawn_job`, the event relay, `pause_queue_for_space` | executor (control flag down, event channel up), UI (events) |
| step executor (`executor.rs`, `step.rs`, `plan.rs`, `conflict.rs`) | step outcomes, sticky conflict answer, back-offs, windows of intents, staged partials | `execute`: loop, copy batches, serial runs, gate, retry, one handler per step kind | journal writer thread, file system, conflict resolver |
| journal (`journal.rs`) | one JSON-lines file per job | `open`, `append_batch`, `replay`, `scan_incomplete`, `resolve` | executor, recovery |
| recovery (`recovery.rs`, `rerun.rs`, `duet-ui/src/recovery_dialog.rs`) | reports of unfinished jobs | resume, discard, retry failed and skipped steps | journal, queue |
| planners (`planner.rs`, `mover.rs`, `deleter.rs`, `creators.rs`, `attributes.rs`, `trash_restore.rs`) | none (a walk's local state) | one `plan_*` per operation | file system, trash |
| panels' tables (`duet-ui/src/file_table.rs`, `panel.rs`; `duet-index`: `model.rs`, `sort.rs`, `filter.rs`, ...) | a tab's directory and history; entries, order, selection, cursor, range anchor, quick search | navigate, list, select, sort, filter, type | background loads, idle timers |
| directory sizes (`duet-index`: `watch.rs`, `poll.rs`, `size_service.rs`) | debounce batch, last snapshot, size cache | watch, poll, compute, invalidate | kernel, whoever shows sizes |
| viewer (`duet-ui/src/viewer/`) | page, mode and search on screen; per file a queue of requests, a line index, two flags | open, page, change mode, search | a worker thread per file |
| operation dialogs (`conflict_dialog.rs`, `copy_move_dialog.rs`, `job_report_dialog.rs`, ...) | queue of prompts, the handles that get the keyboard back | ask, answer, hash, plan, close | executor threads, workspace, queue |
| configuration (`duet-config`) | TOML documents, backup, watcher | load, migrate, atomic write, reload | file system |
| trash and clipboard (`duet-platform`) | trash roots, free names | choose root, reserve name, restore | planners |
| file system layer (`duet-vfs`) | none | the calls the executor makes | kernel |
| commands, workspace and widgets, metadata, types | registries, focus, tables | parsing, rendering, launching | |

The behaviours that are hard, and that a test hardly reaches:

- **Interleaving.** Callers, `try_start_next` passes on any thread, one relay
  per job and the tasks of each executor share the queue's mutex, but never
  across an await. Each of them acts on what it read before it released it.
- **Stale state.** A job's displayed state follows events; its control flag is
  ahead of them.
- **Crash.** The process may die between an intent, its effect and its
  completion; a power loss also takes what no fsync covered.
- **Partial failure.** One step of a chain copy, verify, remove fails, is
  skipped, or never ran; the journal's disk refuses a write half-way.
- **Timeouts and retries.** A back-off races a cancel; an interrupted copy
  restarts under another partial name; an idle timer fires for an earlier word.
- **Liveness.** Nothing polls the queue: a lost wake-up strands a job. An
  executor's thread waits for a user who answers other dialogs first.
- **Ordering.** A listing, a page or a hit arrives after a later one has been
  asked for. Focus is moved a frame after the event that asked for it.
- **Long sequences.** What is left of a plan is planned again, and again.

`PROJECT.json` lists each of these at the line where it bites, with the
properties that would catch it. What makes each component correct, as far as
it is stated today, is under "Properties" below; for the components that are
not modelled yet it is in the plan at the end.

## Modules

| module | models | extends or instantiates |
|---|---|---|
| `ExecutionControl` | the atomic flag of a job: `pause` and `resume` are compare-and-swap, `cancel` is final | |
| `SlotScheduler` | abstract specification: jobs wait by weight then age, at most `Limit` are active, nothing starts while held, what is over stays over | |
| `JobQueue` | `QueueManager` with its callers, passes, relays, and executors reduced to what the queue sees of them | `ExecutionControl`; `SlotScheduler` by refinement |
| `JobQueueProofs` | theorems about `JobQueue` | `JobQueue`, `TLAPS` |
| `JournalFile` | journal records, torn tails, the fold of a scan | |
| `Executor` | `execute` for one job, the journal's writer thread, the names on disk | `JournalFile`, `ExecutionControl` |
| `CrashRecovery` | the journals of several jobs over several lives of the program, the startup scan and the recovery dialog | `JournalFile`, `Picked` |
| `CrashRecoveryProofs` | theorems about `CrashRecovery` | `CrashRecovery`, `PickedProofs` |
| `ExecutorProofs` | theorems about `Executor` | `Executor`, `TLAPS` |
| `Picked` | a sequence without some of its elements: `retain`, `filter`, `drain` by the positions that stay | |
| `PickedProofs` | lemmas about `Picked` and about what a sequence holds | `Picked`, `TLAPS` |
| `FileTableProofs`, `ViewerProofs`, `ConflictDialogProofs` | theorems about `FileTable`, `Viewer` and `ConflictDialog` | the module, `PickedProofs` |
| `Planner` | `plan_copy`, `plan_move` and what is left of a plan, as functions of a tree | |
| `PlanRuns` | a plan executed, failed, skipped, cancelled or cut, and planned again from its report or its journal | `Planner` |
| `FileTable` | a tab of a panel: navigation, listings, rows, cursor, selection, quick search | `Picked` |
| `DirectorySizes` | the size cache with the watcher and the poller that invalidate it | |
| `DirectorySizesProofs` | theorems about `DirectorySizes` | `DirectorySizes`, `TLAPS` |
| `Viewer` | the F3 viewer and the quick view with their workers | `Picked` |
| `ConflictDialog` | prompts of several jobs, the copy dialog beside them, and the keyboard | `Picked` |
| `MC...` | one per run's module: the instance for TLC | the module |

### The queue: `JobQueue`

Four kinds of process share `QueueState` under one mutex: callers, passes (a
thread in `try_start_next`), relays (one per started job) and executors. One
action is one critical section, or one stretch of code between two awaits, so
every interleaving the runtime can produce is a behaviour.

| state | code |
|---|---|
| `jobState`, `prio`, `nextId`, `running`, `spacePaused`, `spaceJobs` | `QueueState` and its `JobEntry`s (`next_id` and `next_seq` advance together) |
| `control` | each job's `ExecutionControl` |
| `passes` | threads at the top of `try_start_next`'s loop, which any caller or relay enters after it has released the mutex |
| `relay`, `chan` | where `spawn_job`'s thread or relay task stands, and the job's event channel |
| `exec`, `batches`, `worker` | `execute` and its step tasks: when they read the flag and which events they send, in which order |
| `space`, `held` | a bound, and a history variable: the jobs whose caller paused them last |

A terminal outcome is not distinguished, as the queue never looks at it. The
executor of `JobQueue` is the loop and the gate of `Executor` with the steps'
contents left out; what a step does to files cannot influence the queue except
by running out of space.

### One job: `Executor` and `JournalFile`

| state | code |
|---|---|
| `main` | where `execute`'s own loop stands: the start record, a window of intents, a batch, a serial run, the last record |
| `task[s]` | where step `s` stands in `run_step_with_retry` and in its handler, with its attempt, retries, ticket and policy |
| `outcomes` | `ctx.outcomes`, which `depends_on` is read from; `task[s].result` is the report, which a refused record makes differ |
| `journal` | the writer thread: `sent` to it, `written` of those to the file, `synced` of those durable, `poisoned` once an append has failed |
| `files`, `partials` | what each name holds, the `.duet-partial-*` files |
| `control`, `sticky` | the flag and the apply-to-all policy |
| `acted` | history: the steps that have changed the disk |

A crash is no action: whatever the power loss, a scan finds one of
`CrashPrefixes`, the records up to some point between `synced` and `written`.
What must hold after a crash is stated over all of them in every state, which
covers every crash at a fraction of the states.

A record's reply is a comparison of its ticket with `synced`, so the writer's
channel, its groups and the oneshot replies need no state of their own. The
handlers keep every early return; the five conflict handlers share the actions
in which they are alike (`ConflictSkips`, `AlternateTaken`, `RenameReplaces`,
`OldRemoved`), with the step's kind in the guard where they are not.

Abstracted, and why it does not matter to the properties:

- `OverwriteIfOlder` and `OverwriteIfDifferentSize` are one policy that either
  replaces or skips, since times and sizes are not modelled. A directory and a
  symbolic link compare with nothing and skip, as in the code.
- A recursive `Remove` is one unlink. Half a recursive removal
  is a state these runs do not have.
- `Reflink` behaves as `CopyFile`; the buffered copy's own temporary, which its
  commit removes, is left out, and so is what a power loss takes of a copied
  file that no fsync has covered.
- Metadata, sidecar and link contents are one value each. A `Verify` compares
  contents; the size-only variant compares less and is not modelled.
- The progress sampler and its estimates send events nobody acts on.
- The clock: a back-off ends at any time, and a poll of the flag sees it.

### Crash and recovery: `CrashRecovery`

| state | code |
|---|---|
| `files`, `synced` | `jobs/<id>.journal`: its lines, and how many of them an fsync has covered |
| `partials` | the `.duet-partial-*` files on disk |
| `nextId`, `jobs`, `names` | `QueueState::next_id`, the session's executors, and the partial names drawn (fresh for ever, as the code draws 64 random bits) |
| `reports`, `action` | the dialog's list, and the resume or discard in flight (`busy`) with what it still has to delete and to append |
| `up`, `session`, `faults` | the process, and two bounds |
| `history` | items asked for, partials handed to a resume, reports retired |

A job is a sequence of copies, one at a time: an intent, its fsync, the partial,
the publication, the completion. What else a job does is in `Executor`, and the
journal's own refusals too. `Killed` keeps what was written; `PowerLost` keeps of
each file what an fsync covered and any part of the rest, its last line
possibly torn or without its newline, and a line that lacked its newline keeps
lacking it over a second power loss. A write behind such a line spoils it, as the
file is opened for append. The directory holding the partials and their
removal is taken as durable at once. `Launch` numbers jobs from 0 again, and
one corrupt journal empties the whole list, both as in the code.

### Plans: `Planner` and `PlanRuns`

`Planner` holds no state: `PlanCopy` and `PlanMove` fold the breadth-first walk
of `planner.rs` and `mover.rs` over a tree, with the directories' attributes and
removals put off to the end in the planners' order, hard links found by inode,
and a rename instead of a copy for a source that is near. `Rebuilt` is
`rebuild_subset`: the steps to redo, their dependencies moved or cleared.

`PlanRuns` runs such a plan on two trees (`disk`): steps in their order, each
behind the executor's gate, done, failed or skipped by policy (`outcomes`);
`RerunReport` plans what a report lists, `CrashAndResume` what a journal with a
dangling intent lists, and both run again. `spoiled` remembers that a round was
cancelled or died, after which a report no longer covers all that is missing.
How steps interleave and how the journal is kept is `Executor`'s subject;
`Redo` over-approximates what a journal can have missed. Hard links stay on one
device, as a link across two fails in both programs alike.

### A table: `FileTable`

| state | code |
|---|---|
| `tab` | `FileTable`'s own fields: directory, history, lock |
| `table` | the delegate and its `DirectoryModel`: names, order, filter, selection, cursor entry, painted row, range anchor, quick search, generation |
| `loads` | `spawn_directory_load`'s tasks, each with the generation it captured |
| `timers` | the idle timers, by the session they captured |

A handler is one action, for all of them run on the UI thread; the delegate's
methods are functions from a table to the next. Loads and timers end in any
order. Columns but one, packed storage and drawing are left out; a page of rows
is the whole table, as a key that moves by a page is among those that move by
any number.

### Directory sizes: `DirectorySizes`

The kernel's queue (`raw`) has a length and turns into one "rescan" when it is
full; `batch` is what `debounce_loop` holds; `last` the poller's snapshot;
`updates` the channel both send to; `walk` a call of `compute`, which visits one
directory per step, then keys its result, then inserts it. Other programs write
files and rename a directory away and back. `unseen` remembers what the poller's
last fingerprint could not tell from the present tree, and `excused` marks a size that a change
passed by unseen, exactly in the three ways named at `WrongIsUnknown`.

### The viewer: `Viewer`

`view` is `ViewerState`; `workers[g]` the g-th file's thread with its channels,
the line index's thread and the flags `stop` and `cancelled`. A worker takes all
requests that wait, merges pages and serves searches one window at a time. What
a page shows is abstracted to which request asked for it, which hit it marks and
whether its line numbers are final: made with all lines counted, so that it tells
their total, or of a file whose lines are not counted at all. The arithmetic of
`text.rs` and `search.rs` is sequential and left to their tests. Either thread may
fail to start, to open the file or to read it; a line index that does is
`partial` for good.

### Prompts: `ConflictDialog`

| state | code |
|---|---|
| `job`, `left`, `sticky`, `task` | the executors' threads, each working, blocked in `resolve` or sent an answer |
| `requests`, `loop`, `pending`, `shown` | the channel, the loop that reads it, `pending_conflict_requests`, the open dialog |
| `hashing`, `renaming` | its two background hashes, its rename field |
| `form`, `planned` | the copy dialog, which may be planning; the jobs that run already and whose end of planning the dialog has yet to hear of |
| `focus`, `previous`, `formPrevious`, `claim`, `restore` | who has the keyboard, whom each dialog gives it back to, and the two moves deferred to the next frame |
| `asked`, `later`, `crossed` | history |

`Render` is a frame: deferred focus is applied there and nowhere else, so a
conflict can arrive between a close and its frame.

## Properties

`JobQueue`:

- `SchedulerSpec` (refinement): seen through the jobs that wait, hold a slot or
  are over, the queue is a `SlotScheduler`. Best first, never more than
  `max_concurrent`, no start while held for space, no return from the dead.
- `SlotAccounting`: `running` is incremented in one function and decremented in
  two others, under locks of their own; it equals the jobs that hold a slot.
- `NoIdleSlot`: nothing polls the queue, so every path that frees a slot or adds
  a job must end in a pass. Stated as: when no pass is under way, a queued job
  means every slot is taken.
- `TrackedIsHeld`: what `resume_queue` still has to resume does not run.
- `TerminalIsFinal`: nothing is heard of a job after `Finished`.
- `CancelEnds`, `QueuedLeaves` (liveness): a cancel ends the job and returns its
  slot wherever the job stands; a queued job starts once nothing is held.

`Executor`, each for every crash where it speaks of the journal:

- `WriteAhead`: the disk is never ahead of the journal, neither in a change nor
  in the name of a partial.
- `RedoneLast`: a rename, link or removal that recovery would redo although it
  took place is the last thing the job did.
- `GatedRemoval`: a removal follows a prerequisite that ran and did not fail,
  whatever the journal's disk refused.
- `NothingLost`: everything a move carries stays reachable under some name, as
  long as the file system only delays (retryable and space errors) and no
  conflict is skipped without verification ("Disagreements" says why).
- `OldOrNew`: what a copy or rename replaces is never missing.
- `OrphansNamed`: the report of any crash names every partial left on disk.
- `FinishedLast`, `OutcomeIsHonest`, `FinishedIsClean`: the job's last record is
  last, true, and consistent with what a scan makes of the file. `OutcomeIsHonest`
  has two parts: `OutcomeIsReported` (the outcome is that of the steps) and
  what `Completed` means on disk (`Delivered`).
- `TrashedHasInfo`: what is in the trash has its sidecar.
- `JobEnds` (liveness): a job that is not left paused ends.

`CrashRecovery`:

- `RetiredStaysGone`: what the user resolved is never listed again, whatever
  crashes follow, torn tails and failing appends included.
- `PartialsAccounted`: a partial on disk is named by the report of its journal
  until it is deleted or handed to a resume. A failed deletion must therefore
  keep the report.

`PlanRuns`:

- `PlanOrdered`: every plan, what is left of one included, can be run in its
  order: a directory before what is put into it, its attributes after, its
  removal after its contents'.
- `NothingLost`: what the sources held is under some name, through failures,
  skips, crashes and re-runs.
- `CleanMeansDone`: a last round with nothing to report means that all of the
  job is done, hard links and attributes included, though the round was only
  what earlier ones had failed at.

`FileTable`:

- `ShownIsCurrent`: listings end in any order, and a table that is not marked
  loading shows the directory its tab is at.
- `CursorLockstep`: the painted row is the model's cursor entry, through every
  sort, filter and listing.
- `AnchorKeepsEntry`: while a range is extended its anchor stays on its entry.
- `JumpIsTimed`: a find session always has the timer that ends it.

`DirectorySizes`: `WrongIsUnknown` (a wrong size served when all updates are
handled is one no update could tell of) and `WrongIsDropped` (liveness: a wrong
size does not stay, whatever overflowed, failed or was held back).

`Viewer`, when nothing is on its way:

- `LastAskedShown`: there is a page on screen and it is the last one asked for,
  in the mode that fits the file or was chosen, though requests merge and
  searches overtake.
- `ShownIsComplete`: its hit is the last found, and its line numbers are final
  exactly when the line index has not failed.
- `NoSearchLeft`: no search is shown to run when none does.
- `NeverStuck`: when only the user can act, every worker let go has ended and
  the current one has answered everything.

`ConflictDialog`:

- `InTurn`: every waiting thread is in exactly one place, and the user meets
  them in the order they asked.
- `Survivable`: after an answer for all remaining, a job is never blocked in all
  its threads by questions.
- `KeysReachFront`: the keyboard is with the dialog opened last, or the panels,
  unless dialogs were closed out of order or two plans ended within a frame.
- `PromptEnds` (liveness): no thread waits for ever.

`FileTable`, `PlanRuns`, `DirectorySizes`, `Viewer` and `ConflictDialog` also
define a `TypeOK`; TLC has evaluated each on these instances, and the runs list
what can go wrong instead.

## Runs

Passing:

| run | checks | instance |
|---|---|---|
| `queue_steps` | type, `SlotAccounting`, `NoIdleSlot`, `TerminalIsFinal`, `TrackedIsHeld`, `SchedulerSpec` | 2 jobs, 1 slot, 2 passes, 2 tasks, a batch, one full disk, 2 priorities; tasks symmetric |
| `queue_live` | `CancelEnds`, `QueuedLeaves` | 2 jobs, 1 slot, 2 tasks, one full disk; no symmetry |
| `executor_move` | `WriteAhead`, `NothingLost` | verified move of 2 files, 2 at once, a conflict, one retryable or space error, one pause or cancel |
| `executor_journal` | type, `GatedRemoval`, `FinishedLast`, `OutcomeIsHonest`, `FinishedIsClean` | directory with a hard link, windows of one intent, one fatal error or refused batch, one pause or cancel, answers for all |
| `executor_replace` | `OldOrNew`, `OrphansNamed`, `RedoneLast` | move over an existing file, no resolver, a refused batch, two pauses or cancels |
| `executor_trash` | `TrashedHasInfo`, `JobEnds` | sidecar and rename, two errors of any kind, two pauses or cancels, any disk |
| `recovery_restarts` | type, `RetiredStaysGone`, `PartialsAccounted` | a job of 2 copies, 2 ids, 2 lives, kills and power losses, one failing deletion or append; a resume starts a second job |
| `plan_rounds` | `PlanOrdered`, `NothingLost`, `CleanMeansDone` | a nested tree of 2 directories, 2 files, a second name and a symbolic link; 11 jobs of copies and moves, near or far, with and without verification; 3 faults, 3 re-runs |
| `table_rows` | `ShownIsCurrent`, `CursorLockstep`, `AnchorKeepsEntry`, `JumpIsTimed` | 3 directories, one with a directory of its own name; 2 navigations, failing listings, 2 keystrokes, either restored tab |
| `sizes` | `WrongIsUnknown`, `WrongIsDropped` | a root and a directory with two possible names, one walker, either source, a kernel queue of one, 2 changes, 2 faults |
| `viewer_rest` | `LastAskedShown`, `ShownIsComplete`, `NoSearchLeft`, `NeverStuck` | a text and a picture, viewer or quick view, 2 openings, 3 acts of the user, one error: a thread that does not start, an open or a read that fails, of the worker or of the line index |
| `conflict_turns` | `InTurn`, `Survivable`, `KeysReachFront`, `PromptEnds` | a running job of two threads, one of one thread started by the copy dialog, 3 conflicts in all, one hashed side, a click, a closing window |

Type invariants are checked where they are listed; every run has at least one
property that is not its type.

Every property of a passing run has a mutant in `PROJECT.json`: a deviation of
one definition, kept beside it in the module, that makes the run fail.

Bounds, all named: `MaxJobs`, `MaxSpace`, `MaxPasses`, `ChanCap`, `MaxFaults`,
`MaxControls`, `MaxConflicts`; `Batches` and the plans are finite as in the code. They suffice
because what is contended is small: two jobs and one slot produce a waiting
job, a lost wake-up and a hold that reaches a job in another state; two step
tasks produce every disagreement between a flag and an event; two passes
overlap; three jobs on two slots were run once, and the proofs cover any number.
`ChanCap` only delays a sender, which the unbounded
channel never does, and the proofs do without it. In `Executor` two copies and
two permits are a batch whose tasks end in either order, `Window = 1` makes a
batch span two windows, and `GroupCommit = 3` lets a group hold several records
and split. One fault reaches every single partial failure; two controls a pause
followed by a cancel. The window of 64 intents and the group of 512 records are
reduced, as only their being finite matters.

In `CrashRecovery` two lives suffice, as every property is a predicate on
what lies on disk, which holds for the next scan whether or not it is run: the
first life leaves a journal in any state, the second answers its report and may
die at any point of the answer. Its second id is never taken by the first
life, so that a resume always meets an older file: what the ids do to each
other is part of the run, and `PartialsAccounted` allows for it by name.

In `PlanRuns` three faults reach a copy that fails, is failed again and is
skipped, and three re-runs a plan whose dependencies have been moved twice. Two
loads are one that overtakes the other, two keystrokes a word and its
correction. A queue of one overflows at the second event; two changes are one
before and one during a walk, or a directory renamed away and back. Two openings
give a worker that is let go while it works, three acts a page, a mode and a
search in any order. Two threads of one job and one of another are the least
that have both a second question of one job and a question of another behind the
dialog.

**Deadlock** is checked in the runs of `JobQueue`, `Executor`, `FileTable` and
`DirectorySizes`. A queue can always be called; a job that has ended stutters
explicitly (`Ended`); a key can always be pressed. In the other runs it is not:
after the last life, `MaxSessions`, the last round, the last act of a user or
the end of the window nothing can happen any more.

**Fairness.** Weak fairness of the tasks and threads only: the runtime is
multi-threaded, every await of a task returns (a file-system call ends, a
channel of the same process delivers, the journal's disk answers, well or ill),
and `wait_out_pause` polls the flag. Steps are fair by what they do (`Gate`,
`StepReturns`, `Progress(s)`), so that fairness never chooses success. A
resolver is assumed to answer. Nothing is assumed of callers: nobody has to
resume, pause or cancel anything, which is why `QueuedLeaves` and `JobEnds` say
what must not be held for ever. In `DirectorySizes` the debounce thread, the
poller, the walks and the reader of the updates go on; the kernel and other
programs need not. In `ConflictDialog` the workspace's loop, its frames and the
hashes go on, and a user who is shown a question answers it in the end
(`UserAnswers`, weak fairness over all answers together): without that nothing
ends a prompt, and the code has no timeout for it. What threads do between two
conflicts is not assumed. `FileTable`, `Viewer`, `PlanRuns` and `CrashRecovery`
state safety only.

## Disagreements

Each was met while translating the code, and the models follow the code.

The queue, the executor and recovery:

- `pause_queue_for_space` (queue.rs:537) reads the displayed state, which lags
  the flag: a job resumed a moment ago is paused again without being recorded,
  and `resume_queue` (301-302, "resumes every job this module auto-paused")
  never resumes it. `TrackedIsHeld` speaks of recorded jobs only.
- A failed copy makes its `Verify` `Skipped`, which blocks nothing, and the
  `Remove` behind it deletes the source (executor.rs:1266 against 1261-1262 and
  mover.rs:30-32). `NothingLost` of `Executor` therefore lets no step fail, and
  a job of `PlanRuns` that moves does not verify if its steps may fail.
- The accelerated copy is never synced before its source is removed
  (executor.rs:2319); the design document promises the fsync (design.md:471).
- Ids restart at 0 in every process and a journal is opened for append, so the
  first job after a restart, a resume included, writes a second `JobStarted`
  into job 0's journal; from then on the whole scan fails (queue.rs:180).
- The steps a crash came before have no intent and are in no report, where
  journal.rs:166-167 says "the exact remaining work" (journal.rs:439). A job
  that died between two steps is not listed at all.
- When the `JobStarted` record cannot be written, `execute` returns without
  `Finished`, `spawn_job` drops the report, and the job stays `Running` for
  ever, with its slot freed (executor.rs:712; job.rs:4 says "The job never dies
  silently"). `JobStartedFails` of `JobQueue`
  is that end.
- A move without verification whose conflict is answered with Skip removes the
  source it did not copy: a `Skipped` prerequisite blocks nothing
  (executor.rs:1271; lib.rs:23-25).
- `resolve` on a journal whose tail is torn writes its first record onto the
  fragment, and the second makes the file corrupt (journal.rs:289, 402-431).
- A resume leaves the orphaned partial where it is, since the new job draws a
  fresh name and the resolve takes the old one out of every later report
  (journal.rs:169-171 says resume continues or replaces it).
- A resume whose resolve fails keeps its report on the list, so that Enter, or
  the next launch, enqueues the same steps again (recovery_dialog.rs:335-350).
- A job its caller pauses while the queue is held for space is resumed by
  `resume_queue` (queue.rs:128-134 says it stays paused).
- A step task past its gate reports `StepStarted` after a sibling's `Paused`, so
  a job that waits for a resume is shown as running (queue.rs:498).
- `Abort` at the conflict of the last step ends the job `CompletedWithSkips`,
  where conflict.rs:53-54 says `Cancelled` (executor.rs:1470).
- A publish that fails, or meets a directory, leaves its partial, and either a
  retry's intent or the step's completion takes its name out of the report
  (executor.rs:2414; docs/crash-safety.md:175-176). `OrphansNamed` therefore
  holds in `executor_replace`, whose faults are the journal's alone.
- Overwriting with a link or over a file that is in a directory's way removes
  the old entry before the new one exists (executor.rs:1949;
  docs/crash-safety.md:10). `OldOrNew` is checked for copies.

Plans:

- A resume lifts the gate of a failed step: the failed copy has its completion
  and is not redone, the `Remove` behind it has an intent and is, and
  `rebuild_subset` clears a dependency that is not redone, taking it for one
  that succeeded (rerun.rs:32). Jobs of `PlanRuns` that die therefore fail at
  nothing.
- A directory's or file's `SetMeta` runs on a destination whose copy was
  skipped; a re-run's copies touch directories whose attributes are not set
  again.
- When the first name of an inode is skipped or renamed at a conflict, its other
  names are linked to the file that was in the way; when its copy fails, the
  links are skipped and the removals of the linked sources still run.

Tables:

- A click, and the context menu, clear the filter before they use the row they
  were given, so another entry is hit (file_table.rs:3612, 1011-1024).
- `toggle_quick_filter` from filter to find never clears the filter; the word
  typed while a listing is on its way outlives it; a sort chosen meanwhile is
  lost, and so is the entry to select when a directory is read again.
- A session's generation restarts at 0, so a stale timer of an earlier session
  can end a later one early.
- Back and forward on a locked tab move the history though the tab stays.

Directory sizes (not wired into the table yet, file_table.rs:1323):

- An invalidation handled while a walk runs is lost (size_service.rs:156).
- A directory renamed away, changed inside and renamed back leaves the sizes of
  what is in it stale.
- The poller's fingerprint is of names and times: two directories of equal time
  that change places between two polls are the same to it (poll.rs).
- The poller sees the root's own entries only, nothing before its first
  snapshot, and no change undone between two.

The viewer:

- Replies of a worker that was let go are applied to the next file.
- Choosing the automatic mode before the file is open picks text for good.
- A search's cancel flag is cleared when the search starts, so a cancel sent
  while it was queued is lost; a cancelled search reports "Not found"; a search
  after a failed open is shown as running for ever.
- A line index whose thread does not start, cannot open the file or fails to
  read says nothing (worker.rs:221, 238, 245): pages tell no total and no numbers
  past what it had read, and "indexing n%" stays on screen for good.
  `ShownIsComplete` says so: final numbers exactly when the index has not failed.
- A worker thread that does not start (worker.rs:158) is logged only: the view
  stays empty, as if the file were still being opened.
- The end of the line index, or a resize, supersedes a scroll on its way; two
  quick pages scroll once.
- The search steps over overlapping occurrences, so an aligned UTF-16 hit right
  behind a misaligned one is missed.

The dialogs:

- A dialog closed before the one opened over it leaves the keyboard nowhere or
  at the panel: F5 opens the copy dialog over a conflict dialog, and a plan that
  ends while a conflict is in front gives the focus to the panel.
- Two plans that end within one frame overwrite `pending_focus_restore` with
  `None`.
- Escape while planning closes the dialog and not the plan: the job still
  starts, and its end closes whichever copy dialog is open by then.
- `on_mouse_down_out` is geometric: a click in the conflict dialog outside the
  copy card closes the copy dialog beneath.
- `pending_conflict_requests` is said to be bounded by the running jobs; each
  job's concurrent steps can all wait in it.
- A cancel does not reach a blocked thread, and two questions already asked are
  both shown after an answer for all remaining.

## Proofs

`JobQueueProofs` proves, for any number of jobs, slots, step tasks, batches and
priorities and for channels of any length: `TypeCorrect`, `SlotsExact`,
`NoSlotIdles`, `TrackedJobsHeld`, `FinishedIsFinal` and
`QueueImplementsScheduler`. Each is `Spec => []P`, or `Spec => SchedulerSpec`.
The only assumption is `QueueAssumption`, the types of the constants; that
`max_concurrent` is at least one is in `QueueManager::new`.

None of its invariants is inductive. Two strengthenings carry them:

- `Bookkeeping`: ids are handed out in order, a job has a relay only after it
  was taken from the queue, and `space_paused_jobs` names only such jobs.
  Without it a start could find its job already holding a slot, and the count
  would stay the same while the set grows (or the reverse); and a fresh job
  could be in `spaceJobs` when its control starts as `Running`.
- `Lockstep`: per job, how executor, channel and relay advance together. The
  executor runs between the journal's opening and the relay's last await,
  nothing follows a `Finished` in the channel, and a Terminal job has no relay
  in its event loop. `TerminalIsFinal` says the visible part of this.

`SlotsExact` follows the holders: only a start adds one and only three steps
take one away; `HoldersKept` shows that no other step moves them.
`NoSlotIdles` looks at the steps that could end the last pass: `PassEnds` is
guarded by the very condition, and every step that frees a slot or lets go of
the hold starts a pass. `QueueImplementsScheduler` maps each step to one step
of `SlotScheduler` or to a stutter.

`ExecutorProofs` proves, for any plan of any job, any
number of step tasks and any batch of the journal's writer, under
`ExecutorAssumption` (the shape of a plan: prerequisites and partners are earlier
steps of it, kinds are the code's):

- `TypeCorrect`;
- `WriteAheadHolds`. Its invariant `WriteAheadInv` has two halves. `Promised`
  follows an intent from its append to its acknowledgement: the lines an
  acknowledged append covers are durable, in the file at their place, and name
  the step and the partial the task goes on with. `Effects` follows it from
  there to the disk: a task past its gate, or what it left, stands behind a
  promised line;
- `GatedRemovalHolds`, `RedoneLastHolds`, `FinishedLastHolds`,
  `OutcomeIsReportedHolds` and `FinishedIsCleanHolds`, all from `OrderInv`.
  `Settles` says what a stopped task has left: its outcome known and its
  completion sent, or the journal broken. `Earlier` says it of every step before
  those the loop is at, which is what a rename or a removal that runs alone waits
  for, and `LastActed` and `Gated` are then kept when one acts. `Bounded` has
  `JobStarted` first and `JobFinished` last in what was sent; it needs `Shape`, by
  which no task is alive once the last record is sent.

What the files are after a job depends on the plan, and four theorems say what
of it. `NameStep` reduces every step of the executor to what it does to names,
over any plan: it rests, is told an outcome without touching a name, puts an
entry at a name of its own, or takes one away. Their hypotheses are constant
formulas about `Plan`, defined in `Executor`; `MCExecutor` assumes them of its
four plans (`PlansApart`; `SourcesKept` of the two moves), so TLC evaluates them
on every run. They are what mover.rs, planner.rs and deleter.rs build, with one
exception: a plan in which the other name that one entry would get at a conflict
("a (2)") is the destination of another is not covered.

- `OutcomeIsHonestHolds` (`CarryInv`), for plans whose sources go last
  (`SourcesLast`) and whose names are their steps' own (`OwnNames`): what a step
  has carried stays where it was put, as no other step may touch the name.
- `OldOrNewHolds` (`CarryInv` again), if no step empties a name that is taken
  from the start (`TakenStay`). A link, a symbolic link or a directory put over
  an entry removes it first, so a plan with one over a taken name is outside
  this hypothesis, as it is outside the truth.
- `TrashedHasInfoHolds` (`TrashInv`), for renames with sidecars of their own
  (`SidecarsOwn`): a rename acts after its sidecar is written, and the sidecar is
  removed by nobody.
- `NothingLostHolds` (`MoveInv`), for moves (`SourcesKept`: a source is removed
  only behind its copy or the verification of that). It assumes nothing of the
  faults, the answers or the controls: unless a step is `Risked`, its content is
  at its source, at its destination or at the alternate. `Risked` is the two
  disagreements above and nothing else: a copy that failed, and a skipped copy
  whose removal nothing verifies. The run excludes them by its faults and
  answers, the theorem by name.

Two more join the journal and the disk:

- `StagedIsNamed`, for any plan and any faults: the partial a copy is at work on
  (`InUse`) is among the orphans of whatever report a crash leaves. `Effects` has
  its intent among the durable records; `Numbered` adds that no later intent of
  the step names another partial and that it has no completion, since attempts
  count up and a completion is written when the step stops. A window numbers its
  steps from 1, so this needs that none of them has been tried before
  (`WindowIdle`);
- `OrphansNamedHolds`, when only the journal's disk fails (`FaultKinds = {}`, as in
  `executor_replace`): a step then gives up its partial only by removing it
  (`UsersKeep`), unless it ends as failed at a directory or a taken name, which
  is the rest of that disagreement above.

`TaskStep` sorts a task's steps into those that touch the journal, the disk and
the outcomes, so that each part of an invariant looks at a few cases instead of
at each disjunct of `Next`.

`DirectorySizesProofs` proves, for any tree of paths (`TreeAssumption`), any
number of walks, any queue and any number of changes and faults,
`WrongSizesAreUnknown`, `Spec => []WrongIsUnknown`, and `SizesTyped`. The
invariant `SizesInv` says more (`SizesAreCovered`), in three parts:

- `Pending(p)`: something still on its way, in the kernel's queue, in the batch,
  in the channel or in the poller's next comparison, will take `p`'s size away;
- `Walks(w)`: what a walk has counted is what is there, less what is still ahead
  of it on its stack, unless its path is pending or excused. `Counts` states the
  number as a cardinality, and `VisitCounts` is the step of a visit: it pops a
  path and pushes its children, which are below it and apart;
- `Holding(p)`: a cached size is right, pending or excused.

A change makes pending the sizes of the paths above it, which the lemmas on
prefixes (`InLine`, `Siblings`, `MovedIs`) find again for a renamed directory.

`FileTableProofs` proves, for any tree and any number of navigations, from
`FileTableAssumption`:

- `ListingIsCurrent`. `Current`: no listing on its way is of a later generation
  than the table, and one of the same generation is of the tab's directory, so
  that the listing `Applies` lets through is the right one;
- `CursorIsInLockstep`, `AnchorIsKept`. `Rowed`: no name is listed twice, the
  painted row is the cursor's, and the anchor's row shows the entry it was put
  on. It holds after each of the delegate's methods, one lemma each, since a sort,
  a filter and a listing find cursor and anchor again by entry;
- `FindSessionEnds`. `Timed`: a session and its timer come and go in one step.

`ViewerProofs` proves `LastAskedHolds`, `ShownCompleteHolds` and
`NoSearchLeftHolds` for any files, any number of openings and any length of the
channels, from `ViewerAssumption`. `Sound` ties the place of a worker's thread
to what is on its list, and has pages asked for, listed, answered and shown in the
order of their ids. `Searched` says who owes the end of a
search: the worker, a message on its way, or nobody. `Followed` does the same for
the page: the last request is answered on screen, or its page is on its way
(`OnItsWay`), or it still waits and nothing newer passes it (`Newer`); merging
requests drops only what a later one replaces. That page is
final, or the index is not complete or its end not yet told (`Late`), and it is
not final on an index that failed (`Indexed`).

`ConflictDialogProofs` proves, for any jobs and threads, from
`ConflictAssumption`:

- `AnswerForAllHolds`, `Spec => []Survivable`: inductive beside the types, since
  only `ResolveConflict` blocks a thread, and only of a job without an answer
  for all, and the step that records such an answer lets its own thread go;
- `AskedInTurn`. `Turned`: the dialog, the pending list and the channel, read in
  this order, are `asked`, which holds each blocked thread once; an answer, a
  dropped channel or a closing window takes threads out of both alike;
- `KeysReachFrontHolds`. `Fronted` follows the keyboard through what each dialog
  remembers: a dialog gives it back to whom it took it from, which is the front
  once it is closed, unless closing went out of order.

`CrashRecoveryProofs` proves, for any plans, ids, lives and faults, with kills
and power losses at any step, from `RecoveryAssumption` (the types of the
constants; a plan is a sequence):

- `TypeCorrect`;
- `RetiredHolds`. A scan reads a file up to its first `Break`, a second
  `JobStarted` or bytes that parse as nothing; what comes behind it can only make
  the file unreadable for good (`Dead`). `Settled` therefore follows a resolved
  journal: each intent of a durable part of it has its completion there, and the
  part is the whole file, or a break or a durable `Dead` bars what follows it.
  Getting there takes `Follows`: while a report is listed or being resolved, what
  its file still lacks are the records yet to be appended, and an unterminated
  line has one more of them behind it to spoil it;
- `PartialsHold`. A partial is `Announced` by a durable intent that no later
  readable line of its step supersedes, or its file is `Lost`, or it was handed
  on. A job that runs is `Fresh`, alone in its file and with nobody resolving it,
  or `Behind` a break, where nothing it writes is read again. This is what makes
  the ids of a new process safe to repeat, and it is why a job behind a break may
  stage a partial only once the file is `Dead`.

`Endures` (what an fsync covered stays, over appends and crashes) and `Shrinks` (a
crash adds no line, but may spoil the last) are all these proofs use of `AppendTo`
and `Survivors`; `ReplayFacts` is all they use of the scan.

`Picked` exists for these proofs. The prover knows nothing of `SelectSeq`, which
is recursive in the library; by the positions that stay, what is kept, in which
order and how often follows from cardinalities (`PickedElements`, `PickedOnce`,
`NthIncreases`).

What stays with TLC, and why:

- out of the prover's reach: the liveness properties `JobEnds`, `PromptEnds`,
  `WrongIsDropped`, `CancelEnds` and `QueuedLeaves`, and `NeverStuck`, which
  speaks of ENABLED;
- data: `PlanRuns` and `Planner` build plans by recursion over a tree, and what
  a recursive definition yields for every tree needs induction. Its
  `PlanOrdered`, `NothingLost` and `CleanMeansDone` are checked by the run.

Every other property of every run is a theorem; those of `Executor` about names
hold under the hypotheses named above.

## Not modelled, and the plan

1. `Executor` as an implementation of the executor that `JobQueue` assumes.
2. `ConfigStore`: atomic write, migration with its backup, the reload.
3. `compute_diff` against a reference, once a caller applies it
   (`DirectoryModel::apply_diff` is a stub); the tabs of a panel; the paging and
   searching arithmetic of the viewer; the free names of `trash.rs`.

Left out for good: rendering and layout (one thread, no state the
operations depend on); parsers of external formats and the start of external
programs in `duet-meta`; the system calls below `duet-vfs`; keymap and palette
look-up, which unit tests cover; the stub crates `duet-plugin` and
`duet-search`.
