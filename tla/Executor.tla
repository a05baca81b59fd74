------------------------------- MODULE Executor -------------------------------
(***************************************************************************)
(* One job's execution (crates/duet-ops/src/executor.rs, execute): the     *)
(* step loop, the tasks of a copy batch, the journal's writer thread and   *)
(* the names of the file system they change, under faults, pauses, cancels *)
(* and conflicts.  A crash is not an action: whatever the crash, what a    *)
(* scan finds is one of CrashPrefixes, so that what must hold after one is *)
(* stated over all of them, in every state.                                *)
(*                                                                         *)
(* A file is its content and a content a name; a partial is the attempt    *)
(* that staged it.  Steps count from 1, and a dep of 0 is no depends_on.   *)
(***************************************************************************)
EXTENDS JournalFile, ExecutionControl, FiniteSetsExt

CONSTANTS
  Plan,             \* the steps: [kind, src, dst, dep, conflict] each
  Paths,            \* the names the plan can touch
  Parent,           \* the directory of a path, "none" if it always exists
  Alternate,        \* the "name (2)" of a path, which is free
  InitialFiles,     \* what may be on disk when the job starts
  Concurrency,      \* copies that may run at once
  Window,           \* INTENT_WINDOW
  GroupCommit,      \* JOURNAL_GROUP_COMMIT_MAX
  MaxAttempts,      \* RETRYABLE_MAX_ATTEMPTS
  Interactive,      \* whether there is a conflict resolver
  Answers,          \* the [policy, all] answers the resolver may give
  DefaultConflict,  \* PlanOptions::default_conflict
  FaultKinds,       \* the error kinds the file system may answer with
  JournalMayFail,   \* whether the journal's disk may refuse a write
  MaxFaults,        \* bound on faults
  MaxControls       \* bound on the caller's pauses and cancels

Steps == 1..Len(Plan)

Kinds == {"CreateDir", "CopyFile", "Rename", "Link", "Symlink", "SetMeta",
          "Remove", "RemoveDir", "Verify", "WriteTrashInfo"}

Policies == {"Skip", "Overwrite", "OverwriteIf", "RenameTarget", "AutoRename",
             "Abort"}

(* What a path may name: an entry it can start with, or one a step makes.  *)
Contents ==
  {"none", "dir", "symlink", "trashinfo"}
    \cup {before[p] : before \in InitialFiles, p \in Paths}

ASSUME ExecutorAssumption ==
  /\ Plan \in Seq([kind : Kinds, src : Paths \cup {"none"},
                   dst : Paths \cup {"none"}, dep : Nat,
                   conflict : Policies \cup {"none"}])
  /\ \A s \in Steps : Plan[s].dep < s /\ Plan[s].dst # "none"
  /\ \A s \in Steps :
       Plan[s].kind \in {"CopyFile", "Rename", "Link"} => Plan[s].src # "none"
  /\ Parent \in [Paths -> Paths \cup {"none"}]
  /\ Alternate \in [Paths -> Paths]
  /\ InitialFiles \subseteq [Paths -> Contents]
  /\ {Concurrency, Window, GroupCommit} \subseteq Nat \ {0}
  /\ {MaxAttempts, MaxFaults, MaxControls} \subseteq Nat
  /\ Answers \subseteq [policy : Policies, all : BOOLEAN]
  /\ DefaultConflict \in Policies
  /\ FaultKinds \subseteq {"Retryable", "Space", "Fatal"}
  /\ {Interactive, JournalMayFail} \subseteq BOOLEAN

VARIABLES
  files,      \* what each path names: "none", "dir" or a content
  partials,   \* the .duet-partial-* files on disk: [step, attempt]
  journal,    \* [sent, written, synced, poisoned], see below
  control,    \* the job's ExecutionControl
  sticky,     \* sticky_conflict: an apply-to-all policy, or "none"
  task,       \* where each step stands
  outcomes,   \* ctx.outcomes: how each step that ran ended
  main,       \* where execute's own loop stands
  acted,      \* the steps that have changed the file system
  budget      \* faults and control calls left

vars == <<files, partials, journal, control, sticky, task, outcomes,
          main, acted, budget>>

fs == <<files, partials, acted>>

Outcomes == {"Succeeded", "Skipped", "Failed"}

(* A step's task: attempt numbers its Intents, and so its partials; named  *)
(* says that the window already journaled the next one; result is what     *)
(* apply_outcome is told, which a refused record makes differ from         *)
(* outcomes.                                                               *)
Idle == [at |-> "idle", attempt |-> 0, named |-> FALSE, retries |-> 0,
         ticket |-> 0, policy |-> "none",
         result |-> "none"]

Init ==
  /\ files \in InitialFiles
  /\ partials = {}
  /\ journal = [sent |-> <<JobStarted(0)>>, written |-> 0, synced |-> 0,
                poisoned |-> FALSE]
  /\ control = "Running"
  /\ sticky = "none"
  /\ task = [s \in Steps |-> Idle]
  /\ outcomes = [s \in Steps |-> "none"]
  /\ main = [at |-> "starting", next |-> 1, hi |-> 0, mark |-> 0, ticket |-> 1,
             outcome |-> "none"]
  /\ acted = {}
  /\ budget = [faults |-> MaxFaults, controls |-> MaxControls]

-----------------------------------------------------------------------------
(* The journal's writer thread.  sent is every record handed to it, in     *)
(* order; written of them are in the file and synced of those are durable. *)
(* A record's reply is its Ticket compared with synced, and once a write   *)
(* has failed every later record is refused.                               *)
Queue(records) == [journal EXCEPT !.sent = @ \o records]

Ticket(n) == Len(journal.sent) + n

Durable(ticket) == ticket <= journal.synced

Refused(ticket) == journal.poisoned /\ ticket > journal.synced

(* Mutant: a group is always full. *)
BatchOverruns == journal.synced + GroupCommit

Batch == Min({Len(journal.sent), journal.synced + GroupCommit})

WriteBatch ==
  /\ ~journal.poisoned
  /\ journal.written = journal.synced
  /\ Batch > journal.synced
  /\ journal' = [journal EXCEPT !.written = Batch]
  /\ UNCHANGED <<fs, control, sticky, task, outcomes, main, budget>>

SyncBatch ==
  /\ ~journal.poisoned
  /\ journal.written > journal.synced
  /\ journal' = [journal EXCEPT !.synced = journal.written]
  /\ UNCHANGED <<fs, control, sticky, task, outcomes, main, budget>>

(* The write stops short, or the fsync fails: no later record is written.  *)
BatchFails ==
  /\ JournalMayFail
  /\ ~journal.poisoned
  /\ budget.faults > 0
  /\ Batch > journal.synced
  /\ \E k \in journal.synced..Batch :
       /\ journal.written > journal.synced => k = journal.written
       /\ journal' = [journal EXCEPT !.written = k, !.poisoned = TRUE]
  /\ budget' = [budget EXCEPT !.faults = @ - 1]
  /\ UNCHANGED <<fs, control, sticky, task, outcomes, main>>

-----------------------------------------------------------------------------
(* The kinds of step the loop tells apart.                                 *)
CopyClass(s) == Plan[s].kind = "CopyFile"

(* Mutant: a removal is taken for one whose redo is harmless. *)
RedoSafeRemoval(s) ==
  Plan[s].kind \in {"CreateDir", "CopyFile", "SetMeta", "Verify", "Remove"}

RedoSafe(s) == Plan[s].kind \in {"CreateDir", "CopyFile", "SetMeta", "Verify"}

PartialOf(s, attempt) == IF CopyClass(s) THEN attempt ELSE 0

At(s, phase) == task[s].at = phase

Goes(s, phase) == task' = [task EXCEPT ![s].at = phase]

Running == {s \in Steps : task[s].at \notin {"idle", "ready", "done", "cancelled"}}

(* What a step's success puts at a path: something new, or its source.     *)
Product(s) ==
  IF Plan[s].kind = "CreateDir" THEN "dir"
  ELSE IF Plan[s].kind = "Symlink" THEN "symlink"
  ELSE IF Plan[s].kind = "WriteTrashInfo" THEN "trashinfo"
  ELSE files[Plan[s].src]

Present(p) == files[p] # "none"

Reachable(p) == Parent[p] # "none" => files[Parent[p]] = "dir"

Place(s, p) ==
  LET gone == IF Plan[s].kind = "Rename" THEN {Plan[s].src} ELSE {}
  IN  /\ files' = [q \in Paths |-> IF q = p THEN Product(s)
                                   ELSE IF q \in gone THEN "none" ELSE files[q]]
      /\ acted' = acted \cup {s}

Staged(s) == [step |-> s, attempt |-> task[s].attempt]

Unstage(s) == partials' = partials \ {Staged(s)}

(* Mutant: a skip is nothing to record. *)
ConcludeUnrecorded(s, outcome) ==
  /\ outcomes' = [outcomes EXCEPT ![s] = outcome]
  /\ journal' = IF outcome = "Skipped" THEN journal
                ELSE Queue(<<Completion(s, outcome)>>)
  /\ task' = [task EXCEPT ![s].result = outcome, ![s].at = "done"]
  /\ UNCHANGED main

(* outcomes.insert, then the Completion: awaited unless a redo is harmless.*)
Conclude(s, outcome) ==
  /\ outcomes' = [outcomes EXCEPT ![s] = outcome]
  /\ journal' = Queue(<<Completion(s, outcome)>>)
  /\ task' = [task EXCEPT ![s].result = outcome,
                          ![s].at = IF RedoSafe(s) THEN "done" ELSE "closing",
                          ![s].ticket = Ticket(1)]
  /\ UNCHANGED main

-----------------------------------------------------------------------------
(* Mutant: the step runs while its Intent is being written. *)
GateUnawaited(s) ==
  /\ At(s, "gate")
  /\ control = "Running"
  /\ journal' = IF task[s].named THEN journal
                ELSE Queue(<<Intent(s, PartialOf(s, task[s].attempt + 1))>>)
  /\ task' = [task EXCEPT ![s].at = "run", ![s].named = FALSE,
                          ![s].attempt = IF task[s].named THEN @ ELSE @ + 1]
  /\ UNCHANGED <<fs, control, sticky, outcomes, main, budget>>

(* run_step_with_retry: the gate, the Intent, the dispatch.                *)
GatePasses(s) ==
  /\ At(s, "gate")
  /\ control = "Running"
  /\ IF task[s].named
     THEN /\ task' = [task EXCEPT ![s].at = "run", ![s].named = FALSE]
          /\ UNCHANGED journal
     ELSE LET attempt == task[s].attempt + 1
          IN  /\ journal' = Queue(<<Intent(s, PartialOf(s, attempt))>>)
              /\ task' = [task EXCEPT ![s].at = "intent",
                                      ![s].attempt = attempt,
                                      ![s].ticket = Ticket(1)]
  /\ UNCHANGED <<fs, control, sticky, outcomes, main, budget>>

GateCancelled(s) ==
  /\ At(s, "gate")
  /\ control = "Cancelled"
  /\ Goes(s, "cancelled")
  /\ UNCHANGED <<fs, journal, control, sticky, outcomes, main, budget>>

(* Mutant: a refused Intent does not keep its step from running. *)
IntentAssumed(s) ==
  /\ At(s, "intent")
  /\ Durable(task[s].ticket) \/ Refused(task[s].ticket)
  /\ Goes(s, "run")
  /\ UNCHANGED <<fs, journal, control, sticky, outcomes, main, budget>>

IntentDurable(s) ==
  /\ At(s, "intent")
  /\ Durable(task[s].ticket)
  /\ Goes(s, "run")
  /\ UNCHANGED <<fs, journal, control, sticky, outcomes, main, budget>>

(* The step fails without having run: outcomes never hears of it.          *)
IntentRefused(s) ==
  /\ At(s, "intent")
  /\ Refused(task[s].ticket)
  /\ task' = [task EXCEPT ![s].at = "done", ![s].result = "Failed"]
  /\ UNCHANGED <<fs, journal, control, sticky, outcomes, main, budget>>

(* Mutant: depends_on is not looked at. *)
NeverBlocked(s) == FALSE

Blocked(s) == Plan[s].dep # 0 /\ outcomes[Plan[s].dep] = "Failed"

DependencyBlocks(s) ==
  /\ At(s, "run")
  /\ Blocked(s)
  /\ Conclude(s, "Skipped")
  /\ UNCHANGED <<fs, control, sticky, budget>>

Dispatch(s, kind) == At(s, "run") /\ ~Blocked(s) /\ Plan[s].kind = kind

(* A call into the file system is under way; a policy that is already      *)
(* settled needs none to skip or to abort, and none to be found.           *)
Calls(s) ==
  \/ At(s, "run") /\ ~Blocked(s)
  \/ task[s].at \in {"copying", "staged", "replacing"}
  \/ /\ At(s, "conflict")
     /\ Interactive /\ Plan[s].conflict = "none" /\ sticky = "none"
  \/ At(s, "resolved") /\ task[s].policy \notin {"Skip", "Abort"}

(* An error of the file system itself at any call a step makes.  Out of    *)
(* space pauses the job and retries; a retryable error backs off and       *)
(* retries a bounded number of times.  A copy that fails is unstaged; a    *)
(* publish that fails leaves its partial.                                  *)
CallFails(s) ==
  /\ Calls(s)
  /\ budget.faults > 0
  /\ \E kind \in FaultKinds :
       \/ /\ kind = "Space"
          /\ control' = AfterPause(control)
          /\ Goes(s, "gate")
          /\ UNCHANGED <<journal, outcomes, main>>
       \/ /\ kind = "Retryable"
          /\ task[s].retries < MaxAttempts
          /\ task' = [task EXCEPT ![s].at = "backoff", ![s].retries = @ + 1]
          /\ UNCHANGED <<journal, control, outcomes, main>>
       \/ /\ \/ kind = "Fatal"
             \/ kind = "Retryable" /\ task[s].retries = MaxAttempts
          /\ Conclude(s, "Failed")
          /\ UNCHANGED control
  /\ budget' = [budget EXCEPT !.faults = @ - 1]
  /\ IF At(s, "copying") THEN Unstage(s) ELSE UNCHANGED partials
  /\ UNCHANGED <<files, acted, sticky>>

(* Mutant: the back-off does not hear a cancel. *)
BackoffDeaf(s) ==
  /\ At(s, "backoff")
  /\ control # "Cancelled"
  /\ Goes(s, "gate")
  /\ UNCHANGED <<fs, journal, control, sticky, outcomes, main, budget>>

BackoffEnds(s) ==
  /\ At(s, "backoff")
  /\ Goes(s, IF control = "Cancelled" THEN "cancelled" ELSE "gate")
  /\ UNCHANGED <<fs, journal, control, sticky, outcomes, main, budget>>

(* The call succeeds in doing nothing but answer: not found, not empty,    *)
(* a difference.                                                           *)
Answer(s, outcome) ==
  Conclude(s, outcome) /\ UNCHANGED <<fs, control, sticky, budget>>

-----------------------------------------------------------------------------
(* copy_file_step: server_side_copy into the partial, then the publish.    *)
CopyBegins(s) ==
  /\ Dispatch(s, "CopyFile")
  /\ Present(Plan[s].src)
  /\ Reachable(Plan[s].dst)
  /\ partials' = partials \cup {Staged(s)}
  /\ Goes(s, "copying")
  /\ UNCHANGED <<files, acted, journal, control, sticky, outcomes, main, budget>>

CopyImpossible(s) ==
  /\ Dispatch(s, "CopyFile")
  /\ ~(Present(Plan[s].src) /\ Reachable(Plan[s].dst))
  /\ Answer(s, "Failed")

CopyEnds(s) ==
  /\ At(s, "copying")
  /\ Goes(s, "staged")
  /\ UNCHANGED <<fs, journal, control, sticky, outcomes, main, budget>>

(* Mutant: an interrupted copy leaves its partial behind. *)
CopyAbandoned(s) ==
  /\ At(s, "copying")
  /\ control # "Running"
  /\ Goes(s, "gate")
  /\ UNCHANGED <<fs, journal, control, sticky, outcomes, main, budget>>

CopyInterrupted(s) ==
  /\ At(s, "copying")
  /\ control # "Running"
  /\ Unstage(s)
  /\ Goes(s, "gate")
  /\ UNCHANGED <<files, acted, journal, control, sticky, outcomes, main, budget>>

Publishes(s) ==
  /\ At(s, "staged")
  /\ ~Present(Plan[s].dst)
  /\ Place(s, Plan[s].dst)
  /\ Unstage(s)
  /\ Conclude(s, "Succeeded")
  /\ UNCHANGED <<control, sticky, budget>>

PublishConflicts(s) ==
  /\ At(s, "staged")
  /\ Present(Plan[s].dst)
  /\ Goes(s, "conflict")
  /\ UNCHANGED <<fs, journal, control, sticky, outcomes, main, budget>>

-----------------------------------------------------------------------------
(* create_dir_step, rename_step, link_step, symlink_step and               *)
(* write_trash_info_step: one call that creates a name.                    *)
Creates(s) ==
  At(s, "run") /\ ~Blocked(s)
    /\ Plan[s].kind \in {"CreateDir", "Rename", "Link", "Symlink", "WriteTrashInfo"}

Creatable(s) ==
  /\ Reachable(Plan[s].dst)
  /\ Plan[s].kind \in {"Rename", "Link"} => Present(Plan[s].src)

CreateSucceeds(s) ==
  /\ Creates(s)
  /\ Creatable(s)
  /\ ~Present(Plan[s].dst)
  /\ Place(s, Plan[s].dst)
  /\ Conclude(s, "Succeeded")
  /\ UNCHANGED <<partials, control, sticky, budget>>

CreateImpossible(s) ==
  /\ Creates(s)
  /\ Creatable(s) => Plan[s].kind = "WriteTrashInfo" /\ Present(Plan[s].dst)
  /\ Answer(s, "Failed")

(* A directory where one is wanted is no conflict.                         *)
DirExists(s) ==
  /\ Dispatch(s, "CreateDir")
  /\ files[Plan[s].dst] = "dir"
  /\ Answer(s, "Succeeded")

CreateConflicts(s) ==
  /\ Creates(s)
  /\ Creatable(s)
  /\ Present(Plan[s].dst)
  /\ Plan[s].kind # "WriteTrashInfo"
  /\ ~(Plan[s].kind = "CreateDir" /\ files[Plan[s].dst] = "dir")
  /\ Goes(s, "conflict")
  /\ UNCHANGED <<fs, journal, control, sticky, outcomes, main, budget>>

-----------------------------------------------------------------------------
(* resolve_conflict: the step's own policy, then the sticky answer, then   *)
(* the resolver, then the job's default.                                   *)
Settle(s, policy) ==
  task' = [task EXCEPT ![s].at = "resolved", ![s].policy = policy]

PolicySettles(s) ==
  /\ At(s, "conflict")
  /\ \/ Plan[s].conflict # "none" /\ Settle(s, Plan[s].conflict)
     \/ /\ Plan[s].conflict = "none"
        /\ sticky # "none"
        /\ Settle(s, sticky)
     \/ /\ Plan[s].conflict = "none"
        /\ sticky = "none"
        /\ ~Interactive
        /\ Settle(s, DefaultConflict)
  /\ UNCHANGED <<fs, journal, control, sticky, outcomes, main, budget>>

(* The resolver blocks the step until it answers, whatever else happens.   *)
ResolverAnswers(s) ==
  /\ At(s, "conflict")
  /\ Plan[s].conflict = "none"
  /\ sticky = "none"
  /\ Interactive
  /\ \E answer \in Answers :
       /\ Settle(s, answer.policy)
       /\ sticky' = IF answer.all THEN answer.policy ELSE sticky
  /\ UNCHANGED <<fs, journal, control, outcomes, main, budget>>

Overwrites(s) ==
  At(s, "resolved") /\ task[s].policy \in {"Overwrite", "OverwriteIf"}

Replaces(s) == Overwrites(s) /\ files[Plan[s].dst] # "dir"

(* Neither a rename nor a File removal takes the place of a directory: the *)
(* step fails, and a copy's partial stays.                                 *)
ReplaceImpossible(s) ==
  /\ Overwrites(s)
  /\ files[Plan[s].dst] = "dir"
  /\ Answer(s, "Failed")

(* A skipped copy is unstaged, any other skip leaves things as they are.   *)
ConflictSkips(s) ==
  /\ At(s, "resolved")
  /\ task[s].policy \in {"Skip", "Abort", "OverwriteIf"}
  /\ control' = IF task[s].policy = "Abort" THEN AfterCancel(control) ELSE control
  /\ Unstage(s)
  /\ Conclude(s, "Skipped")
  /\ UNCHANGED <<files, acted, sticky, budget>>

(* RenameTarget without a name, or with one that is taken: the step fails, *)
(* and a copy's partial stays.                                             *)
AlternateRefused(s) ==
  /\ At(s, "resolved")
  /\ task[s].policy = "RenameTarget"
  /\ Answer(s, "Failed")

AlternateTaken(s) ==
  /\ At(s, "resolved")
  /\ task[s].policy \in {"RenameTarget", "AutoRename"}
  /\ ~Present(Alternate[Plan[s].dst])
  /\ Place(s, Alternate[Plan[s].dst])
  /\ Unstage(s)
  /\ Conclude(s, "Succeeded")
  /\ UNCHANGED <<control, sticky, budget>>

(* A rename replaces its destination in one call.                          *)
RenameReplaces(s) ==
  /\ Replaces(s)
  /\ Plan[s].kind \in {"CopyFile", "Rename"}
  /\ Place(s, Plan[s].dst)
  /\ Unstage(s)
  /\ Conclude(s, "Succeeded")
  /\ UNCHANGED <<control, sticky, budget>>

(* Mutant: a copy, too, removes what it replaces first. *)
OldRemovedForCopy(s) ==
  /\ Replaces(s)
  /\ Plan[s].kind \in {"CopyFile", "Link"}
  /\ files' = [files EXCEPT ![Plan[s].dst] = "none"]
  /\ acted' = acted \cup {s}
  /\ Goes(s, "replacing")
  /\ UNCHANGED <<partials, journal, control, sticky, outcomes, main, budget>>

(* Anything else is removed first; a CreateDir and a Symlink compare with  *)
(* nothing, and skip instead.                                              *)
OldRemoved(s) ==
  /\ Replaces(s)
  /\ \/ Plan[s].kind = "Link"
     \/ Plan[s].kind \in {"CreateDir", "Symlink"} /\ task[s].policy = "Overwrite"
  /\ files' = [files EXCEPT ![Plan[s].dst] = "none"]
  /\ acted' = acted \cup {s}
  /\ Goes(s, "replacing")
  /\ UNCHANGED <<partials, journal, control, sticky, outcomes, main, budget>>

NewCreated(s) ==
  /\ At(s, "replacing")
  /\ Place(s, Plan[s].dst)
  /\ Conclude(s, "Succeeded")
  /\ UNCHANGED <<partials, control, sticky, budget>>

-----------------------------------------------------------------------------
(* verify_step, set_meta_step and remove_step.                             *)
(* Mutant: a destination that exists is not compared with its source. *)
VerifyPresence(s) ==
  /\ Dispatch(s, "Verify")
  /\ Answer(s, IF Present(Plan[s].dst) THEN "Succeeded" ELSE "Failed")

VerifyEnds(s) ==
  /\ Dispatch(s, "Verify")
  /\ Answer(s, IF Present(Plan[s].src) /\ files[Plan[s].src] = files[Plan[s].dst]
               THEN "Succeeded" ELSE "Failed")

VerifyInterrupted(s) ==
  /\ Dispatch(s, "Verify")
  /\ control # "Running"
  /\ Goes(s, "gate")
  /\ UNCHANGED <<fs, journal, control, sticky, outcomes, main, budget>>

SetMetaEnds(s) ==
  /\ Dispatch(s, "SetMeta")
  /\ Answer(s, IF Present(Plan[s].dst) THEN "Succeeded" ELSE "Failed")

Emptied(p) == \A q \in Paths : Parent[q] = p => ~Present(q)

Removes(s) ==
  \/ Dispatch(s, "Remove")
  \/ Dispatch(s, "RemoveDir") /\ Emptied(Plan[s].dst)

RemoveSucceeds(s) ==
  /\ Removes(s)
  /\ Present(Plan[s].dst)
  /\ files' = [files EXCEPT ![Plan[s].dst] = "none"]
  /\ acted' = acted \cup {s}
  /\ Conclude(s, "Succeeded")
  /\ UNCHANGED <<partials, control, sticky, budget>>

RemoveImpossible(s) ==
  /\ Removes(s)
  /\ ~Present(Plan[s].dst)
  /\ Answer(s, "Failed")

DirNotEmpty(s) ==
  /\ Dispatch(s, "RemoveDir")
  /\ ~Emptied(Plan[s].dst)
  /\ Answer(s, "Skipped")

(* The awaited Completion of a step whose redo would not be harmless.      *)
CompletionDurable(s) ==
  /\ At(s, "closing")
  /\ Durable(task[s].ticket)
  /\ Goes(s, "done")
  /\ UNCHANGED <<fs, journal, control, sticky, outcomes, main, budget>>

CompletionRefused(s) ==
  /\ At(s, "closing")
  /\ Refused(task[s].ticket)
  /\ task' = [task EXCEPT ![s].at = "done", ![s].result = "Failed"]
  /\ UNCHANGED <<fs, journal, control, sticky, outcomes, main, budget>>

-----------------------------------------------------------------------------
(* execute: JobStarted, then the loop.                                     *)
Moves(at) == main' = [main EXCEPT !.at = at]

StartDurable ==
  /\ main.at = "starting"
  /\ Durable(main.ticket)
  /\ Moves("loop")
  /\ UNCHANGED <<fs, journal, control, sticky, task, outcomes, budget>>

StartRefused ==
  /\ main.at = "starting"
  /\ Refused(main.ticket)
  /\ Moves("ended")
  /\ UNCHANGED <<fs, journal, control, sticky, task, outcomes, budget>>

(* The steps from the next one that the loop takes together: a run of      *)
(* copies, a window of other redo-safe steps, or one strict step.          *)
RunEnd ==
  LET first == main.next
      alike(s) == IF CopyClass(first) THEN CopyClass(s)
                  ELSE RedoSafe(s) /\ ~CopyClass(s) /\ s < first + Window
      ends == {e \in first..Len(Plan) : \A s \in first..e : alike(s)}
  IN  IF RedoSafe(first) THEN Max(ends) ELSE first

IntentWindow(first, hi) == first..Min({hi, first + Window - 1})

NameWindow(first, hi) ==
  LET window == IntentWindow(first, hi)
      records == [i \in 1..Cardinality(window) |->
                    Intent(first + i - 1, PartialOf(first + i - 1, 1))]
  IN  /\ journal' = Queue(records)
      /\ task' = [s \in Steps |-> IF s \in window
                    THEN [task[s] EXCEPT !.attempt = 1, !.named = TRUE]
                    ELSE task[s]]
      /\ main' = [main EXCEPT !.at = "window", !.hi = hi, !.mark = Max(window),
                              !.ticket = Ticket(Cardinality(window))]

Turn == main.at = "loop" /\ main.next <= Len(Plan)

OpenWindow ==
  /\ Turn
  /\ control = "Running"
  /\ RedoSafe(main.next)
  /\ NameWindow(main.next, RunEnd)
  /\ UNCHANGED <<fs, control, sticky, outcomes, budget>>

NextWindow ==
  /\ main.at = "window"
  /\ Durable(main.ticket)
  /\ main.mark < main.hi
  /\ NameWindow(main.mark + 1, main.hi)
  /\ UNCHANGED <<fs, control, sticky, outcomes, budget>>

(* Every step to run has its intent: a batch spawns its tasks, other steps *)
(* run one at a time.                                                      *)
RunSteps(hi, journaled) ==
  IF CopyClass(main.next)
  THEN /\ main' = [main EXCEPT !.at = "batch", !.mark = journaled]
       /\ task' = [s \in Steps |->
                     IF s \in main.next..journaled THEN [task[s] EXCEPT !.at = "ready"]
                     ELSE IF s \in (journaled + 1)..hi
                          THEN [task[s] EXCEPT !.at = "done", !.result = "Failed"]
                     ELSE task[s]]
  ELSE IF journaled = hi
       THEN /\ Moves("serial")
            /\ Goes(main.next, "gate")
       ELSE /\ main' = [main EXCEPT !.at = "loop", !.next = hi + 1]
            /\ task' = [s \in Steps |->
                          IF s \in main.next..hi
                          THEN [task[s] EXCEPT !.at = "done", !.result = "Failed"]
                          ELSE task[s]]

WindowDurable ==
  /\ main.at = "window"
  /\ Durable(main.ticket)
  /\ main.mark = main.hi
  /\ RunSteps(main.hi, main.hi)
  /\ UNCHANGED <<fs, journal, control, sticky, outcomes, budget>>

(* The steps from the refused window on fail; those before it run.         *)
WindowRefused ==
  /\ main.at = "window"
  /\ Refused(main.ticket)
  /\ LET start == main.next + ((main.mark - main.next) \div Window) * Window
     IN  RunSteps(main.hi, start - 1)
  /\ UNCHANGED <<fs, journal, control, sticky, outcomes, budget>>

TakePermit(s) ==
  /\ At(s, "ready")
  /\ Cardinality(Running) < Concurrency
  /\ Goes(s, "gate")
  /\ UNCHANGED <<fs, journal, control, sticky, outcomes, main, budget>>

StrictStep ==
  /\ Turn
  /\ control = "Running"
  /\ ~RedoSafe(main.next)
  /\ Goes(main.next, "gate")
  /\ main' = [main EXCEPT !.at = "serial", !.hi = main.next]
  /\ UNCHANGED <<fs, journal, control, sticky, outcomes, budget>>

(* Mutant: skips are forgotten. *)
OutcomeWithoutSkips(cancelled) ==
  IF cancelled THEN "Cancelled"
  ELSE IF \E s \in Steps : task[s].result = "Failed" THEN "Failed"
  ELSE "Completed"

(* The outcome is read off the report, and then journaled.                 *)
OutcomeOf(cancelled) ==
  LET reported == {task[s].result : s \in Steps}
  IN  IF cancelled THEN "Cancelled"
      ELSE IF "Failed" \in reported THEN "Failed"
      ELSE IF "Skipped" \in reported THEN "CompletedWithSkips"
      ELSE "Completed"

Finish(cancelled) ==
  /\ main' = [main EXCEPT !.at = "finishing", !.outcome = OutcomeOf(cancelled),
                          !.ticket = Ticket(1)]
  /\ journal' = Queue(<<JobFinished(OutcomeOf(cancelled))>>)

LoopDone ==
  /\ main.at = "loop"
  /\ main.next > Len(Plan)
  /\ Finish(FALSE)
  /\ UNCHANGED <<fs, control, sticky, task, outcomes, budget>>

LoopCancelled ==
  /\ Turn
  /\ control = "Cancelled"
  /\ Finish(TRUE)
  /\ UNCHANGED <<fs, control, sticky, task, outcomes, budget>>

(* Mutant: the first task to stop ends the batch. *)
JoinedFirst(first, last) ==
  \E s \in first..last : task[s].at \in {"done", "cancelled"}

(* The batch is joined whole, cancelled or not.                            *)
Joined(first, last) ==
  \A s \in first..last : task[s].at \in {"done", "cancelled"}

BatchEnds ==
  /\ main.at = "batch"
  /\ Joined(main.next, main.mark)
  /\ IF \E s \in main.next..main.mark : At(s, "cancelled")
     THEN Finish(TRUE)
     ELSE /\ main' = [main EXCEPT !.at = "loop", !.next = main.hi + 1]
          /\ UNCHANGED journal
  /\ UNCHANGED <<fs, control, sticky, task, outcomes, budget>>

SerialNext ==
  /\ main.at = "serial"
  /\ At(main.next, "done")
  /\ IF main.next < main.hi
     THEN /\ main' = [main EXCEPT !.next = @ + 1]
          /\ Goes(main.next + 1, "gate")
     ELSE /\ main' = [main EXCEPT !.at = "loop", !.next = @ + 1]
          /\ UNCHANGED task
  /\ UNCHANGED <<fs, journal, control, sticky, outcomes, budget>>

SerialCancelled ==
  /\ main.at = "serial"
  /\ At(main.next, "cancelled")
  /\ Finish(TRUE)
  /\ UNCHANGED <<fs, control, sticky, task, outcomes, budget>>

FinishAnswered ==
  /\ main.at = "finishing"
  /\ Durable(main.ticket) \/ Refused(main.ticket)
  /\ Moves("ended")
  /\ UNCHANGED <<fs, journal, control, sticky, task, outcomes, budget>>

-----------------------------------------------------------------------------
(* The job's callers: the queue's pause, resume and cancel.                *)
Steer(next) ==
  /\ main.at # "ended"
  /\ control' = next
  /\ control' # control
  /\ UNCHANGED <<fs, journal, sticky, task, outcomes, main>>

Pause ==
  /\ budget.controls > 0
  /\ Steer(AfterPause(control))
  /\ budget' = [budget EXCEPT !.controls = @ - 1]

Cancel ==
  /\ budget.controls > 0
  /\ Steer(AfterCancel(control))
  /\ budget' = [budget EXCEPT !.controls = @ - 1]

Resume == Steer(AfterResume(control)) /\ UNCHANGED budget

Ended == main.at = "ended" /\ UNCHANGED vars

-----------------------------------------------------------------------------
(* What the threads of the program do, and the callers and the disk.       *)
Writer == WriteBatch \/ SyncBatch

Loop ==
  \/ StartDurable \/ StartRefused
  \/ OpenWindow \/ NextWindow \/ WindowDurable \/ WindowRefused
  \/ StrictStep \/ SerialNext \/ SerialCancelled \/ BatchEnds
  \/ LoopDone \/ LoopCancelled \/ FinishAnswered

Progress(s) ==
  \/ TakePermit(s) \/ GatePasses(s) \/ GateCancelled(s)
  \/ IntentDurable(s) \/ IntentRefused(s) \/ DependencyBlocks(s)
  \/ CopyBegins(s) \/ CopyImpossible(s) \/ CopyEnds(s) \/ CopyInterrupted(s)
  \/ Publishes(s) \/ PublishConflicts(s)
  \/ CreateSucceeds(s) \/ CreateImpossible(s) \/ DirExists(s) \/ CreateConflicts(s)
  \/ PolicySettles(s) \/ ConflictSkips(s)
  \/ AlternateRefused(s) \/ AlternateTaken(s)
  \/ ReplaceImpossible(s) \/ RenameReplaces(s) \/ OldRemoved(s) \/ NewCreated(s)
  \/ VerifyEnds(s) \/ VerifyInterrupted(s) \/ SetMetaEnds(s)
  \/ RemoveSucceeds(s) \/ RemoveImpossible(s) \/ DirNotEmpty(s)
  \/ CompletionDurable(s) \/ CompletionRefused(s) \/ BackoffEnds(s)

Next ==
  \/ Writer \/ BatchFails \/ Loop
  \/ \E s \in Steps : Progress(s) \/ ResolverAnswers(s) \/ CallFails(s)
  \/ Pause \/ Resume \/ Cancel
  \/ Ended

Spec == Init /\ [][Next]_vars

(* The writer, the loop and every task run to their next await; a resolver *)
(* answers in the end, an error never has to happen, and nobody has to     *)
(* resume a paused job.                                                    *)
FairSpec ==
  /\ Spec
  /\ WF_vars(Writer)
  /\ WF_vars(Loop)
  /\ \A s \in Steps : WF_vars(Progress(s)) /\ WF_vars(ResolverAnswers(s))

-----------------------------------------------------------------------------
(* What the plans of mover.rs, planner.rs and deleter.rs have in common,   *)
(* unless the other name of one entry is the name of another.  First, the  *)
(* names a step may fill, and those it may empty, by removing the entry    *)
(* before it makes its own, too.                                           *)
Makers == {"CreateDir", "CopyFile", "Rename", "Link", "Symlink", "WriteTrashInfo"}

Carries(s) == Plan[s].kind \in {"CopyFile", "Rename"}

(* What took place cannot take place again: none of these is RedoSafe.     *)
OnceOnly == {"Rename", "Link", "Symlink", "Remove", "RemoveDir", "WriteTrashInfo"}

Makes(s) ==
  IF Plan[s].kind \in Makers THEN {Plan[s].dst, Alternate[Plan[s].dst]} ELSE {}

Drops(s) ==
  IF Plan[s].kind = "Rename" THEN {Plan[s].src}
  ELSE IF Plan[s].kind \in {"Remove", "RemoveDir", "CreateDir", "Link", "Symlink"}
       THEN {Plan[s].dst}
  ELSE {}

Touches(s) == Makes(s) \cup Drops(s)

(* What a step carries is removed by a later step only, one at a time, and *)
(* the names it may carry it to are its own.                               *)
SourcesLast ==
  \A s, t \in Steps : Carries(s) /\ t # s /\ Plan[s].src \in Touches(t) =>
    t > s /\ Plan[t].kind \in OnceOnly

OwnNames ==
  \A s, t \in Steps : Carries(s) /\ t # s => Makes(s) \cap Touches(t) = {}

(* A destination that is taken from the start is not one a step empties.   *)
Taken(s) ==
  /\ Plan[s].kind \in {"CreateDir", "CopyFile", "Rename", "Link", "Symlink"}
  /\ \A before \in InitialFiles : before[Plan[s].dst] # "none"

TakenStay ==
  \A s, t \in Steps : Taken(s) => Plan[s].dst \notin Drops(t)

(* A move: what is carried is removed by a step that depends on the one    *)
(* that carries it, or on the verification of that (mover.rs, plan_move).  *)
(* Nothing else is asked of the job, and its sources are known.            *)
Checks(v, s) ==
  /\ Plan[v].kind = "Verify" /\ Plan[v].dep = s
  /\ Plan[v].src = Plan[s].src /\ Plan[v].dst = Plan[s].dst

SourcesKept ==
  /\ \A s, t \in Steps : Carries(s) /\ t # s /\ Plan[s].src \in Touches(t) =>
       /\ Plan[t].kind = "Remove" /\ Plan[t].dep # 0
       /\ Plan[t].dep = s \/ Checks(Plan[t].dep, s)
  /\ \A s \in Steps : Plan[s].src # "none" =>
       \E c \in Steps : Carries(c) /\ Plan[c].src = Plan[s].src
  /\ \A s \in Steps : Carries(s) =>
       \A before, other \in InitialFiles : before[Plan[s].src] = other[Plan[s].src]

(* A rename that depends on a step depends on the sidecar of its own.      *)
SidecarsOwn ==
  \A s \in Steps : Plan[s].kind = "Rename" /\ Plan[s].dep # 0 =>
    /\ Plan[Plan[s].dep].kind = "WriteTrashInfo" /\ Plan[Plan[s].dep].dep = 0
    /\ \A t \in Steps : t # Plan[s].dep => Plan[Plan[s].dep].dst \notin Touches(t)

-----------------------------------------------------------------------------
(* Every variable is of its type.                                          *)
TypeOK ==
  /\ files \in [Paths -> Contents]
  /\ partials \subseteq [step : Steps, attempt : Nat]
  /\ journal.written \in journal.synced..Len(journal.sent)
  /\ journal.poisoned \in BOOLEAN
  /\ control \in ControlState
  /\ sticky \in Policies \cup {"none"}
  /\ \A s \in Steps :
       /\ task[s].at \in {"idle", "ready", "gate", "intent", "run", "copying",
                          "staged", "conflict", "resolved", "replacing",
                          "closing", "backoff", "done", "cancelled"}
       /\ task[s].attempt \in Nat
       /\ task[s].retries \in 0..MaxAttempts
       /\ task[s].policy \in Policies \cup {"none"}
       /\ task[s].result \in Outcomes \cup {"none"}
  /\ outcomes \in [Steps -> Outcomes \cup {"none"}]
  /\ main.at \in {"starting", "loop", "window", "batch", "serial", "finishing",
                  "ended"}
  /\ main.next \in 1..(Len(Plan) + 1)
  /\ acted \subseteq Steps

(* What a startup scan may find of the journal, had the program died now.  *)
CrashPrefixes ==
  {SubSeq(journal.sent, 1, k) : k \in journal.synced..journal.written}

(* A crash never finds the file system changed by a step the journal does  *)
(* not announce, nor a partial whose own name it does not give             *)
(* (docs/crash-safety.md, "Mechanism common to every step", 1).            *)
WriteAhead ==
  \A lines \in CrashPrefixes :
    /\ acted \subseteq Intended(lines)
    /\ \A p \in partials : Has(lines, Intent(p.step, p.attempt))

(* A rename, a removal or a link that a recovery would redo although it    *)
(* took place is the last thing the job did: the strict records stop the   *)
(* loop until the disk has them (executor.rs, redo_safe).                  *)
RedoneLast ==
  \A lines \in CrashPrefixes : \A s \in acted \ Completed(lines) :
    Plan[s].kind \in OnceOnly => \A t \in acted : t <= s

(* A removal that depends on another step has taken place only if that     *)
(* step ran in this job and did not fail, whatever the journal's disk and  *)
(* the other steps did.                                                    *)
GatedRemoval ==
  \A s \in acted : Plan[s].kind = "Remove" /\ Plan[s].dep # 0 =>
    outcomes[Plan[s].dep] \in {"Succeeded", "Skipped"}

(* What a Rename that depends on a sidecar has moved to the trash has its  *)
(* sidecar beside it (deleter.rs, plan_trash).                             *)
TrashedHasInfo ==
  \A s \in acted : Plan[s].kind = "Rename" /\ Plan[s].dep # 0 =>
    files[Plan[Plan[s].dep].dst] = "trashinfo"

(* The contents the job is asked to move or copy.                          *)
Payload ==
  UNION {{before[Plan[s].src] : s \in {t \in Steps : Plan[t].src # "none"}}
           : before \in InitialFiles}

(* Whatever has failed so far, everything the job moves is still           *)
(* somewhere under a name of its own, not in a partial alone.              *)
NothingLost == \A c \in Payload \ {"none"} : \E p \in Paths : files[p] = c

(* A removal takes place although what it removes was not carried: its     *)
(* copy failed, so that the verification was skipped, or the copy itself   *)
(* was skipped and nothing verifies it.                                    *)
Risked(s) ==
  \/ outcomes[s] = "Failed"
  \/ /\ outcomes[s] = "Skipped"
     /\ \E t \in Steps : Plan[t].kind = "Remove" /\ Plan[t].dep = s

(* What a conflict policy may replace is never missing: it is the old      *)
(* entry or the new one (documentation/design.md, FR-OPS-07).              *)
OldOrNew == \A s \in Steps : Taken(s) => Present(Plan[s].dst)

(* A crash finds every partial on disk among the orphans of the journal's  *)
(* report (docs/crash-safety.md, "Batching", 2).                           *)
OrphansNamed ==
  \A lines \in CrashPrefixes : \A p \in partials :
    <<p.step, p.attempt>> \in Replay(lines).orphans

(* The outcome a job ends with is the one its steps had: skips leave no    *)
(* step unreported, Cancelled is never said of a job nobody cancelled, and *)
(* Completed moves every file to its destination or an alternate.          *)
Delivered(s) ==
  Carries(s) =>
    \E before \in InitialFiles : \E p \in {Plan[s].dst, Alternate[Plan[s].dst]} :
      before[Plan[s].src] # "none" /\ files[p] = before[Plan[s].src]

OutcomeIsReported ==
  /\ main.outcome = "Completed" => \A s \in Steps : task[s].result = "Succeeded"
  /\ main.outcome = "CompletedWithSkips" =>
       \A s \in Steps : task[s].result \in {"Succeeded", "Skipped"}
  /\ main.outcome = "Cancelled" => control = "Cancelled"

OutcomeIsHonest ==
  /\ OutcomeIsReported
  /\ main.outcome = "Completed" => \A s \in Steps : Delivered(s)

(* JobFinished is the last record of its journal, and by then every step   *)
(* has stopped: nothing of the job touches the disk after it.              *)
FinishedLast ==
  main.at \in {"finishing", "ended"} =>
    /\ \A s \in Steps : task[s].at \in {"idle", "done", "cancelled"}
    /\ \A i \in 1..(Len(journal.sent) - 1) : journal.sent[i].type # "JobFinished"

(* A scan that finds the job Completed or CompletedWithSkips finds nothing *)
(* to resume, whatever of the journal the crash kept.                      *)
FinishedIsClean ==
  \A lines \in CrashPrefixes :
    LET report == Replay(lines)
    IN  /\ report # Corrupt
        /\ \A o \in {"Completed", "CompletedWithSkips"} :
             Has(lines, JobFinished(o)) =>
               report.incomplete = {}

(* A job that is not left paused for ever ends.                            *)
JobEnds == <>[](control = "Paused") \/ <>(main.at = "ended")

===============================================================================
