----------------------------- MODULE CrashRecovery -----------------------------
(***************************************************************************)
(* The journals across the program's lives: a session runs jobs, dies at   *)
(* any moment, and the next one scans what is left (journal.rs, scan),     *)
(* lists it (duet-ui: workspace.rs, recovery_dialog.rs) and lets the user  *)
(* resume or discard it (recovery.rs, rerun.rs).                           *)
(*                                                                         *)
(* A job is a sequence of copies, each of one item; Executor has what a    *)
(* job does besides.  Here a job writes its records one at a time and      *)
(* always gets a journal that answers.                                     *)
(***************************************************************************)
EXTENDS JournalFile, SequencesExt, Picked

CONSTANTS
  Plans,        \* what the user may ask for: sequences of items
  Ids,          \* bound on the ids a session hands out, from 0
  Answers,      \* what the user does with a report: "resume", "discard"
  PowerLoss,    \* whether a crash may take what no fsync has covered
  MaxSessions,  \* bound on the program's lives
  JobSessions,  \* the last life in which the user asks for a new job
  MaxFaults     \* bound on failing deletions and failing resolves

Items == UNION {ToSet(plan) : plan \in Plans}

ASSUME RecoveryAssumption ==
  /\ Plans \subseteq Seq(Items)
  /\ Ids \subseteq Nat /\ 0 \in Ids
  /\ {MaxSessions, JobSessions, MaxFaults} \subseteq Nat
  /\ Answers \subseteq {"resume", "discard"}
  /\ PowerLoss \in BOOLEAN

VARIABLES
  files,    \* the journal of each id, as JournalFile has it
  synced,   \* the lines of each that an fsync has covered
  partials, \* the partials on disk: [id, name]
  up,       \* whether the program runs
  session,  \* its lives so far
  nextId,   \* QueueState::next_id
  jobs,     \* the jobs of this session
  names,    \* partial names drawn so far
  reports,  \* RecoveryDialogState::reports
  action,   \* the resume or discard in flight (busy)
  faults,   \* faults left
  history   \* items asked for; names handed to a resume; reports retired

disk == <<files, synced, partials>>
queue == <<nextId, jobs, names>>
dialog == <<reports, action>>
vars == <<disk, up, session, queue, dialog, faults, history>>

NoJob == [at |-> "none", plan |-> <<>>, step |-> 0, name |-> 0]
NoAction == [kind |-> "none"]

Init ==
  /\ files = [id \in Ids |-> NoFile]
  /\ synced = [id \in Ids |-> 0]
  /\ partials = {}
  /\ up = FALSE
  /\ session = 0
  /\ nextId = 0
  /\ jobs = [id \in Ids |-> NoJob]
  /\ names = 0
  /\ reports = {}
  /\ action = NoAction
  /\ faults = MaxFaults
  /\ history = [asked |-> {}, handed |-> {}, retired |-> {}]

-----------------------------------------------------------------------------
(* One append: the lines are in the file at once, durable after the fsync. *)
(* Bytes that continue an unterminated line spoil it for good.             *)
Write(id, record) ==
  /\ files' = [files EXCEPT ![id] = AppendTo(@, <<record>>)]
  /\ synced' = IF files[id].open
               THEN [synced EXCEPT ![id] = Len(files[id].lines)] ELSE synced

Synced(id) == synced[id] = Len(files[id].lines)

Sync(id) ==
  /\ up
  /\ ~Synced(id)
  /\ synced' = [synced EXCEPT ![id] = Len(files[id].lines)]
  /\ UNCHANGED <<files, partials, up, session, queue, dialog, faults, history>>

-----------------------------------------------------------------------------
(* The queue and the executor.                                             *)
(* next_id starts at 0 in every process, and Journal::open appends to the  *)
(* file it finds.                                                          *)
Spawn(plan) ==
  /\ nextId \in Ids
  /\ jobs' = [jobs EXCEPT ![nextId] =
                [at |-> "opened", plan |-> plan, step |-> 1, name |-> 0]]
  /\ nextId' = nextId + 1
  /\ UNCHANGED names

Enqueue(plan) ==
  /\ up
  /\ session <= JobSessions
  /\ ToSet(plan) \cap history.asked = {}
  /\ Spawn(plan)
  /\ history' = [history EXCEPT !.asked = @ \cup ToSet(plan)]
  /\ UNCHANGED <<disk, up, session, dialog, faults>>

Starts(id) ==
  /\ jobs[id].at = "opened"
  /\ Write(id, JobStarted([id |-> id, plan |-> jobs[id].plan]))
  /\ jobs' = [jobs EXCEPT ![id].at = "starting"]
  /\ UNCHANGED <<partials, up, session, nextId, names, dialog, faults, history>>

Started(id) ==
  /\ jobs[id].at = "starting"
  /\ Synced(id)
  /\ jobs' = [jobs EXCEPT ![id].at = "ready"]
  /\ UNCHANGED <<disk, up, session, nextId, names, dialog, faults, history>>

More(id) == jobs[id].step <= Len(jobs[id].plan)

Intends(id) ==
  /\ jobs[id].at = "ready"
  /\ More(id)
  /\ names' = names + 1
  /\ Write(id, Intent(jobs[id].step, names'))
  /\ jobs' = [jobs EXCEPT ![id].at = "intent", ![id].name = names']
  /\ UNCHANGED <<partials, up, session, nextId, dialog, faults, history>>

Stages(id) ==
  /\ jobs[id].at = "intent"
  /\ Synced(id)
  /\ partials' = partials \cup {[id |-> id, name |-> jobs[id].name]}
  /\ jobs' = [jobs EXCEPT ![id].at = "staged"]
  /\ UNCHANGED <<files, synced, up, session, nextId, names, dialog, faults, history>>

Publishes(id) ==
  /\ jobs[id].at = "staged"
  /\ partials' = partials \ {[id |-> id, name |-> jobs[id].name]}
  /\ jobs' = [jobs EXCEPT ![id].at = "published"]
  /\ UNCHANGED <<files, synced, up, session, nextId, names, dialog, faults, history>>

Completes(id) ==
  /\ jobs[id].at = "published"
  /\ Write(id, Completion(jobs[id].step, "Succeeded"))
  /\ jobs' = [jobs EXCEPT ![id].at = "ready", ![id].step = @ + 1]
  /\ UNCHANGED <<partials, up, session, nextId, names, dialog, faults, history>>

Finishes(id) ==
  /\ jobs[id].at = "ready"
  /\ ~More(id)
  /\ Write(id, JobFinished("Completed"))
  /\ jobs' = [jobs EXCEPT ![id].at = "ended"]
  /\ UNCHANGED <<partials, up, session, nextId, names, dialog, faults, history>>

-----------------------------------------------------------------------------
(* The process dies.  A kill leaves the page cache; a power loss leaves of *)
(* each file what was durable and any part of the rest.                    *)
Dies ==
  /\ up
  /\ up' = FALSE
  /\ jobs' = [id \in Ids |-> NoJob]
  /\ reports' = {}
  /\ action' = NoAction
  /\ UNCHANGED <<partials, session, nextId, names, faults, history>>

Killed == Dies /\ UNCHANGED <<files, synced>>

PowerLost ==
  /\ PowerLoss
  /\ \E left \in [Ids -> UNION {Survivors(files[id], synced[id]) : id \in Ids}] :
       /\ \A id \in Ids : left[id] \in Survivors(files[id], synced[id])
       /\ files' = left
       /\ synced' = [id \in Ids |-> Len(left[id].lines)]
  /\ Dies

Scanned(id) == Replay(files[id].lines)

(* Deviation of NeedsAttention: a job that left nothing undone is listed.   *)
EveryJournal(id) == Scanned(id) \notin {Corrupt, Nothing}

NeedsAttention(id) ==
  /\ Scanned(id) \notin {Corrupt, Nothing}
  /\ Scanned(id).incomplete # {} \/ Scanned(id).orphans # {}

ScanFails == \E id \in Ids : Scanned(id) = Corrupt

(* One corrupt file fails the whole scan, and the user gets a notice       *)
(* instead of the list.                                                    *)
Launch ==
  /\ ~up
  /\ session < MaxSessions
  /\ up' = TRUE
  /\ session' = session + 1
  /\ nextId' = 0
  /\ reports' = IF ScanFails THEN {}
                ELSE {Scanned(id) : id \in {i \in Ids : NeedsAttention(i)}}
  /\ UNCHANGED <<disk, jobs, names, action, faults, history>>

-----------------------------------------------------------------------------
(* The recovery dialog.  One action at a time, and only once its resolve   *)
(* has succeeded does the report leave the list.                           *)
InOrder(steps) == [i \in 1..Cardinality(steps) |-> Nth(steps, i)]

Remainder(report) ==
  LET redo == InOrder(report.incomplete)
  IN  [i \in 1..Len(redo) |-> report.job.plan[redo[i]]]

Resolution(report) ==
  LET steps == InOrder(report.incomplete)
  IN  [i \in 1..Len(steps) |-> Completion(steps[i], "Skipped")]
        \o <<JobFinished("Cancelled")>>

Begin(kind, report, doomed) ==
  action' = [kind |-> kind, report |-> report, doomed |-> doomed,
             todo |-> Resolution(report)]

ResumeSelected(report) ==
  /\ report \in reports
  /\ action = NoAction
  /\ Spawn(Remainder(report))
  /\ Begin("resume", report, {})
  /\ history' = [history EXCEPT !.handed = @ \cup {o[2] : o \in report.orphans}]
  /\ UNCHANGED <<disk, up, session, reports, faults>>

DiscardSelected(report) ==
  /\ report \in reports
  /\ action = NoAction
  /\ Begin("discard", report, {o[2] : o \in report.orphans})
  /\ UNCHANGED <<disk, up, session, queue, reports, faults, history>>

Busy == action # NoAction

Removes ==
  /\ Busy
  /\ \E name \in action.doomed :
       /\ partials' = {p \in partials : p.name # name}
       /\ action' = [action EXCEPT !.doomed = @ \ {name}]
  /\ UNCHANGED <<files, synced, up, session, queue, reports, faults, history>>

(* Deviation of RemoveFails: the discard goes on to resolve the journal.    *)
RemoveFailsUnnoticed ==
  /\ Busy
  /\ faults > 0
  /\ action.doomed # {}
  /\ action' = [action EXCEPT !.doomed = {}]
  /\ faults' = faults - 1
  /\ UNCHANGED <<disk, up, session, queue, reports, history>>

RemoveFails ==
  /\ Busy
  /\ faults > 0
  /\ action.doomed # {}
  /\ action' = NoAction
  /\ faults' = faults - 1
  /\ UNCHANGED <<disk, up, session, queue, reports, history>>

Resolving == Busy /\ action.doomed = {} /\ Synced(action.report.job.id)

ResolveWrites ==
  /\ Resolving
  /\ action.todo # <<>>
  /\ Write(action.report.job.id, Head(action.todo))
  /\ action' = [action EXCEPT !.todo = Tail(@)]
  /\ UNCHANGED <<partials, up, session, queue, reports, faults, history>>

(* An append may fail before its write or at its fsync.                    *)
ResolveFails ==
  /\ Busy
  /\ action.doomed = {}
  /\ ~(action.todo = <<>> /\ Synced(action.report.job.id))
  /\ faults > 0
  /\ action' = NoAction
  /\ faults' = faults - 1
  /\ UNCHANGED <<disk, up, session, queue, reports, history>>

(* Deviation of Retire: the report goes as soon as its action has begun.    *)
RetireAtOnce ==
  /\ Busy
  /\ reports' = {r \in reports : r.job.id # action.report.job.id}
  /\ action' = NoAction
  /\ history' = [history EXCEPT !.retired = @ \cup {action.report}]
  /\ UNCHANGED <<disk, up, session, queue, faults>>

Retire ==
  /\ Resolving
  /\ action.todo = <<>>
  /\ reports' = {r \in reports : r.job.id # action.report.job.id}
  /\ action' = NoAction
  /\ history' = [history EXCEPT !.retired = @ \cup {action.report}]
  /\ UNCHANGED <<disk, up, session, queue, faults>>

(* Escape resolves nothing; an action in flight goes on.                   *)
Close ==
  /\ reports # {}
  /\ reports' = {}
  /\ UNCHANGED <<disk, up, session, queue, action, faults, history>>

-----------------------------------------------------------------------------
JobStep(id) ==
  \/ Starts(id) \/ Started(id) \/ Intends(id) \/ Stages(id) \/ Publishes(id)
  \/ Completes(id) \/ Finishes(id) \/ Sync(id)

Next ==
  \/ \E plan \in Plans : Enqueue(plan)
  \/ \E id \in Ids : JobStep(id)
  \/ Launch \/ Killed \/ PowerLost
  \/ \E report \in reports :
       \/ "resume" \in Answers /\ ResumeSelected(report)
       \/ "discard" \in Answers /\ DiscardSelected(report)
  \/ Removes \/ RemoveFails \/ ResolveWrites \/ ResolveFails \/ Retire \/ Close

Spec == Init /\ [][Next]_vars

-----------------------------------------------------------------------------
(* The state's shape; what the dialog lists has steps to resume.            *)
TypeOK ==
  /\ \A id \in Ids : synced[id] \in 0..Len(files[id].lines)
  /\ \A p \in partials : p.id \in Ids /\ p.name \in 1..names
  /\ session \in 0..MaxSessions
  /\ nextId \in Nat
  /\ \A id \in Ids :
       jobs[id].at \in {"none", "opened", "starting", "ready", "intent",
                        "staged", "published", "ended"}
  /\ \A r \in reports :
       /\ r.job.id \in Ids
       /\ r.incomplete # {} /\ r.incomplete \subseteq 1..Len(r.job.plan)
  /\ ~up => reports = {} /\ action = NoAction

(* What was resolved never comes back: whatever crashes and sessions       *)
(* follow, no scan lists a job whose report was retired: its journal reads *)
(* as resolved, or is beyond reading (journal.rs, resolve;                 *)
(* recovery_dialog.rs, "the one thing this whole module exists to get      *)
(* right").                                                                *)
RetiredStaysGone == \A r \in history.retired : ~NeedsAttention(r.job.id)

(* No partial is leaked unnoticed: one on disk is in the report of its     *)
(* journal, in every session, unless its report was handed to a resume or  *)
(* its journal has become unreadable.                                      *)
PartialsAccounted ==
  \A p \in partials :
    \/ p.name \in history.handed
    \/ Scanned(p.id) = Corrupt
    \/ /\ Scanned(p.id) # Nothing
       /\ \E o \in Scanned(p.id).orphans : o[2] = p.name

===============================================================================
