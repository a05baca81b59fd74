------------------------------- MODULE JobQueue -------------------------------
(***************************************************************************)
(* QueueManager (crates/duet-ops/src/queue.rs): several jobs share         *)
(* MaxConcurrent slots.  Four kinds of process touch the queue's state,    *)
(* each under its mutex and never across an await:                         *)
(*                                                                         *)
(*   callers    enqueue, reorder, pause, resume, cancel, resume_queue      *)
(*   passes     threads inside try_start_next, which any caller or relay   *)
(*              enters AFTER it has released the mutex                     *)
(*   relays     one task per started job: drains that job's event channel, *)
(*              updates its state, and gives the slot back at the end      *)
(*   executors  execute() and its concurrent step workers                  *)
(*              (executor.rs), which share with the queue only the job's   *)
(*              ExecutionControl flag and its event channel                *)
(*                                                                         *)
(* The executor is kept to what the queue can see of it: when it reads the *)
(* flag, and in which order it sends events.  A plan is a sequence of      *)
(* Batches batches of one step per worker.                                 *)
(***************************************************************************)
EXTENDS Integers, FiniteSets, Sequences, ExecutionControl

CONSTANTS
  MaxJobs,        (* bound: jobs submitted                                 *)
  MaxConcurrent,  (* QueueManager::max_concurrent, at least 1              *)
  Priorities,     (* Job::priority values; lower runs first                *)
  Workers,        (* step tasks run_batch keeps in flight (concurrency)    *)
  Batches,        (* batches in a plan                                     *)
  FullDisk,       (* jobs whose destination may run out of space           *)
  MaxSpace,       (* bound: times a step runs into a full disk             *)
  MaxPasses,      (* bound: passes under way when a caller adds one        *)
  ChanCap         (* bound: undelivered events of one job (unbounded in    *)
                  (* the code)                                             *)

ASSUME QueueAssumption ==
  /\ MaxJobs \in Nat
  /\ MaxConcurrent \in Nat \ {0}
  /\ Priorities \subseteq Int
  /\ Batches \in Nat
  /\ FullDisk \subseteq Nat
  /\ MaxSpace \in Nat
  /\ MaxPasses \in Nat
  /\ ChanCap \in Nat

VARIABLES
  jobState,     (* Job::state, "None" for an id not handed out yet         *)
  prio,         (* Job::priority                                           *)
  nextId,       (* QueueState::next_id, equal to next_seq                  *)
  running,      (* QueueState::running                                     *)
  spacePaused,  (* QueueState::space_paused                                *)
  spaceJobs,    (* QueueState::space_paused_jobs                           *)
  control,      (* each started job's ExecutionControl                     *)
  passes,       (* threads at the top of try_start_next's loop             *)
  relay,        (* where each job's spawn_job thread or task stands        *)
  chan,         (* each job's own event channel                            *)
  exec,         (* where each job's execute() stands                       *)
  batches,      (* batches it has not begun                                *)
  worker,       (* where each of its step tasks stands                     *)
  space,        (* full-disk errors so far                                 *)
  held          (* history: jobs the caller paused and has not resumed     *)

queueVars == <<jobState, prio, nextId, running, spacePaused, spaceJobs>>
execVars  == <<exec, batches, worker>>
vars == <<queueVars, control, passes, relay, chan, execVars, space, held>>

JobIds == 0 .. MaxJobs - 1

Events == {"StepStarted", "Paused", "Resumed", "QueuePausedForSpace", "Finished"}

(* spawn_job up to the return of Journal::open, the loop over the job's     *)
(* events, the call of pause_queue_for_space inside it, the await of the    *)
(* executor after it.                                                       *)
SlotPhases == {"opening", "relaying", "spacing", "joining"}

Holders == {j \in JobIds : relay[j] \in SlotPhases}

Queued == {j \in JobIds : jobState[j] = "Queued"}

(* Jobs that will not run any more: their slot given back, or never taken.  *)
Over == {j \in JobIds : relay[j] = "done" \/ (relay[j] = "none" /\ jobState[j] = "Terminal")}

Active(j) == jobState[j] \in {"Running", "Paused"}

(* Deviation of Best: ties left to the order of a hash map.                 *)
BestByPriorityOnly(j) ==
  /\ j \in Queued
  /\ \A k \in Queued : prio[j] <= prio[k]

(* min_by_key(priority, seq) over the queued jobs.  next_id and next_seq    *)
(* advance together, so a job's id is also its submission order.            *)
Best(j) ==
  /\ j \in Queued
  /\ \A k \in Queued : prio[j] < prio[k] \/ (prio[j] = prio[k] /\ j <= k)

TypeOK ==
  /\ jobState \in [JobIds -> {"None", "Queued", "Running", "Paused", "Terminal"}]
  /\ prio \in [JobIds -> Int]
  /\ nextId \in Nat
  /\ running \in Nat
  /\ spacePaused \in BOOLEAN
  /\ spaceJobs \subseteq JobIds
  /\ control \in [JobIds -> ControlState \cup {"None"}]
  /\ passes \in Nat
  /\ relay \in [JobIds -> SlotPhases \cup {"none", "done"}]
  /\ chan \in [JobIds -> Seq(Events)]
  /\ exec \in [JobIds -> {"none", "started", "loop", "loopheld", "batch",
                          "finishing", "ended"}]
  /\ batches \in [JobIds -> 0 .. Batches]
  /\ worker \in [JobIds -> [Workers -> {"gate", "held", "cleared", "step",
                                        "done", "cancelled"}]]
  /\ space \in Nat
  /\ held \subseteq JobIds

Init ==
  /\ jobState = [j \in JobIds |-> "None"]
  /\ prio = [j \in JobIds |-> 0]
  /\ nextId = 0
  /\ running = 0
  /\ spacePaused = FALSE
  /\ spaceJobs = {}
  /\ control = [j \in JobIds |-> "None"]
  /\ passes = 0
  /\ relay = [j \in JobIds |-> "none"]
  /\ chan = [j \in JobIds |-> <<>>]
  /\ exec = [j \in JobIds |-> "none"]
  /\ batches = [j \in JobIds |-> Batches]
  /\ worker = [j \in JobIds |-> [w \in Workers |-> "done"]]
  /\ space = 0
  /\ held = {}

-------------------------------------------------------------------------------
(* Callers. *)

Enqueue(p) ==
  /\ nextId < MaxJobs
  /\ passes < MaxPasses
  /\ jobState' = [jobState EXCEPT ![nextId] = "Queued"]
  /\ prio' = [prio EXCEPT ![nextId] = p]
  /\ nextId' = nextId + 1
  /\ passes' = passes + 1
  /\ UNCHANGED <<running, spacePaused, spaceJobs, control, relay, chan,
                 execVars, space, held>>

Reorder(j, p) ==
  /\ j \in Queued
  /\ prio' = [prio EXCEPT ![j] = p]
  /\ UNCHANGED <<jobState, nextId, running, spacePaused, spaceJobs, control,
                 passes, relay, chan, execVars, space, held>>

Pause(j) ==
  /\ Active(j)
  /\ control' = [control EXCEPT ![j] = AfterPause(@)]
  /\ held' = held \cup {j}
  /\ UNCHANGED <<queueVars, passes, relay, chan, execVars, space>>

(* Deviation of Resume: the job stays in space_paused_jobs.                 *)
ResumeKeepsTracking(j) ==
  /\ Active(j)
  /\ control' = [control EXCEPT ![j] = AfterResume(@)]
  /\ held' = held \ {j}
  /\ UNCHANGED <<queueVars, passes, relay, chan, execVars, space>>

Resume(j) ==
  /\ Active(j)
  /\ control' = [control EXCEPT ![j] = AfterResume(@)]
  /\ spaceJobs' = spaceJobs \ {j}
  /\ held' = held \ {j}
  /\ UNCHANGED <<jobState, prio, nextId, running, spacePaused, passes, relay,
                 chan, execVars, space>>

(* A queued job ends here and now; its Finished event is sent by the caller *)
(* itself, as there is no executor to send it.                              *)
CancelQueued(j) ==
  /\ j \in Queued
  /\ passes < MaxPasses
  /\ jobState' = [jobState EXCEPT ![j] = "Terminal"]
  /\ passes' = passes + 1
  /\ UNCHANGED <<prio, nextId, running, spacePaused, spaceJobs, control, relay,
                 chan, execVars, space, held>>

(* Deviation of CancelActive: reports the end before the executor has.      *)
CancelActiveAtOnce(j) ==
  /\ Active(j)
  /\ control' = [control EXCEPT ![j] = AfterCancel(@)]
  /\ jobState' = [jobState EXCEPT ![j] = "Terminal"]
  /\ UNCHANGED <<prio, nextId, running, spacePaused, spaceJobs, passes, relay,
                 chan, execVars, space, held>>

CancelActive(j) ==
  /\ Active(j)
  /\ control' = [control EXCEPT ![j] = AfterCancel(@)]
  /\ UNCHANGED <<queueVars, passes, relay, chan, execVars, space, held>>

(* Deviation of ResumeQueue: resumes the jobs and forgets try_start_next.   *)
ResumeQueueOnlyResumes ==
  /\ spacePaused' = FALSE
  /\ spaceJobs' = {}
  /\ control' = [j \in JobIds |->
                   IF j \in spaceJobs THEN AfterResume(control[j]) ELSE control[j]]
  /\ UNCHANGED <<jobState, prio, nextId, running, passes, relay, chan, execVars,
                 space, held>>

ResumeQueue ==
  /\ passes < MaxPasses
  /\ spacePaused' = FALSE
  /\ spaceJobs' = {}
  /\ control' = [j \in JobIds |->
                   IF j \in spaceJobs THEN AfterResume(control[j]) ELSE control[j]]
  /\ passes' = passes + 1
  /\ UNCHANGED <<jobState, prio, nextId, running, relay, chan, execVars, space,
                 held>>

-------------------------------------------------------------------------------
(* try_start_next and spawn_job. *)

(* Deviation of MayStart: off by one.                                       *)
MayStartOneMore == ~spacePaused /\ running <= MaxConcurrent

MayStart == ~spacePaused /\ running < MaxConcurrent

(* One turn of the loop: the job is marked Running, given a control and     *)
(* counted under one lock; the thread then goes on to open its journal.     *)
StartNext(j) ==
  /\ passes > 0
  /\ MayStart
  /\ Best(j)
  /\ jobState' = [jobState EXCEPT ![j] = "Running"]
  /\ control' = [control EXCEPT ![j] = "Running"]
  /\ running' = running + 1
  /\ relay' = [relay EXCEPT ![j] = "opening"]
  /\ passes' = passes - 1
  /\ UNCHANGED <<prio, nextId, spacePaused, spaceJobs, chan, execVars, space, held>>

PassEnds ==
  /\ passes > 0
  /\ ~MayStart \/ Queued = {}
  /\ passes' = passes - 1
  /\ UNCHANGED <<queueVars, control, relay, chan, execVars, space, held>>

JournalOpened(j) ==
  /\ relay[j] = "opening"
  /\ relay' = [relay EXCEPT ![j] = "relaying"]
  /\ exec' = [exec EXCEPT ![j] = "started"]
  /\ passes' = passes + 1
  /\ UNCHANGED <<queueVars, control, chan, batches, worker, space, held>>

(* Journal::open failed.  The slot goes back under the same lock; the       *)
(* thread makes a pass of its own and then continues the one it came from.  *)
JournalRefused(j) ==
  /\ relay[j] = "opening"
  /\ jobState' = [jobState EXCEPT ![j] = "Terminal"]
  /\ running' = IF running = 0 THEN 0 ELSE running - 1
  /\ relay' = [relay EXCEPT ![j] = "done"]
  /\ passes' = passes + 2
  /\ UNCHANGED <<prio, nextId, spacePaused, spaceJobs, control, chan, execVars,
                 space, held>>

-------------------------------------------------------------------------------
(* The relay task. *)

(* apply_event *)
AfterEvent(s, e) ==
  IF e = "Finished" THEN "Terminal"
  ELSE IF e = "StepStarted" \/ (e = "Resumed" /\ s = "Paused") THEN "Running"
  ELSE IF e = "Paused" /\ s = "Running" THEN "Paused"
  ELSE s

(* One received event: applied to the job's state, then forwarded.          *)
RelayEvent(j) ==
  /\ relay[j] = "relaying"
  /\ chan[j] # <<>>
  /\ LET e == Head(chan[j]) IN
       /\ jobState' = [jobState EXCEPT ![j] = AfterEvent(@, e)]
       /\ relay' = [relay EXCEPT ![j] = IF e = "QueuePausedForSpace" THEN "spacing"
                                        ELSE IF e = "Finished" THEN "joining"
                                        ELSE "relaying"]
  /\ chan' = [chan EXCEPT ![j] = Tail(@)]
  /\ UNCHANGED <<prio, nextId, running, spacePaused, spaceJobs, control, passes,
                 execVars, space, held>>

(* pause_queue_for_space, with j the job whose step ran out of space.       *)
PauseQueueForSpace(j) ==
  /\ relay[j] = "spacing"
  /\ relay' = [relay EXCEPT ![j] = "relaying"]
  /\ spacePaused' = TRUE
  /\ LET toPause == {k \in JobIds : Active(k)} IN
       /\ control' = [k \in JobIds |->
                        IF k \in toPause THEN AfterPause(control[k]) ELSE control[k]]
       /\ spaceJobs' = spaceJobs \cup
                         {k \in toPause : k = j \/ jobState[k] # "Paused"}
  /\ UNCHANGED <<jobState, prio, nextId, running, passes, chan, execVars, space, held>>

(* The channel is closed and empty: the loop ends without a Finished event. *)
RelayClosed(j) ==
  /\ relay[j] = "relaying"
  /\ chan[j] = <<>>
  /\ exec[j] = "ended"
  /\ relay' = [relay EXCEPT ![j] = "joining"]
  /\ UNCHANGED <<queueVars, control, passes, chan, execVars, space, held>>

(* Deviation of RelayEnds: the slot is given back and nobody is told.       *)
RelayEndsQuietly(j) ==
  /\ relay[j] = "joining"
  /\ exec[j] = "ended"
  /\ running' = IF running = 0 THEN 0 ELSE running - 1
  /\ spaceJobs' = spaceJobs \ {j}
  /\ relay' = [relay EXCEPT ![j] = "done"]
  /\ UNCHANGED <<jobState, prio, nextId, spacePaused, control, passes, chan,
                 execVars, space, held>>

RelayEnds(j) ==
  /\ relay[j] = "joining"
  /\ exec[j] = "ended"
  /\ running' = IF running = 0 THEN 0 ELSE running - 1
  /\ spaceJobs' = spaceJobs \ {j}
  /\ relay' = [relay EXCEPT ![j] = "done"]
  /\ passes' = passes + 1
  /\ UNCHANGED <<jobState, prio, nextId, spacePaused, control, chan, execVars,
                 space, held>>

-------------------------------------------------------------------------------
(* execute() *)

Send(j, e) ==
  /\ Len(chan[j]) < ChanCap
  /\ chan' = [chan EXCEPT ![j] = Append(@, e)]

ExecGoes(j, to) == exec' = [exec EXCEPT ![j] = to]

JobStarted(j) ==
  /\ exec[j] = "started"
  /\ ExecGoes(j, "loop")
  /\ UNCHANGED <<queueVars, control, passes, relay, chan, batches, worker, space, held>>

(* The JobStarted record could not be written: execute returns its report,  *)
(* and sends no event.                                                      *)
JobStartedFails(j) ==
  /\ exec[j] = "started"
  /\ ExecGoes(j, "ended")
  /\ UNCHANGED <<queueVars, control, passes, relay, chan, batches, worker, space, held>>

LoopEnds(j) ==
  /\ exec[j] = "loop"
  /\ batches[j] = 0
  /\ ExecGoes(j, "finishing")
  /\ UNCHANGED <<queueVars, control, passes, relay, chan, batches, worker, space, held>>

(* Deviation of LoopPasses: one turn of the loop too many.                  *)
LoopPassesTheEnd(j) ==
  /\ exec[j] \in {"loop", "loopheld"}
  /\ control[j] = "Running"
  /\ IF exec[j] = "loopheld" THEN Send(j, "Resumed") ELSE UNCHANGED chan
  /\ ExecGoes(j, "batch")
  /\ batches' = [batches EXCEPT ![j] = @ - 1]
  /\ worker' = [worker EXCEPT ![j] = [w \in Workers |-> "gate"]]
  /\ UNCHANGED <<queueVars, control, passes, relay, space, held>>

(* wait_out_pause before a batch: it lets the batch begin (announcing the   *)
(* resume if it announced the pause), announces a pause once, or reports    *)
(* the cancel, which is announced by nothing.                               *)
LoopPasses(j) ==
  /\ exec[j] \in {"loop", "loopheld"}
  /\ batches[j] > 0
  /\ control[j] = "Running"
  /\ IF exec[j] = "loopheld" THEN Send(j, "Resumed") ELSE UNCHANGED chan
  /\ ExecGoes(j, "batch")
  /\ batches' = [batches EXCEPT ![j] = @ - 1]
  /\ worker' = [worker EXCEPT ![j] = [w \in Workers |-> "gate"]]
  /\ UNCHANGED <<queueVars, control, passes, relay, space, held>>

LoopHolds(j) ==
  /\ exec[j] = "loop"
  /\ batches[j] > 0
  /\ control[j] = "Paused"
  /\ Send(j, "Paused")
  /\ ExecGoes(j, "loopheld")
  /\ UNCHANGED <<queueVars, control, passes, relay, batches, worker, space, held>>

LoopCancelled(j) ==
  /\ exec[j] \in {"loop", "loopheld"}
  /\ batches[j] > 0
  /\ control[j] = "Cancelled"
  /\ ExecGoes(j, "finishing")
  /\ UNCHANGED <<queueVars, control, passes, relay, chan, batches, worker, space, held>>

WorkerGoes(j, w, to) == worker' = [worker EXCEPT ![j][w] = to]

(* The same wait_out_pause inside run_step_with_retry, by every worker for  *)
(* itself.                                                                  *)
GatePasses(j, w) ==
  /\ exec[j] = "batch"
  /\ worker[j][w] \in {"gate", "held"}
  /\ control[j] = "Running"
  /\ IF worker[j][w] = "held" THEN Send(j, "Resumed") ELSE UNCHANGED chan
  /\ WorkerGoes(j, w, "cleared")
  /\ UNCHANGED <<queueVars, control, passes, relay, exec, batches, space, held>>

GateHolds(j, w) ==
  /\ exec[j] = "batch"
  /\ worker[j][w] = "gate"
  /\ control[j] = "Paused"
  /\ Send(j, "Paused")
  /\ WorkerGoes(j, w, "held")
  /\ UNCHANGED <<queueVars, control, passes, relay, exec, batches, space, held>>

(* Deviation of GateCancelled: not noticed while waiting for a resume.      *)
GateCancelledUnlessHeld(j, w) ==
  /\ exec[j] = "batch"
  /\ worker[j][w] = "gate"
  /\ control[j] = "Cancelled"
  /\ WorkerGoes(j, w, "cancelled")
  /\ UNCHANGED <<queueVars, control, passes, relay, chan, exec, batches, space, held>>

GateCancelled(j, w) ==
  /\ exec[j] = "batch"
  /\ worker[j][w] \in {"gate", "held"}
  /\ control[j] = "Cancelled"
  /\ WorkerGoes(j, w, "cancelled")
  /\ UNCHANGED <<queueVars, control, passes, relay, chan, exec, batches, space, held>>

(* The intent is durable: an await lies between the gate and this.          *)
StepStarts(j, w) ==
  /\ exec[j] = "batch"
  /\ worker[j][w] = "cleared"
  /\ Send(j, "StepStarted")
  /\ WorkerGoes(j, w, "step")
  /\ UNCHANGED <<queueVars, control, passes, relay, exec, batches, space, held>>

StepEnds(j, w) ==
  /\ exec[j] = "batch"
  /\ worker[j][w] = "step"
  /\ WorkerGoes(j, w, "done")
  /\ UNCHANGED <<queueVars, control, passes, relay, chan, exec, batches, space, held>>

(* A copy notices between two chunks that the flag is no longer Running,    *)
(* and starts over at the gate.                                             *)
StepInterrupted(j, w) ==
  /\ exec[j] = "batch"
  /\ worker[j][w] = "step"
  /\ control[j] # "Running"
  /\ WorkerGoes(j, w, "gate")
  /\ UNCHANGED <<queueVars, control, passes, relay, chan, exec, batches, space, held>>

(* ErrorKind::Space: pauses its own job, tells the queue, starts over.      *)
StepOutOfSpace(j, w) ==
  /\ exec[j] = "batch"
  /\ worker[j][w] = "step"
  /\ j \in FullDisk
  /\ space < MaxSpace
  /\ space' = space + 1
  /\ control' = [control EXCEPT ![j] = AfterPause(@)]
  /\ Send(j, "QueuePausedForSpace")
  /\ WorkerGoes(j, w, "gate")
  /\ UNCHANGED <<queueVars, passes, relay, exec, batches, held>>

BatchEnds(j) ==
  /\ exec[j] = "batch"
  /\ \A w \in Workers : worker[j][w] \in {"done", "cancelled"}
  /\ IF \E w \in Workers : worker[j][w] = "cancelled"
       THEN ExecGoes(j, "finishing")
       ELSE ExecGoes(j, "loop")
  /\ UNCHANGED <<queueVars, control, passes, relay, chan, batches, worker, space, held>>

(* The last event of every run that got past JobStarted.                    *)
JobFinishes(j) ==
  /\ exec[j] = "finishing"
  /\ Send(j, "Finished")
  /\ ExecGoes(j, "ended")
  /\ UNCHANGED <<queueVars, control, passes, relay, batches, worker, space, held>>

-------------------------------------------------------------------------------
CallerStep(j) ==
  \/ \E p \in Priorities : Reorder(j, p)
  \/ Pause(j)
  \/ Resume(j)
  \/ CancelQueued(j)
  \/ CancelActive(j)

RelayStep(j) ==
  \/ JournalOpened(j)
  \/ JournalRefused(j)
  \/ RelayEvent(j)
  \/ PauseQueueForSpace(j)
  \/ RelayClosed(j)
  \/ RelayEnds(j)

LoopStep(j) ==
  \/ JobStarted(j)
  \/ JobStartedFails(j)
  \/ LoopEnds(j)
  \/ LoopPasses(j)
  \/ LoopHolds(j)
  \/ LoopCancelled(j)
  \/ BatchEnds(j)
  \/ JobFinishes(j)

WorkerStep(j, w) ==
  \/ GatePasses(j, w)
  \/ GateHolds(j, w)
  \/ GateCancelled(j, w)
  \/ StepStarts(j, w)
  \/ StepEnds(j, w)
  \/ StepInterrupted(j, w)
  \/ StepOutOfSpace(j, w)

Next ==
  \/ \E p \in Priorities : Enqueue(p)
  \/ ResumeQueue
  \/ PassEnds
  \/ \E j \in JobIds : \/ CallerStep(j)
                       \/ StartNext(j)
                       \/ RelayStep(j)
                       \/ LoopStep(j)
                       \/ \E w \in Workers : WorkerStep(j, w)

Spec == Init /\ [][Next]_vars

-------------------------------------------------------------------------------
(* The slot count is exact: running is the number of jobs that hold a slot, *)
(* and no more than max_concurrent of them do.  It is incremented in        *)
(* try_start_next and decremented in two other functions, each under a lock *)
(* of its own, with the journal's opening and the job's whole life between. *)
SlotAccounting ==
  /\ running = Cardinality(Holders)
  /\ running <= MaxConcurrent

(* No wake-up is lost: when no thread is in try_start_next, or about to be  *)
(* back in it from spawn_job, and the queue is not paused for space, then a *)
(* job still queued means that every slot is taken.  Nothing polls the      *)
(* queue, so a job stranded here would wait for somebody's next enqueue.    *)
NoIdleSlot ==
  (passes = 0 /\ ~spacePaused /\ \A j \in JobIds : relay[j] # "opening")
    => (Queued = {} \/ running = MaxConcurrent)

(* A job resume_queue still has to resume is not running meanwhile.         *)
TrackedIsHeld == \A j \in spaceJobs : control[j] # "Running"

(* Finished is the last thing heard of a job: once it is Terminal, its      *)
(* channel is empty and none of its code is running.                        *)
TerminalIsFinal ==
  \A j \in JobIds : jobState[j] = "Terminal" =>
    /\ chan[j] = <<>>
    /\ exec[j] \in {"none", "ended"}

-------------------------------------------------------------------------------
(* The queue implements what it promises its callers: seen through the jobs *)
(* that wait, hold a slot or are over, it is a SlotScheduler.               *)
Scheduler == INSTANCE SlotScheduler WITH
               Ids <- JobIds, Weights <- Priorities, Limit <- MaxConcurrent, waiting <- Queued,
               weight <- prio, active <- Holders, over <- Over,
               onHold <- spacePaused

SchedulerSpec == Scheduler!Spec

-------------------------------------------------------------------------------
(* Every task runs on a multi-threaded runtime and every await of its own   *)
(* returns: a step ends or is interrupted, a poll of the flag sees it, a    *)
(* thread in try_start_next goes on.  Nothing is assumed of the callers.    *)
StepReturns(j, w) == StepEnds(j, w) \/ StepInterrupted(j, w) \/ StepOutOfSpace(j, w)

Gate(j, w) == GatePasses(j, w) \/ GateHolds(j, w) \/ GateCancelled(j, w)

Fairness ==
  /\ WF_vars(PassEnds \/ \E j \in JobIds : StartNext(j))
  /\ \A j \in JobIds :
       /\ WF_vars(RelayStep(j))
       /\ WF_vars(LoopStep(j))
       /\ \A w \in Workers :
            /\ WF_vars(Gate(j, w))
            /\ WF_vars(StepStarts(j, w))
            /\ WF_vars(StepReturns(j, w))

FairSpec == Spec /\ Fairness

(* A cancelled job ends and gives its slot back, whatever it was doing:     *)
(* running, paused by its caller or held for space.                         *)
CancelEnds ==
  \A j \in JobIds : control[j] = "Cancelled" ~> relay[j] = "done"

(* A queued job is started or withdrawn, provided that from some moment on  *)
(* nothing holds the queue or a job in it.                                  *)
QueuedLeaves ==
  \A j \in JobIds :
    (jobState[j] = "Queued" /\ [](~spacePaused /\ \A k \in JobIds : control[k] # "Paused"))
      ~> jobState[j] # "Queued"

===============================================================================
