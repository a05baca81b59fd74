---------------------------- MODULE JobQueueProofs ----------------------------
(***************************************************************************)
(* Theorems about JobQueue, for every number of jobs, slots, step tasks    *)
(* and batches, and for channels of every length.                          *)
(***************************************************************************)
EXTENDS JobQueue, FiniteSetTheorems, TLAPS

(* The state of the queue has the type its declarations say, in every      *)
(* reachable state.                                                        *)
THEOREM TypeCorrect == Spec => []TypeOK
<1>1. Init => TypeOK
  <2> SUFFICES ASSUME Init PROVE TypeOK
    OBVIOUS
  <2> USE DEF Init
  <2>1. prio \in [JobIds -> Int] /\ nextId \in Nat /\ running \in Nat /\ passes \in Nat /\ space \in Nat
    OBVIOUS
  <2>2. batches \in [JobIds -> 0 .. Batches]
    BY QueueAssumption DEF QueueAssumption
  <2>3. /\ jobState \in [JobIds -> {"None", "Queued", "Running", "Paused", "Terminal"}]
        /\ control \in [JobIds -> ControlState \cup {"None"}]
        /\ relay \in [JobIds -> SlotPhases \cup {"none", "done"}]
        /\ exec \in [JobIds -> {"none", "started", "loop", "loopheld", "batch",
                                "finishing", "ended"}]
    OBVIOUS
  <2>4. chan \in [JobIds -> Seq(Events)]
    OBVIOUS
  <2>5. worker \in [JobIds -> [Workers -> {"gate", "held", "cleared", "step",
                                          "done", "cancelled"}]]
    OBVIOUS
  <2>6. spacePaused \in BOOLEAN /\ spaceJobs \subseteq JobIds /\ held \subseteq JobIds
    OBVIOUS
  <2>7. QED BY <2>1, <2>2, <2>3, <2>4, <2>5, <2>6 DEF TypeOK
<1>2. TypeOK /\ [Next]_vars => TypeOK'
  <2> SUFFICES ASSUME TypeOK, [Next]_vars
               PROVE  TypeOK'
    OBVIOUS
  <2>1. ASSUME NEW p \in Priorities, Enqueue(p) PROVE TypeOK'
    <3>1. jobState' \in [JobIds -> {"None", "Queued", "Running", "Paused", "Terminal"}]
      BY <2>1 DEF TypeOK, Enqueue
    <3>2. prio' \in [JobIds -> Int]
      BY <2>1, QueueAssumption DEF QueueAssumption, TypeOK, Enqueue
    <3>3. QED BY <2>1, <3>1, <3>2 DEF TypeOK, Enqueue, execVars
  <2>2. CASE ResumeQueue
    <3>1. \A k \in JobIds : control'[k] \in ControlState \cup {"None"}
      BY <2>2 DEF TypeOK, ResumeQueue, AfterResume, ControlState
    <3>2. control' \in [JobIds -> ControlState \cup {"None"}]
      BY <2>2, <3>1 DEF ResumeQueue
    <3>3. spacePaused' \in BOOLEAN
      BY <2>2, Zenon DEF ResumeQueue
    <3>6. spaceJobs' = {} /\ passes' = passes + 1
      BY <2>2 DEF ResumeQueue
    <3>4. UNCHANGED <<jobState, prio, nextId, running, relay, chan, exec, batches,
                     worker, space, held>>
      BY <2>2 DEF ResumeQueue, execVars
    <3>5. QED BY <3>2, <3>3, <3>4, <3>6 DEF TypeOK
  <2>3. CASE PassEnds
    BY <2>3 DEF TypeOK, PassEnds, queueVars, execVars
  <2>4. ASSUME NEW j \in JobIds, CallerStep(j) PROVE TypeOK'
    <3>1. ASSUME NEW p \in Priorities, Reorder(j, p) PROVE TypeOK'
      BY <3>1, QueueAssumption DEF QueueAssumption, TypeOK, Reorder, execVars
    <3>2. CASE Pause(j)
      BY <3>2 DEF TypeOK, Pause, AfterPause, ControlState, queueVars, execVars
    <3>3. CASE Resume(j)
      BY <3>3 DEF TypeOK, Resume, AfterResume, ControlState, execVars
    <3>4. CASE CancelQueued(j)
      BY <3>4 DEF TypeOK, CancelQueued, execVars
    <3>5. CASE CancelActive(j)
      BY <3>5 DEF TypeOK, CancelActive, AfterCancel, ControlState, queueVars, execVars
    <3>6. QED BY <2>4, <3>1, <3>2, <3>3, <3>4, <3>5 DEF CallerStep
  <2>5. ASSUME NEW j \in JobIds, StartNext(j) PROVE TypeOK'
    BY <2>5 DEF TypeOK, StartNext, ControlState, SlotPhases, execVars
  <2>6. ASSUME NEW j \in JobIds, RelayStep(j) PROVE TypeOK'
    <3>1. CASE JournalOpened(j)
      BY <3>1 DEF TypeOK, JournalOpened, SlotPhases, queueVars
    <3>2. CASE JournalRefused(j)
      BY <3>2 DEF TypeOK, JournalRefused, SlotPhases, execVars
    <3>3. CASE RelayEvent(j)
      <4>1. /\ Head(chan[j]) \in Events
            /\ Tail(chan[j]) \in Seq(Events)
        BY <3>3 DEF TypeOK, RelayEvent
      <4>2. jobState' \in [JobIds -> {"None", "Queued", "Running", "Paused", "Terminal"}]
        BY <3>3, <4>1 DEF TypeOK, RelayEvent, AfterEvent, Events
      <4>3. relay' \in [JobIds -> SlotPhases \cup {"none", "done"}]
        BY <3>3, <4>1 DEF TypeOK, RelayEvent, SlotPhases, Events
      <4>4. chan' \in [JobIds -> Seq(Events)]
        BY <3>3, <4>1 DEF TypeOK, RelayEvent
      <4>5. QED BY <3>3, <4>2, <4>3, <4>4 DEF TypeOK, RelayEvent, execVars
    <3>4. CASE PauseQueueForSpace(j)
      BY <3>4 DEF TypeOK, PauseQueueForSpace, AfterPause, ControlState, SlotPhases,
                  execVars
    <3>5. CASE RelayClosed(j)
      BY <3>5 DEF TypeOK, RelayClosed, SlotPhases, queueVars, execVars
    <3>6. CASE RelayEnds(j)
      BY <3>6 DEF TypeOK, RelayEnds, SlotPhases, execVars
    <3>7. QED BY <2>6, <3>1, <3>2, <3>3, <3>4, <3>5, <3>6 DEF RelayStep
  <2>7. ASSUME NEW j \in JobIds, LoopStep(j) PROVE TypeOK'
    <3>1. CASE JobStarted(j)
      BY <3>1 DEF TypeOK, JobStarted, ExecGoes, queueVars
    <3>2. CASE JobStartedFails(j)
      BY <3>2 DEF TypeOK, JobStartedFails, ExecGoes, queueVars
    <3>3. CASE LoopEnds(j)
      BY <3>3 DEF TypeOK, LoopEnds, ExecGoes, queueVars
    <3>4. CASE LoopPasses(j)
      <4>1. chan' \in [JobIds -> Seq(Events)]
        <5>1. CASE Send(j, "Resumed")
          BY <5>1 DEF TypeOK, Send, Events
        <5>2. CASE UNCHANGED chan
          BY <5>2 DEF TypeOK
        <5>3. QED BY <3>4, <5>1, <5>2 DEF LoopPasses
      <4>2. batches' \in [JobIds -> 0 .. Batches]
        BY <3>4, QueueAssumption DEF QueueAssumption, TypeOK, LoopPasses
      <4>3. worker' \in [JobIds -> [Workers -> {"gate", "held", "cleared", "step",
                                                "done", "cancelled"}]]
        BY <3>4 DEF TypeOK, LoopPasses
      <4>4. exec' \in [JobIds -> {"none", "started", "loop", "loopheld", "batch",
                                  "finishing", "ended"}]
        BY <3>4 DEF TypeOK, LoopPasses, ExecGoes
      <4>5. QED BY <3>4, <4>1, <4>2, <4>3, <4>4 DEF TypeOK, LoopPasses, queueVars
    <3>5. CASE LoopHolds(j)
      BY <3>5 DEF TypeOK, LoopHolds, Send, Events, ExecGoes, queueVars
    <3>6. CASE LoopCancelled(j)
      BY <3>6 DEF TypeOK, LoopCancelled, ExecGoes, queueVars
    <3>7. CASE BatchEnds(j)
      BY <3>7 DEF TypeOK, BatchEnds, ExecGoes, queueVars
    <3>8. CASE JobFinishes(j)
      BY <3>8 DEF TypeOK, JobFinishes, Send, Events, ExecGoes, queueVars
    <3>9. QED BY <2>7, <3>1, <3>2, <3>3, <3>4, <3>5, <3>6, <3>7, <3>8 DEF LoopStep
  <2>8. ASSUME NEW j \in JobIds, NEW w \in Workers, WorkerStep(j, w) PROVE TypeOK'
    <3>1. CASE GatePasses(j, w)
      <4>1. chan' \in [JobIds -> Seq(Events)]
        <5>1. CASE Send(j, "Resumed")
          BY <5>1 DEF TypeOK, Send, Events
        <5>2. CASE UNCHANGED chan
          BY <5>2 DEF TypeOK
        <5>3. QED BY <3>1, <5>1, <5>2 DEF GatePasses
      <4>2. QED BY <3>1, <4>1 DEF TypeOK, GatePasses, WorkerGoes, queueVars
    <3>2. CASE GateHolds(j, w)
      BY <3>2 DEF TypeOK, GateHolds, Send, Events, WorkerGoes, queueVars
    <3>3. CASE GateCancelled(j, w)
      BY <3>3 DEF TypeOK, GateCancelled, WorkerGoes, queueVars
    <3>4. CASE StepStarts(j, w)
      BY <3>4 DEF TypeOK, StepStarts, Send, Events, WorkerGoes, queueVars
    <3>5. CASE StepEnds(j, w)
      BY <3>5 DEF TypeOK, StepEnds, WorkerGoes, queueVars
    <3>6. CASE StepInterrupted(j, w)
      BY <3>6 DEF TypeOK, StepInterrupted, WorkerGoes, queueVars
    <3>7. CASE StepOutOfSpace(j, w)
      BY <3>7 DEF TypeOK, StepOutOfSpace, Send, Events, WorkerGoes, AfterPause,
                  ControlState, queueVars
    <3>8. QED BY <2>8, <3>1, <3>2, <3>3, <3>4, <3>5, <3>6, <3>7 DEF WorkerStep
  <2>9. CASE UNCHANGED vars
    BY <2>9 DEF TypeOK, vars, queueVars, execVars
  <2>10. QED BY <2>1, <2>2, <2>3, <2>4, <2>5, <2>6, <2>7, <2>8, <2>9 DEF Next
<1>3. QED BY <1>1, <1>2, PTL DEF Spec

-------------------------------------------------------------------------------
(* What the steps of execute() and of its step tasks leave alone.           *)
LEMMA ExecutorFrame ==
  ASSUME NEW j \in JobIds,
         LoopStep(j) \/ \E w \in Workers : WorkerStep(j, w)
  PROVE  UNCHANGED <<jobState, prio, nextId, running, spacePaused, spaceJobs,
                     passes, relay>>
<1>1. CASE LoopStep(j)
  BY <1>1 DEF LoopStep, JobStarted, JobStartedFails, LoopEnds, LoopPasses, LoopHolds,
              LoopCancelled, BatchEnds, JobFinishes, queueVars
<1>2. ASSUME NEW w \in Workers, WorkerStep(j, w)
      PROVE  UNCHANGED <<queueVars, passes, relay>>
  BY <1>2 DEF WorkerStep, GatePasses, GateHolds, GateCancelled, StepStarts, StepEnds,
              StepInterrupted, StepOutOfSpace
<1>3. QED BY <1>1, <1>2 DEF queueVars

(* An executor's step gives the control flag no value of Running.           *)
LEMMA ExecutorNeverResumes ==
  ASSUME TypeOK, NEW j \in JobIds,
         LoopStep(j) \/ \E w \in Workers : WorkerStep(j, w),
         NEW k \in JobIds, control[k] # "Running"
  PROVE  control'[k] # "Running"
<1>1. CASE LoopStep(j)
  <2>1. UNCHANGED control
    BY <1>1 DEF LoopStep, JobStarted, JobStartedFails, LoopEnds, LoopPasses, LoopHolds,
                LoopCancelled, BatchEnds, JobFinishes
  <2>2. QED BY <2>1
<1>2. ASSUME NEW w \in Workers, WorkerStep(j, w)
      PROVE  control'[k] # "Running"
  <2>1. CASE StepOutOfSpace(j, w)
    BY <2>1 DEF StepOutOfSpace, AfterPause, TypeOK
  <2>2. CASE ~StepOutOfSpace(j, w)
    <3>1. UNCHANGED control
      BY <1>2, <2>2 DEF WorkerStep, GatePasses, GateHolds, GateCancelled, StepStarts,
                        StepEnds, StepInterrupted
    <3>2. QED BY <3>1
  <2>3. QED BY <2>1, <2>2
<1>3. QED BY <1>1, <1>2

(* How the queue's own records hang together: ids are handed out in order,  *)
(* a job has a task only after it was taken from the queue, and             *)
(* space_paused_jobs names only such jobs.                                  *)
Bookkeeping ==
  /\ \A k \in JobIds : k >= nextId <=> jobState[k] = "None"
  /\ \A k \in JobIds : relay[k] # "none" => jobState[k] \in {"Running", "Paused", "Terminal"}
  /\ \A k \in spaceJobs : jobState[k] \in {"Running", "Paused", "Terminal"}

(* Every step of a caller, a pass, a relay or an executor keeps the records *)
(* together.                                                                *)
LEMMA BookkeepingStep ==
  ASSUME TypeOK, Bookkeeping, [Next]_vars
  PROVE  Bookkeeping'
<1> USE DEF Bookkeeping
<1>1. ASSUME NEW p \in Priorities, Enqueue(p) PROVE Bookkeeping'
  <2>1. nextId \in JobIds
    BY <1>1, QueueAssumption DEF QueueAssumption, Enqueue, TypeOK, JobIds
  <2>2. jobState[nextId] = "None" /\ relay[nextId] = "none" /\ nextId \notin spaceJobs
    BY <2>1 DEF TypeOK
  <2>3. QED BY <1>1, <2>1, <2>2 DEF Enqueue, TypeOK, JobIds
<1>2. CASE ResumeQueue
  BY <1>2 DEF ResumeQueue
<1>3. CASE PassEnds
  BY <1>3 DEF PassEnds, queueVars
<1>4. ASSUME NEW j \in JobIds, CallerStep(j) PROVE Bookkeeping'
  <2>1. ASSUME NEW p \in Priorities, Reorder(j, p) PROVE Bookkeeping'
    BY <2>1 DEF Reorder
  <2>2. CASE Pause(j)
    BY <2>2 DEF Pause, queueVars
  <2>3. CASE Resume(j)
    BY <2>3 DEF Resume
  <2>4. CASE CancelQueued(j)
    BY <2>4 DEF CancelQueued, Queued, TypeOK
  <2>5. CASE CancelActive(j)
    BY <2>5 DEF CancelActive, queueVars
  <2>6. QED BY <1>4, <2>1, <2>2, <2>3, <2>4, <2>5 DEF CallerStep
<1>5. ASSUME NEW j \in JobIds, StartNext(j) PROVE Bookkeeping'
  BY <1>5 DEF StartNext, Best, Queued, TypeOK
<1>6. ASSUME NEW j \in JobIds, RelayStep(j) PROVE Bookkeeping'
  <2>1. relay[j] # "none" /\ \A k \in JobIds \ {j} : relay'[k] = relay[k]
    BY <1>6 DEF RelayStep, JournalOpened, JournalRefused, RelayEvent, PauseQueueForSpace,
                RelayClosed, RelayEnds, TypeOK
  <2>2. jobState'[j] \in {"Running", "Paused", "Terminal"}
        /\ \A k \in JobIds \ {j} : jobState'[k] = jobState[k]
    BY <1>6, <2>1 DEF RelayStep, JournalOpened, JournalRefused, RelayEvent, AfterEvent,
                PauseQueueForSpace, RelayClosed, RelayEnds, TypeOK, queueVars
  <2>3. nextId' = nextId
    BY <1>6 DEF RelayStep, JournalOpened, JournalRefused, RelayEvent, PauseQueueForSpace,
                RelayClosed, RelayEnds, queueVars
  <2>4. \A k \in spaceJobs' : k \in spaceJobs \/ (k \in JobIds /\ Active(k))
    BY <1>6 DEF RelayStep, JournalOpened, JournalRefused, RelayEvent, PauseQueueForSpace,
                RelayClosed, RelayEnds, queueVars
  <2>5. QED BY <2>1, <2>2, <2>3, <2>4 DEF Active, TypeOK
<1>7. ASSUME NEW j \in JobIds, LoopStep(j) \/ \E w \in Workers : WorkerStep(j, w)
      PROVE  Bookkeeping'
  BY <1>7, ExecutorFrame
<1>8. CASE UNCHANGED vars
  BY <1>8 DEF vars, queueVars
<1>9. QED BY <1>1, <1>2, <1>3, <1>4, <1>5, <1>6, <1>7, <1>8 DEF Next

(* So they hang together in every reachable state: the strengthening that   *)
(* the invariants below are proved from.                                    *)
THEOREM BookkeepingHolds == Spec => []Bookkeeping
<1>1. Init => Bookkeeping
  BY QueueAssumption DEF QueueAssumption, Init, Bookkeeping, JobIds
<1>2. TypeOK /\ Bookkeeping /\ [Next]_vars => Bookkeeping'
  BY BookkeepingStep
<1>3. QED BY <1>1, <1>2, TypeCorrect, PTL DEF Spec

-------------------------------------------------------------------------------
(* Which steps move the set of jobs that hold a slot, and the count of it.  *)
LEMMA HoldersFinite == TypeOK => IsFiniteSet(Holders) /\ Cardinality(Holders) \in Nat
<1>1. IsFiniteSet(JobIds)
  BY QueueAssumption, FS_Interval DEF QueueAssumption, JobIds
<1>2. Holders \subseteq JobIds
  BY DEF Holders
<1>3. QED BY <1>1, <1>2, FS_Subset, FS_CardinalityType

(* Only a start and the end of a relay or of a refused opening move a slot: *)
(* every other step leaves the holders and their count as they are.         *)
LEMMA HoldersKept ==
  ASSUME TypeOK,
         \/ \E p \in Priorities : Enqueue(p)
         \/ ResumeQueue
         \/ PassEnds
         \/ \E j \in JobIds : \/ CallerStep(j)
                              \/ JournalOpened(j)
                              \/ RelayEvent(j)
                              \/ PauseQueueForSpace(j)
                              \/ RelayClosed(j)
                              \/ LoopStep(j)
                              \/ \E w \in Workers : WorkerStep(j, w)
         \/ UNCHANGED vars
  PROVE  Holders' = Holders /\ running' = running
<1>1. CASE (\E p \in Priorities : Enqueue(p)) \/ ResumeQueue \/ PassEnds \/ UNCHANGED vars
  BY <1>1 DEF Enqueue, ResumeQueue, PassEnds, vars, queueVars, Holders
<1>2. ASSUME NEW j \in JobIds, CallerStep(j) PROVE Holders' = Holders /\ running' = running
  BY <1>2 DEF CallerStep, Reorder, Pause, Resume, CancelQueued, CancelActive, queueVars,
              Holders
<1>3. ASSUME NEW j \in JobIds,
             JournalOpened(j) \/ RelayEvent(j) \/ PauseQueueForSpace(j) \/ RelayClosed(j)
      PROVE  Holders' = Holders /\ running' = running
  <2>1. /\ relay[j] \in SlotPhases /\ relay'[j] \in SlotPhases
        /\ \A k \in JobIds \ {j} : relay'[k] = relay[k]
    BY <1>3 DEF JournalOpened, RelayEvent, PauseQueueForSpace, RelayClosed, SlotPhases,
                TypeOK
  <2>2. running' = running
    BY <1>3 DEF JournalOpened, RelayEvent, PauseQueueForSpace, RelayClosed, queueVars
  <2>3. QED BY <2>1, <2>2 DEF Holders
<1>4. ASSUME NEW j \in JobIds, LoopStep(j) \/ \E w \in Workers : WorkerStep(j, w)
      PROVE  Holders' = Holders /\ running' = running
  BY <1>4, ExecutorFrame DEF Holders
<1>5. QED BY <1>1, <1>2, <1>3, <1>4

(* running counts the jobs that hold a slot, and never more than            *)
(* max_concurrent of them: two callers, a relay at its end and a journal    *)
(* that would not open never lose or double a slot between them.            *)
THEOREM SlotsExact == Spec => []SlotAccounting
<1>1. Init => SlotAccounting
  <2> SUFFICES ASSUME Init PROVE SlotAccounting
    OBVIOUS
  <2>1. Holders = {}
    BY DEF Init, Holders, SlotPhases
  <2>2. QED BY <2>1, FS_EmptySet, QueueAssumption DEF QueueAssumption, Init, SlotAccounting
<1>2. TypeOK /\ Bookkeeping /\ SlotAccounting /\ [Next]_vars => SlotAccounting'
  <2> SUFFICES ASSUME TypeOK, Bookkeeping, SlotAccounting, [Next]_vars
               PROVE  SlotAccounting'
    OBVIOUS
  <2>1. CASE Holders' = Holders /\ running' = running
    BY <2>1 DEF SlotAccounting
  <2>2. ASSUME NEW j \in JobIds, StartNext(j) PROVE SlotAccounting'
    <3>1. j \notin Holders
      BY <2>2 DEF StartNext, Best, Queued, Bookkeeping, Holders, SlotPhases
    <3>2. Holders' = Holders \cup {j}
      BY <2>2 DEF StartNext, Holders, SlotPhases, TypeOK
    <3>3. Cardinality(Holders') = Cardinality(Holders) + 1
      BY <3>1, <3>2, HoldersFinite, FS_AddElement
    <3>4. running' = running + 1 /\ running < MaxConcurrent
      BY <2>2 DEF StartNext, MayStart
    <3>5. QED BY <3>3, <3>4, QueueAssumption DEF QueueAssumption, SlotAccounting, TypeOK
  <2>3. ASSUME NEW j \in JobIds, JournalRefused(j) \/ RelayEnds(j) PROVE SlotAccounting'
    <3>1. j \in Holders
      BY <2>3 DEF JournalRefused, RelayEnds, Holders, SlotPhases
    <3>2. Holders' = Holders \ {j}
      BY <2>3 DEF JournalRefused, RelayEnds, Holders, SlotPhases, TypeOK
    <3>3. Cardinality(Holders') = Cardinality(Holders) - 1
      BY <3>1, <3>2, HoldersFinite, FS_RemoveElement
    <3>4. Cardinality(Holders) # 0
      BY <3>1, HoldersFinite, FS_EmptySet
    <3>5. running' = running - 1
      BY <2>3, <3>4 DEF JournalRefused, RelayEnds, SlotAccounting
    <3>6. QED BY <3>3, <3>5, QueueAssumption DEF QueueAssumption, SlotAccounting, TypeOK
  <2>4. QED BY <2>1, <2>2, <2>3, HoldersKept DEF Next, RelayStep
<1>3. QED BY <1>1, <1>2, TypeCorrect, BookkeepingHolds, PTL DEF Spec

-------------------------------------------------------------------------------
(* No wake-up is lost: with nobody in try_start_next and nothing holding    *)
(* the queue, a queued job means that every slot is taken.                  *)
THEOREM NoSlotIdles == Spec => []NoIdleSlot
<1>1. Init => NoIdleSlot
  BY DEF Init, NoIdleSlot, Queued
<1>2. TypeOK /\ Bookkeeping /\ SlotAccounting /\ NoIdleSlot /\ [Next]_vars => NoIdleSlot'
  <2> SUFFICES ASSUME TypeOK, Bookkeeping, SlotAccounting, NoIdleSlot, [Next]_vars
               PROVE  NoIdleSlot'
    OBVIOUS
  <2> USE DEF NoIdleSlot
  <2>1. CASE passes' # 0
    BY <2>1
  <2>2. ASSUME NEW p \in Priorities, Enqueue(p) PROVE passes' # 0
    BY <2>2 DEF Enqueue, TypeOK
  <2>3. CASE ResumeQueue
    BY <2>3, <2>1 DEF ResumeQueue, TypeOK
  <2>4. CASE PassEnds
    <3>1. Queued' = Queued /\ running' = running /\ spacePaused' = spacePaused
      BY <2>4 DEF PassEnds, queueVars, Queued
    <3>2. spacePaused \/ running = MaxConcurrent \/ Queued = {}
      BY <2>4, QueueAssumption
         DEF QueueAssumption, PassEnds, MayStart, SlotAccounting, TypeOK
    <3>3. QED BY <3>1, <3>2
  <2>5. ASSUME NEW j \in JobIds, CallerStep(j) PROVE NoIdleSlot'
    <3>1. CASE CancelQueued(j)
      BY <3>1, <2>1 DEF CancelQueued, TypeOK
    <3>2. CASE ~CancelQueued(j)
      <4>1. UNCHANGED <<jobState, running, spacePaused, passes, relay>>
        BY <2>5, <3>2 DEF CallerStep, Reorder, Pause, Resume, CancelActive, queueVars
      <4>2. QED BY <4>1 DEF Queued
    <3>3. QED BY <3>1, <3>2
  <2>6. ASSUME NEW j \in JobIds, StartNext(j) PROVE NoIdleSlot'
    BY <2>6 DEF StartNext, TypeOK
  <2>7. ASSUME NEW j \in JobIds, RelayStep(j) PROVE NoIdleSlot'
    <3>1. CASE JournalOpened(j) \/ JournalRefused(j) \/ RelayEnds(j)
      BY <3>1, <2>1 DEF JournalOpened, JournalRefused, RelayEnds, TypeOK
    <3>2. CASE PauseQueueForSpace(j)
      BY <3>2 DEF PauseQueueForSpace
    <3>3. CASE RelayEvent(j)
      <4>1. relay[j] = "relaying" /\ jobState[j] \in {"Running", "Paused", "Terminal"}
        BY <3>3 DEF RelayEvent, Bookkeeping
      <4>2. jobState'[j] \in {"Running", "Paused", "Terminal"}
            /\ \A k \in JobIds \ {j} : jobState'[k] = jobState[k]
        BY <3>3, <4>1 DEF RelayEvent, AfterEvent, TypeOK
      <4>3. Queued' = Queued
        BY <4>1, <4>2 DEF Queued
      <4>4. (\A k \in JobIds : relay'[k] # "opening") => \A k \in JobIds : relay[k] # "opening"
        BY <3>3, <4>1 DEF RelayEvent, TypeOK
      <4>5. QED BY <3>3, <4>3, <4>4 DEF RelayEvent
    <3>4. CASE RelayClosed(j)
      BY <3>4 DEF RelayClosed, Queued, queueVars, TypeOK
    <3>5. QED BY <2>7, <3>1, <3>2, <3>3, <3>4 DEF RelayStep
  <2>8. ASSUME NEW j \in JobIds, LoopStep(j) \/ \E w \in Workers : WorkerStep(j, w)
        PROVE  NoIdleSlot'
    BY <2>8, ExecutorFrame DEF Queued
  <2>9. CASE UNCHANGED vars
    BY <2>9 DEF vars, queueVars, Queued
  <2>10. QED BY <2>1, <2>2, <2>3, <2>4, <2>5, <2>6, <2>7, <2>8, <2>9 DEF Next
<1>3. QED BY <1>1, <1>2, TypeCorrect, BookkeepingHolds, SlotsExact, PTL DEF Spec

-------------------------------------------------------------------------------
(* A job resume_queue still has to resume is not running meanwhile.         *)
THEOREM TrackedJobsHeld == Spec => []TrackedIsHeld
<1>1. Init => TrackedIsHeld
  BY DEF Init, TrackedIsHeld
<1>2. TypeOK /\ Bookkeeping /\ TrackedIsHeld /\ [Next]_vars => TrackedIsHeld'
  <2> SUFFICES ASSUME TypeOK, Bookkeeping, TrackedIsHeld, [Next]_vars
               PROVE  TrackedIsHeld'
    OBVIOUS
  <2> USE DEF TrackedIsHeld
  <2>1. CASE \/ \E p \in Priorities : Enqueue(p)
             \/ PassEnds
             \/ UNCHANGED vars
    BY <2>1 DEF Enqueue, PassEnds, vars, queueVars
  <2>2. CASE ResumeQueue
    BY <2>2 DEF ResumeQueue
  <2>3. ASSUME NEW j \in JobIds, CallerStep(j) PROVE TrackedIsHeld'
    <3>1. CASE (\E p \in Priorities : Reorder(j, p)) \/ CancelQueued(j)
      BY <3>1 DEF Reorder, CancelQueued
    <3>2. CASE Pause(j) \/ CancelActive(j)
      BY <3>2 DEF Pause, CancelActive, AfterPause, AfterCancel, queueVars, TypeOK
    <3>3. CASE Resume(j)
      BY <3>3 DEF Resume, TypeOK
    <3>4. QED BY <2>3, <3>1, <3>2, <3>3 DEF CallerStep
  <2>4. ASSUME NEW j \in JobIds, StartNext(j) PROVE TrackedIsHeld'
    <3>1. j \notin spaceJobs
      BY <2>4 DEF StartNext, Best, Queued, Bookkeeping
    <3>2. QED BY <2>4, <3>1 DEF StartNext, TypeOK
  <2>5. ASSUME NEW j \in JobIds, RelayStep(j) PROVE TrackedIsHeld'
    <3>1. CASE PauseQueueForSpace(j)
      <4>1. \A k \in spaceJobs' : k \in JobIds /\ (k \in spaceJobs \/ Active(k))
        BY <3>1 DEF PauseQueueForSpace, TypeOK
      <4>2. \A k \in JobIds : Active(k) => control'[k] # "Running"
        BY <3>1 DEF PauseQueueForSpace, AfterPause
      <4>3. \A k \in JobIds : control[k] # "Running" => control'[k] # "Running"
        BY <3>1 DEF PauseQueueForSpace, AfterPause
      <4>4. QED BY <4>1, <4>2, <4>3
    <3>2. CASE ~PauseQueueForSpace(j)
      BY <2>5, <3>2 DEF RelayStep, JournalOpened, JournalRefused, RelayEvent, RelayClosed,
                        RelayEnds, queueVars
    <3>3. QED BY <3>1, <3>2
  <2>6. ASSUME NEW j \in JobIds, LoopStep(j) \/ \E w \in Workers : WorkerStep(j, w)
        PROVE  TrackedIsHeld'
    BY <2>6, ExecutorFrame, ExecutorNeverResumes DEF TypeOK
  <2>7. QED BY <2>1, <2>2, <2>3, <2>4, <2>5, <2>6 DEF Next
<1>3. QED BY <1>1, <1>2, TypeCorrect, BookkeepingHolds, PTL DEF Spec

-------------------------------------------------------------------------------
(* How a job's executor, its channel and its relay advance together: the    *)
(* executor runs between the journal's opening and the relay's last await,  *)
(* nothing follows a Finished event, and a Terminal job has no relay in the *)
(* loop over its events.                                                    *)
InStep(j) ==
  /\ relay[j] \in {"none", "opening"} => exec[j] = "none"
  /\ exec[j] = "none" => chan[j] = <<>>
  /\ relay[j] \in {"joining", "done"} => exec[j] \in {"none", "ended"} /\ chan[j] = <<>>
  /\ \A i \in 1 .. Len(chan[j]) :
       chan[j][i] = "Finished" => i = Len(chan[j]) /\ exec[j] = "ended"
  /\ jobState[j] = "Terminal" => relay[j] \in {"none", "joining", "done"}

Lockstep == \A j \in JobIds : InStep(j)

(* InStep is a matter of one job's own state.                               *)
LEMMA InStepFrame ==
  ASSUME NEW k, InStep(k),
         /\ relay'[k] = relay[k] /\ exec'[k] = exec[k]
         /\ chan'[k] = chan[k] /\ jobState'[k] = jobState[k]
  PROVE  InStep(k)'
BY DEF InStep

(* An event sent while the executor runs is not behind a Finished one.      *)
LEMMA SendKeepsOrder ==
  ASSUME TypeOK, Lockstep, NEW j \in JobIds, NEW e \in Events \ {"Finished"},
         exec[j] # "ended", Send(j, e)
  PROVE  \A i \in 1 .. Len(chan'[j]) : chan'[j][i] # "Finished"
<1>1. chan[j] \in Seq(Events) /\ chan'[j] = Append(chan[j], e)
  BY DEF Send, TypeOK
<1>2. \A i \in 1 .. Len(chan[j]) : chan[j][i] # "Finished"
  BY DEF Lockstep, InStep
<1>3. QED BY <1>1, <1>2

(* A step of execute() or of its step tasks keeps its own job in step.      *)
LEMMA ExecutorInStep ==
  ASSUME TypeOK, Lockstep, NEW j \in JobIds,
         LoopStep(j) \/ \E w \in Workers : WorkerStep(j, w)
  PROVE  InStep(j)'
<1>1. relay'[j] = relay[j] /\ jobState'[j] = jobState[j]
  BY ExecutorFrame
<1>2. exec[j] \notin {"none", "ended"}
  BY DEF LoopStep, WorkerStep, JobStarted, JobStartedFails, LoopEnds, LoopPasses,
         LoopHolds, LoopCancelled, BatchEnds, JobFinishes, GatePasses, GateHolds,
         GateCancelled, StepStarts, StepEnds, StepInterrupted, StepOutOfSpace
<1>3. relay[j] \in {"relaying", "spacing"} /\ jobState[j] # "Terminal"
  BY <1>2 DEF Lockstep, InStep, TypeOK, SlotPhases
<1>4. CASE JobFinishes(j)
  <2>1. chan[j] \in Seq(Events) /\ chan'[j] = Append(chan[j], "Finished")
        /\ exec'[j] = "ended"
    BY <1>4 DEF JobFinishes, Send, ExecGoes, TypeOK
  <2>2. \A i \in 1 .. Len(chan[j]) : chan[j][i] # "Finished"
    BY <1>2 DEF Lockstep, InStep
  <2>3. \A i \in 1 .. Len(chan'[j]) : chan'[j][i] = "Finished" => i = Len(chan'[j])
    BY <2>1, <2>2
  <2>4. QED BY <1>1, <1>3, <2>1, <2>3 DEF InStep
<1>5. CASE ~JobFinishes(j)
  <2>1. \/ UNCHANGED chan
        \/ \E e \in Events \ {"Finished"} : Send(j, e)
    BY <1>5 DEF LoopStep, WorkerStep, JobStarted, JobStartedFails, LoopEnds, LoopPasses,
           LoopHolds, LoopCancelled, BatchEnds, GatePasses, GateHolds,
           GateCancelled, StepStarts, StepEnds, StepInterrupted, StepOutOfSpace, Events
  <2>2. \A i \in 1 .. Len(chan'[j]) : chan'[j][i] # "Finished"
    <3>1. CASE UNCHANGED chan
      BY <3>1, <1>2 DEF Lockstep, InStep
    <3>2. CASE \E e \in Events \ {"Finished"} : Send(j, e)
      BY <3>2, <1>2, SendKeepsOrder
    <3>3. QED BY <2>1, <3>1, <3>2
  <2>3. exec'[j] # "none"
    BY <1>2, <1>5 DEF LoopStep, WorkerStep, JobStarted, JobStartedFails, LoopEnds,
           LoopPasses, LoopHolds, LoopCancelled, BatchEnds, GatePasses, GateHolds,
           GateCancelled, StepStarts, StepEnds, StepInterrupted, StepOutOfSpace, ExecGoes,
           TypeOK
  <2>4. QED BY <1>1, <1>3, <2>2, <2>3 DEF InStep
<1>6. QED BY <1>4, <1>5

(* It touches neither the executor nor the channel of another job.          *)
LEMMA ExecutorOthers ==
  ASSUME TypeOK, NEW j \in JobIds, LoopStep(j) \/ \E w \in Workers : WorkerStep(j, w),
         NEW k \in JobIds, k # j
  PROVE  exec'[k] = exec[k] /\ chan'[k] = chan[k]
BY DEF LoopStep, WorkerStep, JobStarted, JobStartedFails, LoopEnds, LoopPasses,
       LoopHolds, LoopCancelled, BatchEnds, JobFinishes, GatePasses, GateHolds,
       GateCancelled, StepStarts, StepEnds, StepInterrupted, StepOutOfSpace, ExecGoes,
       Send, TypeOK

(* A step of a relay keeps its own job in step.                             *)
LEMMA RelayInStep ==
  ASSUME TypeOK, Bookkeeping, Lockstep, NEW j \in JobIds, RelayStep(j)
  PROVE  InStep(j)'
<1> USE DEF Lockstep, InStep
<1>1. CASE JournalOpened(j)
  <2>1. relay[j] = "opening" /\ relay'[j] = "relaying" /\ exec'[j] = "started"
    BY <1>1 DEF JournalOpened, TypeOK
  <2>2. chan'[j] = chan[j] /\ jobState'[j] = jobState[j]
    BY <1>1 DEF JournalOpened, queueVars
  <2>3. chan[j] = <<>> /\ jobState[j] # "Terminal"
    BY <2>1
  <2>4. QED BY <2>1, <2>2, <2>3
<1>2. CASE JournalRefused(j)
  BY <1>2 DEF JournalRefused, execVars, TypeOK
<1>3. CASE RelayEvent(j)
  <2>1. /\ chan[j] \in Seq(Events) /\ chan[j] # <<>> /\ chan'[j] = Tail(chan[j])
        /\ exec'[j] = exec[j] /\ exec[j] # "none" /\ relay[j] = "relaying"
    BY <1>3 DEF RelayEvent, execVars, TypeOK
  <2>2. /\ Len(chan'[j]) = Len(chan[j]) - 1
        /\ \A i \in 1 .. Len(chan'[j]) : chan'[j][i] = chan[j][i + 1]
        /\ Head(chan[j]) = chan[j][1]
        /\ Len(chan[j]) \in Nat /\ Len(chan[j]) > 0
    BY <2>1
  <2>3. \A i \in 1 .. Len(chan'[j]) :
          chan'[j][i] = "Finished" => i = Len(chan'[j]) /\ exec'[j] = "ended"
    BY <2>1, <2>2
  <2>4. CASE Head(chan[j]) = "Finished"
    <3>1. 1 \in 1 .. Len(chan[j]) /\ chan[j][1] = "Finished"
      BY <2>2, <2>4
    <3>2. exec[j] = "ended" /\ Len(chan[j]) = 1
      BY <3>1
    <3>3. chan'[j] \in Seq(Events) /\ Len(chan'[j]) = 0
      BY <2>1, <2>2, <3>2
    <3>4. chan'[j] = <<>>
      BY <3>3
    <3>5. relay'[j] = "joining"
      BY <1>3, <2>4 DEF RelayEvent, TypeOK
    <3>6. QED BY <2>1, <2>3, <3>2, <3>4, <3>5
  <2>5. CASE Head(chan[j]) # "Finished"
    <3>1. relay'[j] \in {"relaying", "spacing"}
      BY <1>3, <2>5 DEF RelayEvent, TypeOK
    <3>2. jobState[j] # "Terminal"
      BY <2>1
    <3>3. jobState'[j] # "Terminal"
      BY <1>3, <2>5, <3>2 DEF RelayEvent, AfterEvent, TypeOK
    <3>4. QED BY <2>1, <2>3, <3>1, <3>3
  <2>6. QED BY <2>4, <2>5
<1>4. CASE PauseQueueForSpace(j)
  BY <1>4 DEF PauseQueueForSpace, execVars, TypeOK
<1>5. CASE RelayClosed(j)
  BY <1>5 DEF RelayClosed, queueVars, execVars, TypeOK
<1>6. CASE RelayEnds(j)
  BY <1>6 DEF RelayEnds, execVars, TypeOK
<1>7. QED BY <1>1, <1>2, <1>3, <1>4, <1>5, <1>6 DEF RelayStep

(* Every step of the system keeps every job in step.                        *)
LEMMA LockstepStep ==
  ASSUME TypeOK, Bookkeeping, Lockstep, [Next]_vars
  PROVE  Lockstep'
<1> SUFFICES ASSUME NEW k \in JobIds PROVE InStep(k)'
  BY DEF Lockstep, JobIds
<1>0. InStep(k)
  BY DEF Lockstep
<1>1. ASSUME NEW p \in Priorities, Enqueue(p) PROVE InStep(k)'
  <2>1. relay'[k] = relay[k] /\ exec'[k] = exec[k] /\ chan'[k] = chan[k]
    BY <1>1 DEF Enqueue, execVars
  <2>2. jobState'[k] = "Terminal" => jobState[k] = "Terminal"
    BY <1>1 DEF Enqueue, TypeOK
  <2>3. QED BY <1>0, <2>1, <2>2 DEF InStep
<1>2. CASE ResumeQueue \/ PassEnds \/ UNCHANGED vars
  BY <1>0, <1>2, InStepFrame DEF ResumeQueue, PassEnds, vars, queueVars, execVars
<1>3. ASSUME NEW j \in JobIds, CallerStep(j) PROVE InStep(k)'
  <2>1. relay'[k] = relay[k] /\ exec'[k] = exec[k] /\ chan'[k] = chan[k]
    BY <1>3 DEF CallerStep, Reorder, Pause, Resume, CancelQueued, CancelActive, execVars
  <2>2. CASE CancelQueued(j) /\ k = j
    <3>1. relay[k] = "none"
      BY <2>2 DEF CancelQueued, Queued, Bookkeeping, TypeOK
    <3>2. QED BY <1>0, <2>1, <3>1 DEF InStep
  <2>3. CASE ~(CancelQueued(j) /\ k = j)
    <3>1. jobState'[k] = jobState[k]
      BY <1>3, <2>3 DEF CallerStep, Reorder, Pause, Resume, CancelQueued, CancelActive,
                        queueVars, TypeOK
    <3>2. QED BY <1>0, <2>1, <3>1, InStepFrame
  <2>4. QED BY <2>2, <2>3
<1>4. ASSUME NEW j \in JobIds, StartNext(j) PROVE InStep(k)'
  <2>1. exec'[k] = exec[k] /\ chan'[k] = chan[k]
    BY <1>4 DEF StartNext, execVars
  <2>2. CASE k = j
    <3>1. relay[k] = "none" /\ relay'[k] = "opening" /\ jobState'[k] = "Running"
      BY <1>4, <2>2 DEF StartNext, Best, Queued, Bookkeeping, TypeOK
    <3>2. QED BY <1>0, <2>1, <3>1 DEF InStep
  <2>3. CASE k # j
    BY <1>0, <1>4, <2>1, <2>3, InStepFrame DEF StartNext, TypeOK
  <2>4. QED BY <2>2, <2>3
<1>5. ASSUME NEW j \in JobIds, RelayStep(j) PROVE InStep(k)'
  <2>1. CASE k = j
    BY <1>5, <2>1, RelayInStep
  <2>2. CASE k # j
    <3>1. relay'[k] = relay[k] /\ exec'[k] = exec[k] /\ chan'[k] = chan[k]
          /\ jobState'[k] = jobState[k]
      BY <1>5, <2>2 DEF RelayStep, JournalOpened, JournalRefused, RelayEvent,
                        PauseQueueForSpace, RelayClosed, RelayEnds, queueVars, execVars,
                        TypeOK
    <3>2. QED BY <1>0, <3>1, InStepFrame
  <2>3. QED BY <2>1, <2>2
<1>6. ASSUME NEW j \in JobIds, LoopStep(j) \/ \E w \in Workers : WorkerStep(j, w)
      PROVE  InStep(k)'
  <2>1. CASE k = j
    BY <1>6, <2>1, ExecutorInStep
  <2>2. CASE k # j
    <3>1. relay'[k] = relay[k] /\ jobState'[k] = jobState[k]
      BY <1>6, ExecutorFrame
    <3>2. exec'[k] = exec[k] /\ chan'[k] = chan[k]
      BY <1>6, <2>2, ExecutorOthers
    <3>3. QED BY <1>0, <3>1, <3>2, InStepFrame
  <2>3. QED BY <2>1, <2>2
<1>7. QED BY <1>1, <1>2, <1>3, <1>4, <1>5, <1>6 DEF Next

(* Finished is the last thing heard of a job: once it is Terminal, its      *)
(* channel is empty and none of its code is running.                        *)
THEOREM FinishedIsFinal == Spec => []TerminalIsFinal
<1>1. Init => Lockstep
  BY DEF Init, Lockstep, InStep
<1>2. TypeOK /\ Bookkeeping /\ Lockstep /\ [Next]_vars => Lockstep'
  BY LockstepStep
<1>3. TypeOK /\ Lockstep => TerminalIsFinal
  <2> SUFFICES ASSUME TypeOK, Lockstep, NEW j \in JobIds, jobState[j] = "Terminal"
               PROVE  chan[j] = <<>> /\ exec[j] \in {"none", "ended"}
    BY DEF TerminalIsFinal
  <2>1. InStep(j)
    BY DEF Lockstep
  <2>2. QED BY <2>1 DEF InStep
<1>4. QED BY <1>1, <1>2, <1>3, TypeCorrect, BookkeepingHolds, PTL DEF Spec

-------------------------------------------------------------------------------
(* The queue is a SlotScheduler: every step of a caller, a pass, a relay or *)
(* an executor is one step of it or none, with the threads, the channels    *)
(* and the counter of slots left out.                                       *)
THEOREM QueueImplementsScheduler == Spec => SchedulerSpec
<1> USE DEF Scheduler!Submitted, Scheduler!First
<1>1. Init => Scheduler!Init
  BY DEF Init, Scheduler!Init, Queued, Holders, Over, SlotPhases
<1>2. TypeOK /\ Bookkeeping /\ SlotAccounting /\ [Next]_vars => [Scheduler!Next]_Scheduler!vars
  <2> SUFFICES ASSUME TypeOK, Bookkeeping, SlotAccounting, [Next]_vars
               PROVE  Scheduler!Next \/ UNCHANGED Scheduler!vars
    OBVIOUS
  <2>1. ASSUME NEW p \in Priorities, Enqueue(p) PROVE Scheduler!Submit(nextId) /\ nextId \in JobIds
    <3>0. nextId \in JobIds
      BY <2>1, QueueAssumption DEF QueueAssumption, Enqueue, TypeOK, JobIds
    <3>1. jobState[nextId] = "None" /\ relay[nextId] = "none"
      BY <3>0 DEF TypeOK, Bookkeeping
    <3>2. \A k \in Scheduler!Submitted : k < nextId
      BY <3>0 DEF Bookkeeping, Queued, Holders, Over, SlotPhases, TypeOK, JobIds
    <3>3. Queued' = Queued \cup {nextId}
      BY <2>1, <3>0, <3>1 DEF Enqueue, Queued, TypeOK
    <3>4. Holders' = Holders
      BY <2>1 DEF Enqueue, Holders
    <3>5. Over' = Over
      BY <2>1, <3>0, <3>1 DEF Enqueue, Over, TypeOK
    <3>6. QED BY <2>1, <3>0, <3>2, <3>3, <3>4, <3>5 DEF Enqueue, Scheduler!Submit
  <2>2. CASE ResumeQueue
    <3>1. Queued' = Queued /\ Holders' = Holders /\ Over' = Over /\ prio' = prio
          /\ spacePaused' = FALSE
      BY <2>2 DEF ResumeQueue, Queued, Holders, Over
    <3>2. QED BY <3>1 DEF Scheduler!Release, Scheduler!Next
  <2>3. CASE PassEnds \/ UNCHANGED vars
    BY <2>3 DEF PassEnds, vars, queueVars, Queued, Holders, Over, Scheduler!vars
  <2>4. ASSUME NEW j \in JobIds, CallerStep(j) PROVE Scheduler!Next \/ UNCHANGED Scheduler!vars
    <3>1. ASSUME NEW p \in Priorities, Reorder(j, p) PROVE Scheduler!Reweigh(j)
      BY <3>1 DEF Reorder, Scheduler!Reweigh, Queued, Holders, Over
    <3>2. CASE CancelQueued(j)
      <4>1. relay[j] = "none" /\ j \in Queued
        BY <3>2 DEF CancelQueued, Bookkeeping, Queued
      <4>2. Queued' = Queued \ {j} /\ Holders' = Holders
        BY <3>2 DEF CancelQueued, Queued, Holders, TypeOK
      <4>3. Over' = Over \cup {j}
        BY <3>2, <4>1 DEF CancelQueued, Over, TypeOK
      <4>4. Scheduler!Withdraw(j)
        BY <3>2, <4>1, <4>2, <4>3 DEF CancelQueued, Scheduler!Withdraw
      <4>5. QED BY <4>4 DEF Scheduler!Next
    <3>3. CASE Pause(j) \/ Resume(j) \/ CancelActive(j)
      BY <3>3 DEF Pause, Resume, CancelActive, queueVars, Queued, Holders, Over, Scheduler!vars
    <3>4. QED BY <2>4, <3>1, <3>2, <3>3 DEF CallerStep, Scheduler!Next
  <2>5. ASSUME NEW j \in JobIds, StartNext(j) PROVE Scheduler!Start(j)
    <3>1. relay[j] = "none" /\ j \in Queued
      BY <2>5 DEF StartNext, Best, Bookkeeping, Queued
    <3>2. Queued' = Queued \ {j}
      BY <2>5 DEF StartNext, Queued, TypeOK
    <3>3. Holders' = Holders \cup {j}
      BY <2>5 DEF StartNext, Holders, SlotPhases, TypeOK
    <3>4. Over' = Over
      BY <2>5, <3>1 DEF StartNext, Over, Queued, TypeOK
    <3>5. Cardinality(Holders) < MaxConcurrent
      BY <2>5 DEF StartNext, MayStart, SlotAccounting
    <3>6. Scheduler!First(j)
      BY <2>5 DEF StartNext, Best
    <3>7. ~spacePaused /\ prio' = prio /\ spacePaused' = spacePaused
      BY <2>5 DEF StartNext, MayStart
    <3>8. Scheduler!Cardinality(Holders) = Cardinality(Holders)
      BY DEF Scheduler!Cardinality, Cardinality
    <3>9. QED BY <3>2, <3>3, <3>4, <3>5, <3>6, <3>7, <3>8, Zenon DEF Scheduler!Start
  <2>6. ASSUME NEW j \in JobIds, RelayStep(j) PROVE Scheduler!Next \/ UNCHANGED Scheduler!vars
    <3>1. CASE JournalRefused(j) \/ RelayEnds(j)
      <4>1. relay[j] \in SlotPhases /\ relay'[j] = "done"
            /\ \A k \in JobIds \ {j} : relay'[k] = relay[k] /\ jobState'[k] = jobState[k]
        BY <3>1 DEF JournalRefused, RelayEnds, SlotPhases, TypeOK
      <4>2. jobState[j] # "Queued" /\ jobState'[j] # "Queued"
        BY <3>1, <4>1 DEF JournalRefused, RelayEnds, Bookkeeping, SlotPhases, TypeOK
      <4>3. Queued' = Queued
        BY <4>1, <4>2 DEF Queued
      <4>4. Holders' = Holders \ {j} /\ j \in Holders
        BY <4>1 DEF Holders, SlotPhases
      <4>5. Over' = Over \cup {j}
        BY <4>1 DEF Over, SlotPhases
      <4>6. Scheduler!Finish(j)
        BY <3>1, <4>3, <4>4, <4>5 DEF JournalRefused, RelayEnds, Scheduler!Finish
      <4>7. QED BY <4>6 DEF Scheduler!Next
    <3>2. CASE JournalOpened(j) \/ RelayEvent(j) \/ PauseQueueForSpace(j) \/ RelayClosed(j)
      <4>1. /\ relay[j] \in SlotPhases /\ relay'[j] \in SlotPhases
            /\ \A k \in JobIds \ {j} : relay'[k] = relay[k] /\ jobState'[k] = jobState[k]
        BY <3>2 DEF JournalOpened, RelayEvent, PauseQueueForSpace, RelayClosed, SlotPhases,
                    queueVars, TypeOK
      <4>2. jobState[j] # "Queued" /\ jobState'[j] # "Queued"
        BY <3>2, <4>1 DEF JournalOpened, RelayEvent, AfterEvent, PauseQueueForSpace,
                          RelayClosed, queueVars, Bookkeeping, SlotPhases, TypeOK
      <4>3. Queued' = Queued
        BY <4>1, <4>2 DEF Queued
      <4>4. Holders' = Holders
        BY <4>1 DEF Holders
      <4>5. Over' = Over
        BY <4>1 DEF Over, SlotPhases
      <4>6. CASE PauseQueueForSpace(j)
        BY <4>3, <4>4, <4>5, <4>6 DEF PauseQueueForSpace, Scheduler!Hold, Scheduler!Next
      <4>7. CASE ~PauseQueueForSpace(j)
        <5>1. prio' = prio /\ spacePaused' = spacePaused
          BY <3>2, <4>7 DEF JournalOpened, RelayEvent, RelayClosed, queueVars
        <5>2. QED BY <4>3, <4>4, <4>5, <5>1 DEF Scheduler!vars
      <4>8. QED BY <4>6, <4>7
    <3>3. QED BY <2>6, <3>1, <3>2 DEF RelayStep
  <2>7. ASSUME NEW j \in JobIds, LoopStep(j) \/ \E w \in Workers : WorkerStep(j, w)
        PROVE  UNCHANGED Scheduler!vars
    BY <2>7, ExecutorFrame DEF Queued, Holders, Over, Scheduler!vars
  <2>8. QED BY <2>1, <2>2, <2>3, <2>4, <2>5, <2>6, <2>7 DEF Next, Scheduler!Next
<1>3. QED
  BY <1>1, <1>2, TypeCorrect, BookkeepingHolds, SlotsExact, PTL
     DEF Spec, SchedulerSpec, Scheduler!Spec

===============================================================================
