----------------------------- MODULE ExecutorProofs -----------------------------
(***************************************************************************)
(* Theorems about Executor, for any plan, window, concurrency, faults and  *)
(* controls.  Every action of a step is first shown to be one of the few   *)
(* TaskSteps below; the invariants are then proved over those.             *)
(***************************************************************************)
EXTENDS Executor, FiniteSetTheorems, SequenceTheorems, WellFoundedInduction, TLAPS

(* A step is Working while its Intent is durable and its outcome is not    *)
(* known; a step that has Stopped changes nothing by itself.               *)
Working == {"run", "copying", "staged", "conflict", "resolved", "replacing"}

Stopped == {"idle", "done", "cancelled"}

TaskPlaces ==
  Working \cup Stopped \cup {"ready", "gate", "intent", "closing", "backoff"}

TaskState ==
  [at : TaskPlaces, attempt : Nat, named : BOOLEAN, retries : 0..MaxAttempts,
   ticket : Nat, policy : Policies \cup {"none"}, result : Outcomes \cup {"none"}]

Verdicts == {"Cancelled", "Failed", "CompletedWithSkips", "Completed"}

Lines ==
  {JobStarted(0)}
    \cup {Intent(s, n) : s \in Steps, n \in Nat}
    \cup {Completion(s, o) : s \in Steps, o \in Outcomes}
    \cup {JobFinished(o) : o \in Verdicts}

Logged ==
  /\ journal \in [sent : Seq(Lines), written : Nat, synced : Nat,
                  poisoned : BOOLEAN]
  /\ journal.synced <= journal.written
  /\ journal.written <= Len(journal.sent)

MainState ==
  [at : {"starting", "loop", "window", "batch", "serial", "finishing", "ended"},
   next : 1..(Len(Plan) + 1), hi : 0..Len(Plan), mark : 0..Len(Plan),
   ticket : Nat, outcome : Verdicts \cup {"none"}]

(* What a step that is under way can be doing. *)
Apt(s) ==
  /\ task[s].at \in {"copying", "staged"} => CopyClass(s)
  /\ task[s].at \in {"conflict", "resolved", "replacing"} => Plan[s].kind \in Makers

(* All but main, which the loop's shape is needed for. *)
Typed ==
  /\ Logged
  /\ files \in [Paths -> Contents]
  /\ partials \subseteq [step : Steps, attempt : Nat]
  /\ control \in ControlState
  /\ sticky \in Policies \cup {"none"}
  /\ task \in [Steps -> TaskState]
  /\ outcomes \in [Steps -> Outcomes \cup {"none"}]
  /\ acted \subseteq Steps
  /\ \A s \in Steps : Apt(s)

(* What the loop's own state says of the tasks: those it has not come to   *)
(* are as they began, those it has passed are done, and the tasks that may *)
(* run are those of the group it is at.                                    *)
Fresh(s) == task[s].at = "idle" /\ ~task[s].named

Start(next, mark) == next + ((mark - next) \div Window) * Window

WindowStart == Start(main.next, main.mark)

Group ==
  /\ main.next <= main.hi
  /\ \A s \in Steps : s > main.hi => Fresh(s)
  /\ \A s \in main.next..main.hi :
       RedoSafe(main.next) => RedoSafe(s) /\ (CopyClass(s) <=> CopyClass(main.next))
  /\ ~RedoSafe(main.next) => main.hi = main.next

WindowShape ==
  /\ RedoSafe(main.next)
  /\ main.mark \in main.next..main.hi
  /\ main.mark < main.hi => main.mark = WindowStart + Window - 1
  /\ \A s \in main.next..main.hi : task[s].at = "idle"
  /\ \A s \in main.next..main.mark : task[s].named

BatchShape ==
  /\ CopyClass(main.next)
  /\ main.mark \in (main.next - 1)..main.hi
  /\ \A s \in main.next..main.mark : task[s].at # "idle"
  /\ \A s \in (main.mark + 1)..main.hi : task[s].at = "done"

SerialShape ==
  /\ ~CopyClass(main.next)
  /\ task[main.next].at # "idle"
  /\ \A s \in (main.next + 1)..main.hi : task[s].at = "idle" /\ task[s].named
  /\ ~RedoSafe(main.next) => ~task[main.next].named

Shape ==
  /\ main \in MainState
  /\ main.at \in {"starting", "loop"} => \A s \in Steps : s >= main.next => Fresh(s)
  /\ main.at \in {"starting", "loop", "window", "finishing", "ended"} =>
       \A s \in Steps : task[s].at \in Stopped
  /\ main.at \in {"window", "batch", "serial"} => Group
  /\ main.at \in {"starting", "loop", "window", "batch", "serial"} =>
       \A s \in Steps : s < main.next => task[s].at = "done"
  /\ main.at = "window" => WindowShape
  /\ main.at = "batch" => BatchShape
  /\ main.at = "serial" => SerialShape

(* The journal only grows, and what is durable of it does not once a write *)
(* has failed.                                                             *)
Grown ==
  /\ Len(journal.sent) <= Len(journal'.sent)
  /\ \A i \in 1..Len(journal.sent) : journal'.sent[i] = journal.sent[i]
  /\ journal.synced <= journal'.synced
  /\ journal.poisoned => journal'.poisoned /\ journal'.synced = journal.synced

-----------------------------------------------------------------------------
(* What a step of one task does, to itself and to what is shared.          *)
Same(s) ==
  /\ task'[s].attempt = task[s].attempt
  /\ task'[s].named = task[s].named

Enters(s) ==
  /\ task[s].at = "gate" /\ task[s].named
  /\ task'[s].at = "run" /\ ~task'[s].named
  /\ task'[s].attempt = task[s].attempt
  /\ UNCHANGED <<journal, acted, partials, outcomes>>

Asks(s) ==
  /\ task[s].at = "gate" /\ ~task[s].named
  /\ task'[s].at = "intent" /\ ~task'[s].named
  /\ task'[s].attempt = task[s].attempt + 1
  /\ task'[s].ticket = Len(journal.sent) + 1
  /\ journal' = Queue(<<Intent(s, PartialOf(s, task'[s].attempt))>>)
  /\ UNCHANGED <<acted, partials, outcomes>>

Admitted(s) ==
  /\ task[s].at = "intent" /\ Durable(task[s].ticket)
  /\ task'[s].at = "run" /\ Same(s)
  /\ UNCHANGED <<journal, acted, partials, outcomes>>

Refuses(s) ==
  /\ task[s].at \in {"intent", "closing"} /\ Refused(task[s].ticket)
  /\ task'[s].at = "done" /\ task'[s].result = "Failed" /\ Same(s)
  /\ UNCHANGED <<journal, acted, partials, outcomes>>

Closes(s) ==
  /\ task[s].at = "closing" /\ Durable(task[s].ticket)
  /\ task'[s].at = "done" /\ task'[s].result = task[s].result /\ Same(s)
  /\ UNCHANGED <<journal, acted, partials, outcomes>>

(* Back to the gate, to the back-off or out of the job. *)
Leaves(s) ==
  /\ task[s].at \in Working \cup {"ready", "gate", "backoff"}
  /\ task'[s].at \in {"gate", "backoff", "cancelled"} /\ Same(s)
  /\ task[s].at \in {"ready", "gate"} => task'[s].at # "backoff"
  /\ task'[s].at = "cancelled" => control = "Cancelled"
  /\ UNCHANGED <<journal, acted, outcomes>>
  /\ partials' \subseteq partials

Works(s) ==
  /\ task[s].at \in Working /\ task'[s].at \in Working /\ Same(s)
  /\ acted' = acted \/ (acted' = acted \cup {s} /\ Plan[s].kind # "Remove")
  /\ partials' = partials \/ (CopyClass(s) /\ partials' = partials \cup {Staged(s)})
  /\ UNCHANGED <<journal, outcomes>>

Concludes(s) ==
  /\ task[s].at \in Working
  /\ task'[s].at = IF RedoSafe(s) THEN "done" ELSE "closing"
  /\ task'[s].ticket = Len(journal.sent) + 1
  /\ Same(s)
  /\ \E o \in Outcomes :
       /\ task'[s].result = o
       /\ outcomes' = [outcomes EXCEPT ![s] = o]
       /\ journal' = Queue(<<Completion(s, o)>>)
  /\ acted' = acted
       \/ (acted' = acted \cup {s} /\ (Plan[s].kind = "Remove" => ~Blocked(s)))
  /\ partials' \subseteq partials

Alone(s) ==
  /\ main' = main
  /\ task[s].at \notin Stopped
  /\ task' \in [Steps -> TaskState]
  /\ \A t \in Steps : t # s => task'[t] = task[t]
  /\ Apt(s)'
  /\ files' \in [Paths -> Contents]
  /\ control' \in ControlState
  /\ control = "Cancelled" => control' = "Cancelled"
  /\ sticky' \in Policies \cup {"none"}

TaskStep(s) ==
  /\ Alone(s)
  /\ \/ Enters(s) \/ Asks(s) \/ Admitted(s) \/ Refuses(s) \/ Closes(s)
     \/ Leaves(s) \/ Works(s) \/ Concludes(s)

-----------------------------------------------------------------------------
(* Facts about numbers: the least of a set, and the library's Max and Min.  *)
LEMMA Smallest ==
  ASSUME NEW T \in SUBSET Nat, T # {}
  PROVE  \E k \in T : \A j \in T : k <= j
<1> DEFINE Below == {0..k : k \in T}
           R == StrictSubsetOrdering(Nat)
<1>1. Below \subseteq FiniteSubsetsOf(Nat) /\ Below # {}
  <2>1. ASSUME NEW k \in T
        PROVE  0..k \in FiniteSubsetsOf(Nat)
    <3>1. k \in Int /\ 0 \in Int
      OBVIOUS
    <3>2. IsFiniteSet(0..k)
      BY <3>1, FS_Interval
    <3> QED
      BY <3>2 DEF FiniteSubsetsOf
  <2> QED
    BY <2>1
<1>2. PICK m \in Below : \A b \in Below : ~ (<<b, m>> \in R)
  <2>1. IsWellFoundedOn(R, FiniteSubsetsOf(Nat))
    BY FS_StrictSubsetOrderingWellFounded
  <2> HIDE DEF R, Below
  <2> QED
    BY <1>1, <2>1, WFMin
<1>3. PICK k \in T : m = 0..k
  OBVIOUS
<1>4. ASSUME NEW j \in T, j < k
      PROVE  FALSE
  <2>1. 0..j \subseteq 0..k /\ 0..j # 0..k
    BY <1>4
  <2>2. 0..j \in SUBSET Nat /\ 0..k \in SUBSET Nat
    BY <1>4
  <2>3. <<0..j, 0..k>> \in R
    BY <2>1, <2>2, FS_Interval DEF StrictSubsetOrdering, FiniteSubsetsOf
  <2> QED
    BY <1>2, <1>3, <2>3
<1> QED
  BY <1>4

LEMMA MaxShape ==
  ASSUME NEW S \in SUBSET Nat, NEW n \in Nat, \A x \in S : x <= n, S # {}
  PROVE  Max(S) \in S /\ \A y \in S : y <= Max(S)
<1> DEFINE T == {k \in Nat : n - k \in S}
<1>1. PICK k \in T : \A j \in T : k <= j
  <2>1. T \subseteq Nat /\ T # {}
    <3>1. PICK x \in S : x <= n
      OBVIOUS
    <3>2. n - x \in T
      BY <3>1
    <3> QED
      BY <3>2
  <2> HIDE DEF T
  <2> QED
    BY <2>1, Smallest
<1>3. n - k \in S /\ \A y \in S : n - k >= y
  BY <1>1
<1> QED
  BY <1>3 DEF Max

LEMMA MinShape ==
  ASSUME NEW a \in Nat, NEW b \in Nat
  PROVE  Min({a, b}) = IF a <= b THEN a ELSE b
BY DEF Min

LEMMA MaxOfInterval ==
  ASSUME NEW a \in Nat, NEW b \in Nat, a <= b
  PROVE  Max(a..b) = b
BY DEF Max

LEMMA QuotientOf ==
  ASSUME NEW n \in Nat \ {0}, NEW q \in Nat, NEW r \in 0..(n - 1)
  PROVE  (q * n + r) \div n = q
OBVIOUS

LEMMA QuotientBounds ==
  ASSUME NEW n \in Nat \ {0}, NEW a \in Nat
  PROVE  /\ a \div n \in Nat
         /\ (a \div n) * n \in Nat
         /\ (a \div n) * n <= a
OBVIOUS

-----------------------------------------------------------------------------
LEMMA PlanParts ==
  ASSUME NEW s \in Steps
  PROVE  /\ Plan[s].kind \in Kinds
         /\ Plan[s].dst \in Paths
         /\ Plan[s].kind \in {"CopyFile", "Rename", "Link"} => Plan[s].src \in Paths
         /\ Plan[s].conflict \in Policies \cup {"none"}
         /\ Plan[s].dep \in Nat /\ Plan[s].dep < s
         /\ Plan[s].dep # 0 => Plan[s].dep \in Steps
<1> DEFINE Step == [kind : Kinds, src : Paths \cup {"none"}, dst : Paths \cup {"none"},
                    dep : Nat, conflict : Policies \cup {"none"}]
<1>1. Plan[s] \in Step
  <2>1. Plan \in Seq(Step)
    BY ExecutorAssumption DEF ExecutorAssumption
  <2> HIDE DEF Step
  <2> QED
    BY <2>1, ElementOfSeq DEF Steps
<1>2. Plan[s].dep < s /\ Plan[s].dst # "none"
  BY ExecutorAssumption DEF ExecutorAssumption
<1>3. Plan[s].kind \in {"CopyFile", "Rename", "Link"} => Plan[s].src # "none"
  BY ExecutorAssumption DEF ExecutorAssumption
<1> QED
  BY <1>1, <1>2, <1>3 DEF Steps

LEMMA NoneIsContent == "none" \in Contents
BY DEF Contents

LEMMA ProductTyped ==
  ASSUME files \in [Paths -> Contents], NEW s \in Steps,
         Plan[s].kind \in Makers
  PROVE  Product(s) \in Contents
<1>1. {"dir", "symlink", "trashinfo"} \subseteq Contents
  BY DEF Contents
<1>2. CASE Plan[s].kind \in {"CopyFile", "Rename", "Link"}
  <2>1. files[Plan[s].src] \in Contents
    BY <1>2, PlanParts
  <2> QED
    BY <1>2, <2>1 DEF Product
<1>3. CASE Plan[s].kind \in {"CreateDir", "Symlink", "WriteTrashInfo"}
  BY <1>1, <1>3 DEF Product
<1> QED
  BY <1>2, <1>3 DEF Makers

LEMMA PlaceShape ==
  ASSUME Typed, NEW s \in Steps, NEW p \in Paths, Place(s, p),
         Plan[s].kind \in Makers
  PROVE  files' \in [Paths -> Contents] /\ acted' = acted \cup {s}
<1>1. Product(s) \in Contents /\ "none" \in Contents
  BY ProductTyped, NoneIsContent DEF Typed
<1> QED
  BY <1>1 DEF Place, Typed

LEMMA TaskPut ==
  ASSUME Typed, NEW s \in Steps, NEW after \in TaskState, task' = [task EXCEPT ![s] = after]
  PROVE  /\ task' \in [Steps -> TaskState] /\ task'[s] = after
         /\ \A t \in Steps : t # s => task'[t] = task[t]
BY DEF Typed

LEMMA GoesShape ==
  ASSUME Typed, NEW s \in Steps, NEW p \in TaskPlaces, Goes(s, p)
  PROVE  /\ task' \in [Steps -> TaskState]
         /\ \A t \in Steps : t # s => task'[t] = task[t]
         /\ task'[s].at = p /\ Same(s)
<1> DEFINE after == [task[s] EXCEPT !.at = p]
<1>1. task[s] \in TaskState
  BY DEF Typed
<1>2. /\ after \in TaskState /\ after.at = p
      /\ after.attempt = task[s].attempt /\ after.named = task[s].named
  BY <1>1 DEF TaskState
<1>3. task' = [task EXCEPT ![s] = after]
  BY DEF Goes
<1> HIDE DEF after
<1> QED
  BY <1>2, <1>3, TaskPut DEF Same

LEMMA ConcludeShape ==
  ASSUME Typed, NEW s \in Steps, NEW o \in Outcomes, Conclude(s, o)
  PROVE  /\ main' = main
         /\ task' \in [Steps -> TaskState]
         /\ \A t \in Steps : t # s => task'[t] = task[t]
         /\ task'[s].at = (IF RedoSafe(s) THEN "done" ELSE "closing")
         /\ task'[s].ticket = Len(journal.sent) + 1
         /\ task'[s].result = o
         /\ Same(s)
         /\ outcomes' = [outcomes EXCEPT ![s] = o]
         /\ journal' = Queue(<<Completion(s, o)>>)
<1> DEFINE place == IF RedoSafe(s) THEN "done" ELSE "closing"
<1>1. place \in TaskPlaces
  BY DEF TaskPlaces, Stopped
<1>2. Ticket(1) = Len(journal.sent) + 1 /\ Ticket(1) \in Nat
  BY LenProperties DEF Ticket, Typed, Logged
<1>3. task' = [task EXCEPT ![s].result = o, ![s].at = place, ![s].ticket = Ticket(1)]
  BY DEF Conclude
<1>4. main' = main /\ outcomes' = [outcomes EXCEPT ![s] = o]
        /\ journal' = Queue(<<Completion(s, o)>>)
  BY DEF Conclude
<1> HIDE DEF place
<1>5. /\ task' \in [Steps -> TaskState]
      /\ \A t \in Steps : t # s => task'[t] = task[t]
      /\ task'[s].at = place /\ task'[s].ticket = Ticket(1)
      /\ task'[s].result = o /\ Same(s)
  <2> DEFINE after == [task[s] EXCEPT !.result = o, !.at = place, !.ticket = Ticket(1)]
  <2>1. task[s] \in TaskState
    BY DEF Typed
  <2>2. /\ after \in TaskState /\ after.at = place /\ after.ticket = Ticket(1)
        /\ after.result = o
        /\ after.attempt = task[s].attempt /\ after.named = task[s].named
    BY <1>1, <1>2, <2>1 DEF TaskState
  <2>3. task' = [task EXCEPT ![s] = after]
    BY <1>3
  <2> HIDE DEF after
  <2> QED
    BY <2>2, <2>3, TaskPut DEF Same
<1> QED
  BY <1>2, <1>4, <1>5 DEF place

-----------------------------------------------------------------------------
(* Every action of a step, as one of the TaskSteps.                        *)
LEMMA LeavesSteps ==
  ASSUME Typed, NEW s \in Steps,
         \/ TakePermit(s) \/ GateCancelled(s) \/ CopyInterrupted(s)
         \/ VerifyInterrupted(s) \/ BackoffEnds(s)
  PROVE  TaskStep(s)
<1> USE DEF Working, Stopped
<1>1. PICK p \in {"gate", "cancelled"} : Goes(s, p) /\ (p = "cancelled" => control = "Cancelled")
  BY DEF TakePermit, GateCancelled, CopyInterrupted, VerifyInterrupted, BackoffEnds
<1>2. /\ task' \in [Steps -> TaskState]
      /\ \A t \in Steps : t # s => task'[t] = task[t]
      /\ task'[s].at = p /\ Same(s)
  BY <1>1, GoesShape DEF TaskPlaces
<1>3. /\ task[s].at \in Working \cup {"ready", "gate", "backoff"}
      /\ UNCHANGED <<files, acted, journal, control, sticky, outcomes, main>>
      /\ partials' \subseteq partials
  BY DEF TakePermit, GateCancelled, CopyInterrupted, VerifyInterrupted, BackoffEnds,
         At, Dispatch, Unstage, fs
<1>4. Leaves(s)
  BY <1>1, <1>2, <1>3 DEF Leaves
<1>5. Alone(s)
  BY <1>2, <1>3 DEF Alone, Apt, Typed
<1> QED
  BY <1>4, <1>5 DEF TaskStep

LEMMA GateSteps ==
  ASSUME Typed, NEW s \in Steps, GatePasses(s)
  PROVE  TaskStep(s)
<1> USE DEF Working, Stopped, TaskPlaces
<1>1. UNCHANGED <<files, partials, acted, control, sticky, outcomes, main>> /\ At(s, "gate")
  BY DEF GatePasses, fs
<1>2. CASE task[s].named
  <2>1. task' = [task EXCEPT ![s].at = "run", ![s].named = FALSE] /\ UNCHANGED journal
    BY <1>2 DEF GatePasses
  <2>2. /\ task' \in [Steps -> TaskState]
        /\ \A t \in Steps : t # s => task'[t] = task[t]
        /\ task'[s].at = "run" /\ ~task'[s].named /\ task'[s].attempt = task[s].attempt
    <3> DEFINE after == [task[s] EXCEPT !.at = "run", !.named = FALSE]
    <3>1. task[s] \in TaskState
      BY DEF Typed
    <3>2. /\ after \in TaskState
          /\ after.at = "run" /\ ~after.named /\ after.attempt = task[s].attempt
      BY <3>1 DEF TaskState
    <3>3. task' = [task EXCEPT ![s] = after]
      BY <2>1
    <3> HIDE DEF after
    <3> QED
      BY <3>2, <3>3, TaskPut
  <2> QED
    BY <1>1, <1>2, <2>1, <2>2 DEF TaskStep, Enters, Alone, At, Apt, Typed
<1>3. CASE ~task[s].named
  <2> DEFINE attempt == task[s].attempt + 1
             ticket == Ticket(1)
  <2>1. attempt \in Nat /\ ticket \in Nat /\ ticket = Len(journal.sent) + 1
    BY LenProperties DEF Typed, TaskState, Ticket, Logged
  <2>2. /\ task' = [task EXCEPT ![s].at = "intent", ![s].attempt = attempt,
                               ![s].ticket = ticket]
        /\ journal' = Queue(<<Intent(s, PartialOf(s, attempt))>>)
    BY <1>3 DEF GatePasses
  <2>a. "intent" \in TaskPlaces
    OBVIOUS
  <2> HIDE DEF attempt, ticket, Working, Stopped, TaskPlaces
  <2>3. /\ task' \in [Steps -> TaskState]
        /\ \A t \in Steps : t # s => task'[t] = task[t]
        /\ task'[s].at = "intent" /\ task'[s].named = task[s].named
        /\ task'[s].attempt = attempt /\ task'[s].ticket = ticket
    <3> DEFINE after == [task[s] EXCEPT !.at = "intent", !.attempt = attempt,
                                        !.ticket = ticket]
    <3>1. task[s] \in TaskState
      BY DEF Typed
    <3>2. /\ after \in TaskState /\ after.at = "intent" /\ after.named = task[s].named
          /\ after.attempt = attempt /\ after.ticket = ticket
      BY <2>a, <2>1, <3>1 DEF TaskState
    <3>3. task' = [task EXCEPT ![s] = after]
      BY <2>2
    <3> HIDE DEF after
    <3> QED
      BY <3>2, <3>3, TaskPut
  <2>4. attempt = task[s].attempt + 1
    BY DEF attempt
  <2>5. Asks(s)
    BY <1>1, <1>3, <2>1, <2>2, <2>3, <2>4 DEF Asks, At
  <2> QED
    BY <1>1, <2>3, <2>5 DEF TaskStep, Alone, At, Apt, Typed, Stopped
<1> QED
  BY <1>2, <1>3

LEMMA AnswerSteps ==
  ASSUME Typed, NEW s \in Steps,
         IntentDurable(s) \/ IntentRefused(s) \/ CompletionDurable(s) \/ CompletionRefused(s)
  PROVE  TaskStep(s)
<1> USE DEF Working, Stopped, TaskPlaces
<1>1. UNCHANGED <<files, partials, acted, journal, control, sticky, outcomes, main>>
  BY DEF IntentDurable, IntentRefused, CompletionDurable, CompletionRefused, fs
<1>2. CASE IntentDurable(s) \/ CompletionDurable(s)
  <2>1. PICK p \in {"run", "done"} : Goes(s, p)
    BY <1>2 DEF IntentDurable, CompletionDurable
  <2>2. /\ task' \in [Steps -> TaskState]
        /\ \A t \in Steps : t # s => task'[t] = task[t]
        /\ task'[s].at = p /\ Same(s)
    BY <2>1, GoesShape
  <2>3. task'[s].result = task[s].result
    BY <2>1 DEF Goes, Typed, TaskState
  <2>4. Apt(s)'
    BY <2>2 DEF Apt
  <2>5. task[s].at \notin Stopped
    BY <1>2 DEF IntentDurable, CompletionDurable, At
  <2>6. Alone(s)
    BY <1>1, <2>2, <2>4, <2>5 DEF Alone, Typed
  <2>7. task'[s].at = IF At(s, "intent") THEN "run" ELSE "done"
    BY <1>2 DEF IntentDurable, CompletionDurable, At, Goes, Typed, TaskState
  <2> QED
    BY <1>1, <1>2, <2>2, <2>3, <2>6, <2>7
       DEF TaskStep, Admitted, Closes, IntentDurable, CompletionDurable, At
<1>3. CASE IntentRefused(s) \/ CompletionRefused(s)
  <2>1. task' = [task EXCEPT ![s].at = "done", ![s].result = "Failed"]
    BY <1>3 DEF IntentRefused, CompletionRefused
  <2>2. /\ task' \in [Steps -> TaskState]
        /\ \A t \in Steps : t # s => task'[t] = task[t]
        /\ task'[s].at = "done" /\ task'[s].result = "Failed" /\ Same(s)
    <3> DEFINE after == [task[s] EXCEPT !.at = "done", !.result = "Failed"]
    <3>1. task[s] \in TaskState
      BY DEF Typed
    <3>2. /\ after \in TaskState /\ after.at = "done" /\ after.result = "Failed"
          /\ after.attempt = task[s].attempt /\ after.named = task[s].named
      BY <3>1 DEF TaskState, Outcomes
    <3>3. task' = [task EXCEPT ![s] = after]
      BY <2>1
    <3> HIDE DEF after
    <3> QED
      BY <3>2, <3>3, TaskPut DEF Same
  <2>3. task[s].at \in {"intent", "closing"} /\ Refused(task[s].ticket)
    BY <1>3 DEF IntentRefused, CompletionRefused, At
  <2> QED
    BY <1>1, <2>2, <2>3 DEF TaskStep, Refuses, Alone, Apt, Typed
<1> QED
  BY <1>2, <1>3

LEMMA WorkSteps ==
  ASSUME Typed, NEW s \in Steps,
         \/ CopyBegins(s) \/ CopyEnds(s) \/ PublishConflicts(s)
         \/ CreateConflicts(s) \/ OldRemoved(s)
  PROVE  TaskStep(s)
<1>1. PICK p \in {"copying", "staged", "conflict", "replacing"} :
        /\ Goes(s, p)
        /\ p \in {"copying", "staged"} => CopyClass(s)
        /\ p \in {"conflict", "replacing"} => Plan[s].kind \in Makers
  <2>1. CASE CopyBegins(s)
    BY <2>1 DEF CopyBegins, Dispatch, CopyClass
  <2>2. CASE CopyEnds(s)
    BY <2>2 DEF CopyEnds, At, Apt, Typed
  <2>3. CASE PublishConflicts(s)
    BY <2>3 DEF PublishConflicts, At, Apt, Typed, CopyClass, Makers
  <2>4. CASE CreateConflicts(s)
    BY <2>4 DEF CreateConflicts, Creates, Makers
  <2>5. CASE OldRemoved(s)
    BY <2>5 DEF OldRemoved, Makers
  <2> QED
    BY <2>1, <2>2, <2>3, <2>4, <2>5
<1>2. /\ task' \in [Steps -> TaskState]
      /\ \A t \in Steps : t # s => task'[t] = task[t]
      /\ task'[s].at = p /\ Same(s)
  BY <1>1, GoesShape DEF TaskPlaces, Working
<1>3. Apt(s)'
  BY <1>1, <1>2 DEF Apt, CopyClass
<1>4. UNCHANGED <<journal, control, sticky, outcomes, main>>
  BY DEF CopyBegins, CopyEnds, PublishConflicts, CreateConflicts, OldRemoved
<1>5. task[s].at \in Working
  BY DEF CopyBegins, CopyEnds, PublishConflicts, CreateConflicts, OldRemoved, Dispatch,
         Creates, Replaces, Overwrites, At, Working
<1>6. /\ files' \in [Paths -> Contents]
      /\ acted' = acted \/ (acted' = acted \cup {s} /\ Plan[s].kind # "Remove")
  <2>1. CASE OldRemoved(s)
    BY <2>1, NoneIsContent DEF OldRemoved, Typed
  <2>2. CASE ~OldRemoved(s)
    BY <2>2 DEF CopyBegins, CopyEnds, PublishConflicts, CreateConflicts, fs, Typed
  <2> QED
    BY <2>1, <2>2
<1>7. partials' = partials \/ (CopyClass(s) /\ partials' = partials \cup {Staged(s)})
  BY DEF CopyBegins, CopyEnds, PublishConflicts, CreateConflicts, OldRemoved, fs,
         Dispatch, CopyClass
<1>8. Works(s)
  BY <1>2, <1>4, <1>5, <1>6, <1>7 DEF Works, Working
<1>9. Alone(s)
  BY <1>2, <1>3, <1>4, <1>5, <1>6 DEF Alone, Typed, Working, Stopped
<1> QED
  BY <1>8, <1>9 DEF TaskStep

LEMMA SettleSteps ==
  ASSUME Typed, NEW s \in Steps, PolicySettles(s) \/ ResolverAnswers(s)
  PROVE  TaskStep(s)
<1>1. At(s, "conflict") /\ UNCHANGED <<files, partials, acted, journal, control, outcomes, main>>
  BY DEF PolicySettles, ResolverAnswers, fs
<1>2. PICK policy \in Policies : Settle(s, policy) /\ sticky' \in {sticky, policy}
  <2>1. CASE PolicySettles(s)
    BY <2>1, PlanParts, ExecutorAssumption
       DEF PolicySettles, ExecutorAssumption, Typed, Policies
  <2>2. CASE ResolverAnswers(s)
    BY <2>2, ExecutorAssumption DEF ResolverAnswers, ExecutorAssumption
  <2> QED
    BY <2>1, <2>2
<1>3. "resolved" \in TaskPlaces
  BY DEF TaskPlaces, Working
<1>4. /\ task' \in [Steps -> TaskState]
      /\ \A t \in Steps : t # s => task'[t] = task[t]
      /\ task'[s].at = "resolved" /\ Same(s)
  <2> DEFINE after == [task[s] EXCEPT !.at = "resolved", !.policy = policy]
  <2>1. task[s] \in TaskState
    BY DEF Typed
  <2>2. /\ after \in TaskState /\ after.at = "resolved"
        /\ after.attempt = task[s].attempt /\ after.named = task[s].named
    BY <1>2, <1>3, <2>1 DEF TaskState
  <2>3. task' = [task EXCEPT ![s] = after]
    BY <1>2 DEF Settle
  <2> HIDE DEF after
  <2> QED
    BY <2>2, <2>3, TaskPut DEF Same
<1>5. Apt(s)'
  BY <1>1, <1>4 DEF Apt, At, Typed, CopyClass
<1>6. Works(s)
  BY <1>1, <1>4 DEF Works, Working, At
<1>7. Alone(s)
  BY <1>1, <1>2, <1>4, <1>5 DEF Alone, At, Typed, Stopped
<1> QED
  BY <1>6, <1>7 DEF TaskStep

(* A step that ends as o says, having changed at most what it is for. *)
LEMMA ConcludeSteps ==
  ASSUME Typed, NEW s \in Steps, NEW o \in Outcomes, Conclude(s, o),
         task[s].at \in Working,
         files' \in [Paths -> Contents],
         acted' = acted
           \/ (acted' = acted \cup {s} /\ (Plan[s].kind = "Remove" => ~Blocked(s))),
         partials' \subseteq partials,
         control' \in {control, "Cancelled"}, sticky' = sticky
  PROVE  TaskStep(s)
<1>1. Concludes(s)
  BY ConcludeShape DEF Concludes
<1>2. Apt(s)'
  <2>1. task'[s].at \in {"done", "closing"}
    BY ConcludeShape
  <2> QED
    BY <2>1 DEF Apt
<1>3. Alone(s)
  BY <1>2, ConcludeShape DEF Alone, Working, Stopped, Typed, ControlState
<1> QED
  BY <1>1, <1>3 DEF TaskStep

LEMMA AnsweredSteps ==
  ASSUME Typed, NEW s \in Steps,
         \/ DependencyBlocks(s) \/ CopyImpossible(s) \/ CreateImpossible(s)
         \/ DirExists(s) \/ AlternateRefused(s) \/ ReplaceImpossible(s)
         \/ VerifyEnds(s) \/ SetMetaEnds(s) \/ RemoveImpossible(s) \/ DirNotEmpty(s)
  PROVE  TaskStep(s)
<1>1. PICK o \in Outcomes : Conclude(s, o)
  BY DEF DependencyBlocks, CopyImpossible, CreateImpossible, DirExists, AlternateRefused,
         ReplaceImpossible, VerifyEnds, SetMetaEnds, RemoveImpossible, DirNotEmpty,
         Answer, Outcomes
<1>2. task[s].at \in Working
  BY DEF DependencyBlocks, CopyImpossible, CreateImpossible, DirExists, AlternateRefused,
         ReplaceImpossible, VerifyEnds, SetMetaEnds, RemoveImpossible, DirNotEmpty,
         Dispatch, Creates, Overwrites, Removes, At, Working
<1>3. UNCHANGED <<files, partials, acted, control, sticky>>
  BY DEF DependencyBlocks, CopyImpossible, CreateImpossible, DirExists, AlternateRefused,
         ReplaceImpossible, VerifyEnds, SetMetaEnds, RemoveImpossible, DirNotEmpty,
         Answer, fs
<1> QED
  BY <1>1, <1>2, <1>3, ConcludeSteps DEF Typed

LEMMA PlaceSteps ==
  ASSUME Typed, NEW s \in Steps,
         \/ Publishes(s) \/ CreateSucceeds(s) \/ AlternateTaken(s)
         \/ RenameReplaces(s) \/ NewCreated(s)
  PROVE  TaskStep(s)
<1>1. Conclude(s, "Succeeded") /\ "Succeeded" \in Outcomes
  BY DEF Publishes, CreateSucceeds, AlternateTaken, RenameReplaces, NewCreated, Outcomes
<1>2. task[s].at \in Working
  BY DEF Publishes, CreateSucceeds, AlternateTaken, RenameReplaces, NewCreated,
         Creates, Replaces, Overwrites, At, Working
<1>3. Plan[s].kind \in Makers
  BY DEF Publishes, CreateSucceeds, AlternateTaken, RenameReplaces, NewCreated,
         Creates, At, Apt, Typed, CopyClass, Makers
<1>4. PICK p \in Paths : Place(s, p)
  <2>1. Plan[s].dst \in Paths /\ Alternate[Plan[s].dst] \in Paths
    BY PlanParts, ExecutorAssumption DEF ExecutorAssumption
  <2> QED
    BY <2>1 DEF Publishes, CreateSucceeds, AlternateTaken, RenameReplaces, NewCreated
<1>5. files' \in [Paths -> Contents] /\ acted' = acted \cup {s}
  BY <1>3, <1>4, PlaceShape
<1>6. partials' \subseteq partials /\ UNCHANGED <<control, sticky>>
  BY DEF Publishes, CreateSucceeds, AlternateTaken, RenameReplaces, NewCreated, Unstage
<1>7. Plan[s].kind # "Remove"
  BY <1>3 DEF Makers
<1> QED
  BY <1>1, <1>2, <1>5, <1>6, <1>7, ConcludeSteps

LEMMA RemoveSteps ==
  ASSUME Typed, NEW s \in Steps, RemoveSucceeds(s)
  PROVE  TaskStep(s)
<1>1. /\ Conclude(s, "Succeeded") /\ "Succeeded" \in Outcomes
      /\ acted' = acted \cup {s} /\ UNCHANGED <<partials, control, sticky>>
  BY DEF RemoveSucceeds, Outcomes
<1>2. task[s].at \in Working /\ ~Blocked(s)
  BY DEF RemoveSucceeds, Removes, Dispatch, At, Working
<1>3. files' \in [Paths -> Contents]
  BY NoneIsContent DEF RemoveSucceeds, Typed
<1> QED
  BY <1>1, <1>2, <1>3, ConcludeSteps DEF Typed

LEMMA SkipSteps ==
  ASSUME Typed, NEW s \in Steps, ConflictSkips(s)
  PROVE  TaskStep(s)
<1>1. Conclude(s, "Skipped") /\ "Skipped" \in Outcomes /\ UNCHANGED <<files, acted, sticky>>
  BY DEF ConflictSkips, Outcomes
<1>2. task[s].at \in Working /\ partials' \subseteq partials
  BY DEF ConflictSkips, At, Working, Unstage
<1>3. control' \in {control, "Cancelled"}
  BY DEF ConflictSkips, AfterCancel
<1> QED
  BY <1>1, <1>2, <1>3, ConcludeSteps DEF Typed

LEMMA FailSteps ==
  ASSUME Typed, NEW s \in Steps, CallFails(s)
  PROVE  TaskStep(s)
<1>1. task[s].at \in Working
  BY DEF CallFails, Calls, At, Working
<1>2. UNCHANGED <<files, acted, sticky>> /\ partials' \subseteq partials
  BY DEF CallFails, Unstage
<1>3. CASE Conclude(s, "Failed") /\ UNCHANGED control
  BY <1>1, <1>2, <1>3, ConcludeSteps DEF Outcomes, Typed
<1>4. CASE /\ Goes(s, "gate") /\ control' = AfterPause(control)
           /\ UNCHANGED <<journal, outcomes, main>>
  <2>1. /\ task' \in [Steps -> TaskState]
        /\ \A t \in Steps : t # s => task'[t] = task[t]
        /\ task'[s].at = "gate" /\ Same(s)
    BY <1>4, GoesShape DEF TaskPlaces
  <2>2. control' \in ControlState /\ (control = "Cancelled" => control' = "Cancelled")
    BY <1>4 DEF AfterPause, ControlState, Typed
  <2> QED
    BY <1>1, <1>2, <1>4, <2>1, <2>2
       DEF TaskStep, Leaves, Alone, Apt, Working, Stopped, Typed
<1>5. CASE /\ task' = [task EXCEPT ![s].at = "backoff", ![s].retries = @ + 1]
           /\ task[s].retries < MaxAttempts
           /\ UNCHANGED <<journal, control, outcomes, main>>
  <2>1. "backoff" \in TaskPlaces /\ task[s].retries + 1 \in 0..MaxAttempts
    BY <1>5, ExecutorAssumption DEF TaskPlaces, Typed, TaskState, ExecutorAssumption
  <2>2. /\ task' \in [Steps -> TaskState]
        /\ \A t \in Steps : t # s => task'[t] = task[t]
        /\ task'[s].at = "backoff" /\ Same(s)
    BY <1>5, <2>1 DEF Typed, TaskState, Same
  <2> QED
    BY <1>1, <1>2, <1>5, <2>2
       DEF TaskStep, Leaves, Alone, Apt, Working, Stopped, Typed
<1> QED
  BY <1>3, <1>4, <1>5 DEF CallFails

LEMMA StepsAreTaskSteps ==
  ASSUME Typed, NEW s \in Steps, Progress(s) \/ ResolverAnswers(s) \/ CallFails(s)
  PROVE  TaskStep(s)
BY LeavesSteps, GateSteps, AnswerSteps, WorkSteps, SettleSteps, AnsweredSteps, PlaceSteps,
   RemoveSteps, SkipSteps, FailSteps DEF Progress

-----------------------------------------------------------------------------
(* The journal. *)
LEMMA QueueShape ==
  ASSUME Logged, NEW records \in Seq(Lines), journal' = Queue(records)
  PROVE  /\ Logged' /\ Grown
         /\ Len(journal'.sent) = Len(journal.sent) + Len(records)
         /\ \A i \in 1..Len(records) : journal'.sent[Len(journal.sent) + i] = records[i]
         /\ journal'.synced = journal.synced
         /\ journal'.poisoned = journal.poisoned
<1>1. journal.sent \in Seq(Lines)
  BY DEF Logged
<1>2. /\ journal' \in [sent : Seq(Lines), written : Nat, synced : Nat, poisoned : BOOLEAN]
      /\ journal'.sent = journal.sent \o records
      /\ journal'.written = journal.written /\ journal'.synced = journal.synced
      /\ journal'.poisoned = journal.poisoned
  <2>1. journal.sent \o records \in Seq(Lines)
    BY <1>1, ConcatProperties
  <2>2. journal' = [journal EXCEPT !.sent = journal.sent \o records]
    BY DEF Queue
  <2> DEFINE longer == journal.sent \o records
  <2> HIDE DEF longer
  <2> QED
    BY <2>1, <2>2 DEF Logged, longer
<1>3. /\ Len(journal'.sent) = Len(journal.sent) + Len(records)
      /\ \A i \in 1..Len(journal.sent) : journal'.sent[i] = journal.sent[i]
      /\ \A i \in 1..Len(records) : journal'.sent[Len(journal.sent) + i] = records[i]
      /\ Len(journal.sent) \in Nat /\ Len(records) \in Nat
  BY <1>1, <1>2, ConcatProperties, LenProperties
<1>4. Logged'
  BY <1>2, <1>3 DEF Logged
<1> QED
  BY <1>2, <1>3, <1>4 DEF Grown, Logged

LEMMA QueueOne ==
  ASSUME Logged, NEW record \in Lines, journal' = Queue(<<record>>)
  PROVE  /\ Logged' /\ Grown
         /\ Len(journal'.sent) = Len(journal.sent) + 1
         /\ journal'.sent[Len(journal.sent) + 1] = record
         /\ journal'.synced = journal.synced
         /\ journal'.poisoned = journal.poisoned
<1>1. <<record>> \in Seq(Lines) /\ Len(<<record>>) = 1 /\ <<record>>[1] = record
  OBVIOUS
<1> DEFINE records == <<record>>
<1> HIDE DEF records
<1>2. records \in Seq(Lines) /\ Len(records) = 1 /\ records[1] = record /\ journal' = Queue(records)
  BY <1>1 DEF records
<1>3. /\ Logged' /\ Grown
      /\ Len(journal'.sent) = Len(journal.sent) + Len(records)
      /\ \A i \in 1..Len(records) : journal'.sent[Len(journal.sent) + i] = records[i]
      /\ journal'.synced = journal.synced
      /\ journal'.poisoned = journal.poisoned
  BY <1>2, QueueShape
<1>4. journal'.sent[Len(journal.sent) + 1] = records[1]
  BY <1>2, <1>3
<1> QED
  BY <1>2, <1>3, <1>4

LEMMA LinesHave ==
  ASSUME NEW s \in Steps, NEW n \in Nat, NEW o \in Outcomes, NEW v \in Verdicts
  PROVE  {Intent(s, n), Completion(s, o), JobFinished(v), JobStarted(0)} \subseteq Lines
BY DEF Lines

LEMMA GrownAlike ==
  ASSUME Logged, UNCHANGED journal
  PROVE  Logged' /\ Grown
BY LenProperties DEF Logged, Grown

LEMMA BatchBounds ==
  ASSUME Logged
  PROVE  Batch \in Nat /\ Batch <= Len(journal.sent)
<1>1. Len(journal.sent) \in Nat /\ journal.synced + GroupCommit \in Nat
  BY LenProperties, ExecutorAssumption DEF Logged, ExecutorAssumption
<1> QED
  BY <1>1, MinShape DEF Batch

LEMMA WriterShape ==
  ASSUME Logged, WriteBatch \/ SyncBatch \/ BatchFails
  PROVE  /\ Logged' /\ Grown
         /\ journal'.sent = journal.sent
         /\ journal'.synced # journal.synced => ~journal.poisoned
<1>1. Batch \in Nat /\ Batch <= Len(journal.sent) /\ Len(journal.sent) \in Nat
  BY BatchBounds, LenProperties DEF Logged
<1>2. CASE WriteBatch
  BY <1>1, <1>2 DEF WriteBatch, Logged, Grown
<1>3. CASE SyncBatch
  BY <1>1, <1>3 DEF SyncBatch, Logged, Grown
<1>4. CASE BatchFails
  <2>1. PICK k \in journal.synced..Batch :
          journal' = [journal EXCEPT !.written = k, !.poisoned = TRUE]
    BY <1>4 DEF BatchFails
  <2>2. k \in Nat /\ journal.synced <= k /\ k <= Len(journal.sent)
    BY <1>1 DEF Logged
  <2>3. /\ journal' \in [sent : Seq(Lines), written : Nat, synced : Nat, poisoned : BOOLEAN]
        /\ journal'.sent = journal.sent /\ journal'.synced = journal.synced
        /\ journal'.written = k /\ journal'.poisoned
    BY <2>1, <2>2 DEF Logged
  <2> QED
    BY <1>1, <2>2, <2>3 DEF Logged, Grown
<1> QED
  BY <1>2, <1>3, <1>4

-----------------------------------------------------------------------------
(* The loop's operators: the group it takes, and a window of intents.      *)
LEMMA RunEndShape ==
  ASSUME main \in MainState, main.next \in Steps, RedoSafe(main.next)
  PROVE  /\ RunEnd \in main.next..Len(Plan)
         /\ \A s \in main.next..RunEnd :
              RedoSafe(s) /\ (CopyClass(s) <=> CopyClass(main.next))
<1> DEFINE first == main.next
           alike(s) == IF CopyClass(first) THEN CopyClass(s)
                       ELSE RedoSafe(s) /\ ~CopyClass(s) /\ s < first + Window
           ends == {e \in first..Len(Plan) : \A s \in first..e : alike(s)}
<1>1. Len(Plan) \in Nat /\ first \in Nat /\ first <= Len(Plan) /\ Window \in Nat \ {0}
  BY LenProperties, ExecutorAssumption DEF ExecutorAssumption, Steps
<1>2. first \in ends
  <2>1. alike(first)
    BY <1>1
  <2>2. \A s \in first..first : s = first
    BY <1>1
  <2> HIDE DEF alike
  <2> QED
    BY <1>1, <2>1, <2>2
<1>3. ends \subseteq Nat /\ ends # {} /\ \A e \in ends : e <= Len(Plan)
  <2> HIDE DEF alike
  <2> QED
    BY <1>1, <1>2
<1>4. Max(ends) \in ends
  <2> HIDE DEF ends
  <2> QED
    BY <1>1, <1>3, MaxShape
<1>5. RunEnd = Max(ends)
  BY DEF RunEnd
<1>6. \A s \in first..Max(ends) : alike(s)
  BY <1>4
<1>7. \A s : CopyClass(s) => RedoSafe(s)
  BY DEF CopyClass, RedoSafe
<1>8. \A s \in first..Max(ends) : RedoSafe(s) /\ (CopyClass(s) <=> CopyClass(first))
  <2> HIDE DEF ends
  <2> QED
    BY <1>6, <1>7
<1>9. Max(ends) \in first..Len(Plan)
  BY <1>4
<1> HIDE DEF ends, alike
<1> QED
  BY <1>5, <1>8, <1>9

LastNamed(first, hi) == IF hi <= first + Window - 1 THEN hi ELSE first + Window - 1

LEMMA LastNamedShape ==
  ASSUME NEW first \in Steps, NEW hi \in first..Len(Plan)
  PROVE  /\ LastNamed(first, hi) \in first..hi
         /\ LastNamed(first, hi) < first + Window
         /\ LastNamed(first, hi) < hi => LastNamed(first, hi) = first + Window - 1
         /\ IntentWindow(first, hi) = first..LastNamed(first, hi)
<1>1. /\ first \in Nat \ {0} /\ hi \in Nat /\ Window \in Nat \ {0}
      /\ first + Window - 1 \in Nat
  <2>1. Len(Plan) \in Nat /\ Window \in Nat \ {0}
    BY LenProperties, ExecutorAssumption DEF ExecutorAssumption
  <2> QED
    BY <2>1 DEF Steps
<1>2. Min({hi, first + Window - 1}) = LastNamed(first, hi)
  BY <1>1, MinShape DEF LastNamed
<1> QED
  BY <1>1, <1>2 DEF LastNamed, IntentWindow

(* The steps first to last have their Intents queued together.             *)
Names(first, last, hi) ==
  /\ main' = [main EXCEPT !.at = "window", !.hi = hi, !.mark = last,
                          !.ticket = Len(journal.sent) + (last - first + 1)]
  /\ main' \in MainState
  /\ Logged' /\ Grown /\ journal'.synced = journal.synced
  /\ journal'.poisoned = journal.poisoned
  /\ Len(journal'.sent) = Len(journal.sent) + (last - first + 1)
  /\ \A s \in first..last :
       journal'.sent[Len(journal.sent) + (s - first + 1)] = Intent(s, PartialOf(s, 1))
  /\ task' \in [Steps -> TaskState]
  /\ \A s \in first..last :
       /\ task'[s].at = task[s].at
       /\ task'[s].attempt = 1 /\ task'[s].named
  /\ \A s \in Steps : s \notin first..last => task'[s] = task[s]

LEMMA NameShape ==
  ASSUME Typed, main \in MainState, NEW first \in Steps, NEW hi \in first..Len(Plan),
         NameWindow(first, hi)
  PROVE  Names(first, LastNamed(first, hi), hi)
<1> DEFINE last == LastNamed(first, hi)
           records == [i \in 1..(last - first + 1) |->
                         Intent(first + i - 1, PartialOf(first + i - 1, 1))]
<1>1. /\ last \in first..hi /\ IntentWindow(first, hi) = first..last
      /\ first \in Nat \ {0} /\ last \in Nat \ {0} /\ last \in 0..Len(Plan)
      /\ hi \in 0..Len(Plan) /\ Len(Plan) \in Nat
  <2>1. last \in first..hi /\ IntentWindow(first, hi) = first..last
    BY LastNamedShape
  <2>2. Len(Plan) \in Nat
    BY LenProperties, ExecutorAssumption DEF ExecutorAssumption
  <2> HIDE DEF last
  <2> QED
    BY <2>1, <2>2 DEF Steps
<1> HIDE DEF last
<1>2. Cardinality(first..last) = last - first + 1 /\ Max(first..last) = last
  BY <1>1, FS_Interval, MaxOfInterval
<1>3. /\ journal' = Queue(records)
      /\ task' = [s \in Steps |-> IF s \in first..last
                    THEN [task[s] EXCEPT !.attempt = 1, !.named = TRUE]
                    ELSE task[s]]
      /\ main' = [main EXCEPT !.at = "window", !.hi = hi, !.mark = last,
                              !.ticket = Ticket(last - first + 1)]
  BY <1>1, <1>2 DEF NameWindow
<1>4. /\ records \in Seq(Lines) /\ Len(records) = last - first + 1
      /\ \A s \in first..last : records[s - first + 1] = Intent(s, PartialOf(s, 1))
  <2>1. ASSUME NEW i \in 1..(last - first + 1)
        PROVE  records[i] \in Lines
    <3>1. first + i - 1 \in Steps /\ PartialOf(first + i - 1, 1) \in Nat
      BY <1>1 DEF Steps, PartialOf
    <3> QED
      BY <3>1 DEF Lines
  <2>2. last - first + 1 \in Nat
    BY <1>1
  <2>3. DOMAIN records = 1..(last - first + 1)
    OBVIOUS
  <2>4. records \in Seq(Lines) /\ Len(records) = last - first + 1
    <3>1. records \in [1..(last - first + 1) -> Lines]
      BY <2>1
    <3> HIDE DEF records
    <3> QED
      BY <2>2, <3>1, IsASeq, LenProperties
  <2>5. \A s \in first..last : records[s - first + 1] = Intent(s, PartialOf(s, 1))
    <3>1. ASSUME NEW s \in first..last
          PROVE  s - first + 1 \in 1..(last - first + 1) /\ first + (s - first + 1) - 1 = s
      BY <1>1
    <3> QED
      BY <3>1
  <2> QED
    BY <2>4, <2>5
<1> HIDE DEF records
<1>5. /\ Logged' /\ Grown /\ journal'.synced = journal.synced
      /\ journal'.poisoned = journal.poisoned
      /\ Len(journal'.sent) = Len(journal.sent) + (last - first + 1)
      /\ \A i \in 1..Len(records) : journal'.sent[Len(journal.sent) + i] = records[i]
  BY <1>3, <1>4, QueueShape DEF Typed
<1>6. \A s \in first..last :
        journal'.sent[Len(journal.sent) + (s - first + 1)] = Intent(s, PartialOf(s, 1))
  <2> TAKE s \in first..last
  <2>1. s - first + 1 \in 1..Len(records)
    BY <1>1, <1>4
  <2> QED
    BY <1>4, <1>5, <2>1
<1>7. Ticket(last - first + 1) = Len(journal.sent) + (last - first + 1)
        /\ Ticket(last - first + 1) \in Nat
  BY <1>1, LenProperties DEF Ticket, Typed, Logged
<1>8. main' \in MainState
  BY <1>1, <1>3, <1>7 DEF MainState
<1>9. ASSUME NEW s \in Steps
      PROVE  /\ task'[s] \in TaskState
             /\ s \in first..last =>
                  task'[s].at = task[s].at /\ task'[s].attempt = 1 /\ task'[s].named
             /\ s \notin first..last => task'[s] = task[s]
  <2>1. task[s] \in TaskState
    BY DEF Typed
  <2>2. CASE s \in first..last
    <3> DEFINE after == [task[s] EXCEPT !.attempt = 1, !.named = TRUE]
    <3>1. task'[s] = after
      BY <1>3, <2>2
    <3>2. /\ after \in TaskState /\ after.at = task[s].at
          /\ after.attempt = 1 /\ after.named
      BY <2>1 DEF TaskState
    <3> HIDE DEF after
    <3> QED
      BY <2>2, <3>1, <3>2
  <2>3. CASE s \notin first..last
    BY <1>3, <2>1, <2>3
  <2> QED
    BY <2>2, <2>3
<1>10. task' \in [Steps -> TaskState]
  BY <1>3, <1>9
<1>11. first..last \subseteq Steps
  BY <1>1 DEF Steps
<1> QED
  <2>1. Names(first, last, hi)
    BY <1>3, <1>5, <1>6, <1>7, <1>8, <1>9, <1>10, <1>11 DEF Names
  <2> QED
    BY <2>1 DEF last

LEMMA StartOf ==
  ASSUME NEW next \in Nat, NEW q \in Nat, NEW r \in 0..(Window - 1)
  PROVE  Start(next, next + q * Window + r) = next + q * Window
<1>1. Window \in Nat \ {0}
  BY ExecutorAssumption DEF ExecutorAssumption
<1>2. q * Window \in Nat
  BY <1>1
<1>3. (next + q * Window + r) - next = q * Window + r
  BY <1>1, <1>2
<1>4. (q * Window + r) \div Window = q
  BY <1>1, QuotientOf
<1> QED
  BY <1>3, <1>4 DEF Start

LEMMA StartBounds ==
  ASSUME NEW next \in Nat, NEW mark \in Nat, next <= mark
  PROVE  /\ Start(next, mark) \in next..mark
         /\ \E q \in Nat : Start(next, mark) = next + q * Window
<1>1. Window \in Nat \ {0} /\ mark - next \in Nat
  BY ExecutorAssumption DEF ExecutorAssumption
<1> DEFINE q == (mark - next) \div Window
<1>2. q \in Nat /\ q * Window \in Nat /\ q * Window <= mark - next
  BY <1>1, QuotientBounds
<1> QED
  BY <1>1, <1>2 DEF Start

-----------------------------------------------------------------------------
(* Types and the loop's shape, step by step. *)
LEMMA TaskStepTyped ==
  ASSUME Typed, NEW s \in Steps, TaskStep(s)
  PROVE  Typed' /\ Grown
<1>1. task[s] \in TaskState /\ task'[s] \in TaskState
  BY DEF Typed, TaskStep, Alone
<1>2. Logged' /\ Grown
  <2>1. CASE UNCHANGED journal
    BY <2>1, GrownAlike DEF Typed
  <2>2. CASE Asks(s)
    <3>1. Intent(s, PartialOf(s, task'[s].attempt)) \in Lines
      BY <1>1 DEF Lines, TaskState, PartialOf
    <3> QED
      BY <2>2, <3>1, QueueOne DEF Asks, Typed
  <2>3. CASE Concludes(s)
    <3>1. PICK o \in Outcomes : journal' = Queue(<<Completion(s, o)>>)
      BY <2>3 DEF Concludes
    <3>2. Completion(s, o) \in Lines
      BY DEF Lines
    <3> QED
      BY <3>1, <3>2, QueueOne DEF Typed
  <2> QED
    BY <2>1, <2>2, <2>3
       DEF TaskStep, Enters, Admitted, Refuses, Closes, Leaves, Works
<1>3. partials' \subseteq [step : Steps, attempt : Nat]
  <2>1. Staged(s) \in [step : Steps, attempt : Nat]
    BY <1>1 DEF Staged, TaskState
  <2>2. partials' \subseteq partials \cup {Staged(s)}
    BY DEF TaskStep, Enters, Asks, Admitted, Refuses, Closes, Leaves, Works, Concludes
  <2> QED
    BY <2>1, <2>2 DEF Typed
<1>4. acted' \subseteq Steps
  <2>1. acted' \subseteq acted \cup {s}
    BY DEF TaskStep, Enters, Asks, Admitted, Refuses, Closes, Leaves, Works, Concludes
  <2> QED
    BY <2>1 DEF Typed
<1>5. outcomes' \in [Steps -> Outcomes \cup {"none"}]
  <2>1. outcomes' = outcomes \/ \E o \in Outcomes : outcomes' = [outcomes EXCEPT ![s] = o]
    BY DEF TaskStep, Enters, Asks, Admitted, Refuses, Closes, Leaves, Works, Concludes
  <2> QED
    BY <2>1 DEF Typed
<1>6. \A t \in Steps : Apt(t)'
  BY DEF TaskStep, Alone, Typed, Apt
<1> QED
  BY <1>2, <1>3, <1>4, <1>5, <1>6 DEF Typed, TaskStep, Alone

(* Only a batch's tasks and a serial group's current step can step. *)
LEMMA RunningWhere ==
  ASSUME Shape, NEW s \in Steps, task[s].at \notin Stopped
  PROVE  \/ main.at = "batch" /\ s \in main.next..main.mark
         \/ main.at = "serial" /\ s = main.next
<1>1. main \in MainState /\ s \in Nat /\ Len(Plan) \in Nat
  BY LenProperties, ExecutorAssumption DEF Shape, Steps, ExecutorAssumption
<1>2. main.at \in {"batch", "serial"}
  BY <1>1 DEF Shape, MainState
<1>3. s >= main.next /\ s <= main.hi
  BY <1>1, <1>2 DEF Shape, MainState, Group, Fresh, Stopped
<1>4. CASE main.at = "batch"
  BY <1>1, <1>3, <1>4 DEF Shape, BatchShape, MainState, Stopped
<1>5. CASE main.at = "serial"
  BY <1>1, <1>3, <1>5 DEF Shape, SerialShape, MainState, Stopped
<1> QED
  BY <1>2, <1>4, <1>5

LEMMA TaskStepShape ==
  ASSUME Typed, Shape, NEW s \in Steps, TaskStep(s)
  PROVE  Shape'
<1>1. /\ main' = main /\ task[s].at \notin Stopped
      /\ \A t \in Steps : t # s => task'[t] = task[t]
      /\ task'[s].at # "idle"
      /\ ~task[s].named => ~task'[s].named
  BY DEF TaskStep, Alone, Enters, Asks, Admitted, Refuses, Closes, Leaves, Works,
         Concludes, Same, Working
<1>2. /\ main \in MainState /\ Len(Plan) \in Nat /\ main.hi <= Len(Plan)
      /\ main.at \in {"batch", "serial"}
      /\ s >= main.next /\ s <= main.hi
  <2>1. main \in MainState /\ Len(Plan) \in Nat
    BY LenProperties, ExecutorAssumption DEF Shape, ExecutorAssumption
  <2>2. CASE main.at = "batch" /\ s \in main.next..main.mark
    BY <2>1, <2>2 DEF Shape, MainState, BatchShape
  <2>3. CASE main.at = "serial" /\ s = main.next
    BY <2>1, <2>3 DEF Shape, MainState, Group
  <2> QED
    BY <1>1, <2>2, <2>3, RunningWhere
<1>3. Group' /\ \A t \in Steps : t < main.next => task'[t].at = "done"
  BY <1>1, <1>2 DEF Shape, Group, Fresh, Steps, MainState
<1>4. CASE main.at = "batch"
  <2>1. s \in main.next..main.mark
    BY <1>1, <1>4, RunningWhere
  <2>2. BatchShape'
    <3>1. BatchShape /\ main.next \in Nat /\ main.mark \in Nat /\ main.hi \in Nat
      BY <1>2, <1>4 DEF Shape, MainState
    <3>2. CopyClass(main.next)' /\ main'.mark \in (main'.next - 1)..main'.hi
      BY <1>1, <3>1 DEF BatchShape, CopyClass
    <3>3. ASSUME NEW t \in main.next..main.mark
          PROVE  task'[t].at # "idle"
      <4>1. main.mark <= main.hi /\ main.next >= 1
        BY <1>2, <3>1 DEF BatchShape, MainState
      <4>2. t \in Steps
        BY <1>2, <3>1, <4>1 DEF Steps
      <4>3. task[t].at # "idle"
        BY <3>1 DEF BatchShape
      <4> QED
        BY <1>1, <4>2, <4>3
    <3>4. ASSUME NEW t \in (main.mark + 1)..main.hi
          PROVE  task'[t].at = "done"
      <4>1. main.mark + 1 >= main.next /\ main.next >= 1
        BY <1>2, <3>1 DEF BatchShape, MainState
      <4>2. t \in Steps /\ t # s
        BY <1>2, <2>1, <3>1, <4>1 DEF Steps
      <4>3. task[t].at = "done"
        BY <3>1 DEF BatchShape
      <4> QED
        BY <1>1, <4>2, <4>3
    <3> QED
      BY <1>1, <3>2, <3>3, <3>4 DEF BatchShape
  <2> QED
    BY <1>1, <1>2, <1>3, <1>4, <2>2 DEF Shape
<1>5. CASE main.at = "serial"
  <2>1. s = main.next
    BY <1>1, <1>5, RunningWhere
  <2>2. SerialShape'
    BY <1>1, <1>2, <1>5, <2>1 DEF Shape, SerialShape, Steps, MainState
  <2> QED
    BY <1>1, <1>2, <1>3, <1>5, <2>2 DEF Shape
<1> QED
  BY <1>2, <1>4, <1>5

LEMMA ShapeAlike ==
  ASSUME Shape, UNCHANGED <<main, task>>
  PROVE  Shape'
BY DEF Shape, Group, Fresh, WindowShape, WindowStart, BatchShape, SerialShape

LEMMA SizeOfPlan == Len(Plan) \in Nat /\ Window \in Nat \ {0} /\ Steps = 1..Len(Plan)
BY LenProperties, ExecutorAssumption DEF ExecutorAssumption, Steps

LEMMA MovesShape ==
  ASSUME Typed, Shape, StartDurable \/ StartRefused \/ FinishAnswered
  PROVE  Typed' /\ Shape' /\ Grown
<1>1. PICK at \in {"loop", "ended"} :
        main' = [main EXCEPT !.at = at] /\ (main.at = "starting" \/ at = "ended")
  BY DEF StartDurable, StartRefused, FinishAnswered, Moves
<1>2. /\ main.at \in {"starting", "finishing"}
      /\ UNCHANGED <<files, partials, acted, journal, control, sticky, task, outcomes>>
  BY DEF StartDurable, StartRefused, FinishAnswered, fs
<1>3. /\ main \in MainState /\ main' \in MainState /\ main'.at = at
      /\ main'.next = main.next
  BY <1>1 DEF Shape, MainState
<1>4. Shape'
  BY <1>1, <1>2, <1>3 DEF Shape, Fresh
<1>5. Typed' /\ Grown
  BY <1>2, GrownAlike DEF Typed, Apt
<1> QED
  BY <1>4, <1>5

(* A job that finishes has only stopped tasks. *)
LEMMA FinishShape ==
  ASSUME Typed, Shape, NEW cancelled \in BOOLEAN, Finish(cancelled),
         \A s \in Steps : task[s].at \in Stopped,
         UNCHANGED <<fs, control, sticky, task, outcomes>>
  PROVE  /\ Typed' /\ Shape' /\ Grown
         /\ OutcomeOf(cancelled) \in Verdicts
         /\ main'.at = "finishing" /\ main'.outcome = OutcomeOf(cancelled)
         /\ Len(journal'.sent) = Len(journal.sent) + 1
<1>1. OutcomeOf(cancelled) \in Verdicts
  BY DEF OutcomeOf, Verdicts
<1>2. JobFinished(OutcomeOf(cancelled)) \in Lines
  BY <1>1 DEF Lines
<1>3. Logged' /\ Grown /\ Len(journal'.sent) = Len(journal.sent) + 1
  BY <1>2, QueueOne DEF Finish, Typed
<1>4. Ticket(1) \in Nat
  BY LenProperties DEF Ticket, Typed, Logged
<1>5. /\ main' \in MainState /\ main'.at = "finishing"
      /\ main'.outcome = OutcomeOf(cancelled)
  BY <1>1, <1>4 DEF Finish, Shape, MainState
<1>6. Shape'
  BY <1>5 DEF Shape
<1> QED
  BY <1>1, <1>3, <1>5, <1>6 DEF Typed, Apt, fs

LEMMA StoppedAtEnd ==
  ASSUME Shape,
         \/ LoopDone \/ LoopCancelled \/ SerialCancelled
         \/ BatchEnds
  PROVE  \A s \in Steps : task[s].at \in Stopped
<1>1. CASE LoopDone \/ LoopCancelled
  BY <1>1 DEF LoopDone, LoopCancelled, Turn, Shape
<1>2. CASE SerialCancelled
  BY <1>2, SizeOfPlan
     DEF SerialCancelled, At, Shape, SerialShape, Group, Fresh, Stopped, MainState
<1>3. CASE BatchEnds
  BY <1>3, SizeOfPlan
     DEF BatchEnds, Joined, Shape, BatchShape, Group, Fresh, Stopped, MainState
<1> QED
  BY <1>1, <1>2, <1>3

LEMMA FinishingShape ==
  ASSUME Typed, Shape,
         \/ LoopDone \/ LoopCancelled \/ SerialCancelled
         \/ BatchEnds /\ main'.at = "finishing"
  PROVE  Typed' /\ Shape' /\ Grown
<1>1. \A s \in Steps : task[s].at \in Stopped
  BY StoppedAtEnd
<1>2. UNCHANGED <<fs, control, sticky, task, outcomes>>
  BY DEF LoopDone, LoopCancelled, SerialCancelled, BatchEnds
<1>3. main \in MainState
  BY DEF Shape
<1>4. \E cancelled \in BOOLEAN : Finish(cancelled)
  BY <1>3 DEF LoopDone, LoopCancelled, SerialCancelled, BatchEnds, MainState
<1> QED
  BY <1>1, <1>2, <1>4, FinishShape

LEMMA BatchNextShape ==
  ASSUME Typed, Shape, BatchEnds, main'.at # "finishing"
  PROVE  Typed' /\ Shape' /\ Grown
<1>1. main \in MainState
  BY DEF Shape
<1>2. ~ \E s \in main.next..main.mark : At(s, "cancelled")
  BY <1>1 DEF BatchEnds, Finish, MainState
<1>3. /\ main' = [main EXCEPT !.at = "loop", !.next = main.hi + 1]
      /\ UNCHANGED <<files, partials, acted, journal, control, sticky, task, outcomes>>
  BY <1>2 DEF BatchEnds, fs
<1>4. main.at = "batch" /\ \A s \in main.next..main.mark : task[s].at = "done"
  BY <1>2 DEF BatchEnds, Joined, At
<1>5. \A s \in Steps : s < main.hi + 1 => task[s].at = "done"
  BY <1>1, <1>4, SizeOfPlan DEF Shape, BatchShape, MainState
<1>6. \A s \in Steps : s >= main.hi + 1 => Fresh(s)
  BY <1>1, <1>4, SizeOfPlan DEF Shape, Group, MainState
<1>7. main' \in MainState /\ main'.at = "loop" /\ main'.next = main.hi + 1
  <2>1. main.hi + 1 \in 1..(Len(Plan) + 1)
    BY <1>1, SizeOfPlan DEF MainState
  <2> QED
    BY <1>1, <1>3, <2>1 DEF MainState
<1>8. Shape'
  BY <1>1, <1>3, <1>5, <1>6, <1>7, SizeOfPlan DEF Shape, Fresh, Stopped, MainState
<1> QED
  BY <1>3, <1>8, GrownAlike DEF Typed, Apt

LEMMA WindowSteps ==
  ASSUME Typed, Shape, OpenWindow \/ NextWindow
  PROVE  \E first \in Steps, hi \in main.next..Len(Plan) :
           /\ hi \in first..Len(Plan) /\ main.next \in Steps /\ first >= main.next
           /\ NameWindow(first, hi)
           /\ RedoSafe(main.next)
           /\ \A s \in main.next..hi : RedoSafe(s) /\ (CopyClass(s) <=> CopyClass(main.next))
           /\ \A s \in Steps : s > hi => Fresh(s)
           /\ \A s \in main.next..hi : task[s].at = "idle"
           /\ \A s \in Steps : s < main.next => task[s].at = "done"
           /\ \A s \in main.next..(first - 1) : task[s].named
           /\ \E q \in Nat : first = main.next + q * Window
           /\ \A s \in Steps : task[s].at \in Stopped
           /\ \/ OpenWindow /\ first = main.next
              \/ /\ NextWindow /\ first = main.mark + 1 /\ hi = main.hi
                 /\ first = WindowStart + Window
<1>1. main \in MainState
  BY DEF Shape
<1>2. CASE OpenWindow
  <2>1. main.next \in Steps /\ RedoSafe(main.next) /\ main.at = "loop"
    BY <1>1, <1>2, SizeOfPlan DEF OpenWindow, Turn, MainState
  <2>2. /\ RunEnd \in main.next..Len(Plan)
        /\ \A s \in main.next..RunEnd : RedoSafe(s) /\ (CopyClass(s) <=> CopyClass(main.next))
    BY <1>1, <2>1, RunEndShape
  <2>3. NameWindow(main.next, RunEnd)
    BY <1>2 DEF OpenWindow
  <2>4. \A s \in Steps : s >= main.next => Fresh(s)
    BY <2>1 DEF Shape
  <2>5. /\ \A s \in Steps : s > RunEnd => Fresh(s)
        /\ \A s \in main.next..RunEnd : task[s].at = "idle"
        /\ main.next >= main.next /\ RunEnd \in main.next..Len(Plan)
        /\ \A s \in main.next..(main.next - 1) : task[s].named
    <3> DEFINE next == main.next
               end == RunEnd
    <3>1. next \in Nat /\ end \in Nat /\ next <= end /\ end <= Len(Plan)
          /\ Len(Plan) \in Nat /\ Steps = 1..Len(Plan) /\ next >= 1
      BY <2>1, <2>2, SizeOfPlan
    <3>2. \A s \in Steps : s >= next => Fresh(s)
      BY <2>4
    <3> HIDE DEF next, end
    <3>3. \A s \in Steps : s > end => Fresh(s)
      BY <3>1, <3>2
    <3>4. \A s \in next..end : task[s].at = "idle"
      BY <3>1, <3>2 DEF Fresh
    <3>5. next >= next /\ end \in next..Len(Plan)
      BY <3>1
    <3>6. \A s \in next..(next - 1) : task[s].named
      BY <3>1
    <3> QED
      BY <3>3, <3>4, <3>5, <3>6 DEF next, end
  <2>6. main.next = main.next + 0 * Window
    BY <1>1, SizeOfPlan DEF MainState
  <2>7. /\ \A s \in Steps : s < main.next => task[s].at = "done"
        /\ \A s \in Steps : task[s].at \in Stopped
    BY <2>1 DEF Shape
  <2> QED
    BY <1>2, <2>1, <2>2, <2>3, <2>5, <2>6, <2>7
<1>3. CASE NextWindow
  <2> DEFINE first == main.mark + 1
  <2>1. main.at = "window" /\ main.mark < main.hi /\ NameWindow(first, main.hi)
    BY <1>3 DEF NextWindow
  <2>2. WindowShape /\ Group
    BY <2>1 DEF Shape
  <2>3. /\ main.mark \in main.next..main.hi /\ main.hi \in main.next..Len(Plan)
        /\ main.next \in Steps
        /\ first \in Steps /\ main.hi \in first..Len(Plan) /\ first >= main.next
    BY <1>1, <2>1, <2>2, SizeOfPlan DEF MainState, WindowShape, Group
  <2>4. PICK q \in Nat : WindowStart = main.next + q * Window
    <3>1. main.next \in Nat /\ main.mark \in Nat /\ main.next <= main.mark
      BY <2>3, SizeOfPlan
    <3> QED
      BY <3>1, StartBounds DEF WindowStart
  <2>5. first = WindowStart + Window /\ first = main.next + (q + 1) * Window
    <3>1. main.mark = WindowStart + Window - 1
      BY <2>1, <2>2 DEF WindowShape
    <3>2. q * Window \in Nat /\ (q + 1) * Window = q * Window + Window
      BY SizeOfPlan
    <3> QED
      BY <2>3, <2>4, <3>1, <3>2, SizeOfPlan
  <2>6. /\ RedoSafe(main.next)
        /\ \A s \in main.next..main.hi : RedoSafe(s) /\ (CopyClass(s) <=> CopyClass(main.next))
        /\ \A s \in Steps : s > main.hi => Fresh(s)
        /\ \A s \in main.next..main.hi : task[s].at = "idle"
        /\ \A s \in main.next..(first - 1) : task[s].named
    BY <2>2, <2>3 DEF WindowShape, Group
  <2>7. /\ \A s \in Steps : s < main.next => task[s].at = "done"
        /\ \A s \in Steps : task[s].at \in Stopped
    BY <2>1 DEF Shape
  <2> HIDE DEF first
  <2>8. q + 1 \in Nat /\ first = main.mark + 1
    BY DEF first
  <2> QED
    BY <1>3, <2>1, <2>3, <2>5, <2>6, <2>7, <2>8
<1> QED
  BY <1>2, <1>3

LEMMA WindowsShape ==
  ASSUME Typed, Shape, OpenWindow \/ NextWindow
  PROVE  Typed' /\ Shape' /\ Grown
<1>1. PICK first \in Steps, hi \in main.next..Len(Plan) :
           /\ hi \in first..Len(Plan) /\ main.next \in Steps /\ first >= main.next
           /\ NameWindow(first, hi)
           /\ RedoSafe(main.next)
           /\ \A s \in main.next..hi : RedoSafe(s) /\ (CopyClass(s) <=> CopyClass(main.next))
           /\ \A s \in Steps : s > hi => Fresh(s)
           /\ \A s \in main.next..hi : task[s].at = "idle"
           /\ \A s \in Steps : s < main.next => task[s].at = "done"
           /\ \A s \in main.next..(first - 1) : task[s].named
           /\ \E q \in Nat : first = main.next + q * Window
           /\ \A s \in Steps : task[s].at \in Stopped
  BY WindowSteps
<1> DEFINE last == LastNamed(first, hi)
<1>2. main \in MainState
  BY DEF Shape
<1>3. /\ last \in first..hi /\ last < first + Window
      /\ last < hi => last = first + Window - 1
  BY <1>1, LastNamedShape
<1>4. /\ main' = [main EXCEPT !.at = "window", !.hi = hi, !.mark = last,
                              !.ticket = Len(journal.sent) + (last - first + 1)]
      /\ main' \in MainState
      /\ Logged' /\ Grown
      /\ task' \in [Steps -> TaskState]
      /\ \A s \in first..last : task'[s].at = task[s].at /\ task'[s].named
      /\ \A s \in Steps : s \notin first..last => task'[s] = task[s]
  <2>1. hi \in first..Len(Plan) /\ NameWindow(first, hi)
    BY <1>1
  <2>2. Names(first, last, hi)
    BY <1>2, <2>1, NameShape
  <2> HIDE DEF last
  <2> QED
    BY <2>2 DEF Names
<1> HIDE DEF last
<1>5. main'.at = "window" /\ main'.next = main.next /\ main'.hi = hi /\ main'.mark = last
  BY <1>2, <1>4 DEF MainState
<1>6. WindowStart' = first
  <2>1. PICK q \in Nat : first = main.next + q * Window
    BY <1>1
  <2>2. last = main.next + q * Window + (last - first) /\ last - first \in 0..(Window - 1)
    <3>1. q * Window \in Nat
      BY SizeOfPlan
    <3>2. main.next \in Nat /\ first \in Nat /\ last \in Nat
      BY <1>1, <1>3, SizeOfPlan
    <3> DEFINE passed == q * Window
    <3>3. passed \in Nat /\ first = main.next + passed
      BY <2>1, <3>1
    <3>4. last >= first /\ last < first + Window
      BY <1>3, <3>2
    <3> HIDE DEF passed
    <3>5. last = main.next + passed + (last - first)
      BY <3>2, <3>3
    <3>6. last - first \in 0..(Window - 1)
      BY <3>2, <3>4, SizeOfPlan
    <3> QED
      BY <3>5, <3>6 DEF passed
  <2>3. Start(main.next, last) = main.next + q * Window
    <3>1. main.next \in Nat
      BY <1>1, SizeOfPlan
    <3> QED
      BY <2>2, <3>1, StartOf
  <2> QED
    BY <1>5, <2>1, <2>3 DEF WindowStart
<1>7. \A s \in Steps : task'[s].at = task[s].at
  BY <1>4
<1>8. Group'
  BY <1>1, <1>3, <1>4, <1>5, SizeOfPlan DEF Group, Fresh
<1>9. WindowShape'
  <2>1. \A s \in main.next..hi : s \in Steps
    BY <1>1, SizeOfPlan
  <2>2. \A s \in main.next..hi : task'[s].at = "idle"
    BY <1>1, <1>7, <2>1
  <2>3. \A s \in main.next..last : task'[s].named
    <3>1. /\ \A s \in first..last : task'[s].named
          /\ \A s \in Steps : s \notin first..last => task'[s] = task[s]
          /\ \A s \in main.next..(first - 1) : task[s].named
      BY <1>1, <1>4
    <3>2. /\ main.next \in 1..Len(Plan) /\ first \in 1..Len(Plan) /\ first >= main.next
          /\ hi \in first..Len(Plan) /\ last \in first..hi
          /\ Len(Plan) \in Nat /\ Steps = 1..Len(Plan)
      BY <1>1, <1>3, SizeOfPlan
    <3> SUFFICES ASSUME NEW s \in main.next..last
                 PROVE  task'[s].named
      OBVIOUS
    <3>3. CASE s >= first
      <4>1. s \in first..last
        BY <3>2, <3>3
      <4> QED
        BY <3>1, <4>1
    <3>4. CASE s < first
      <4>1. s \in main.next..(first - 1) /\ s \in Steps /\ s \notin first..last
        BY <3>2, <3>4
      <4> QED
        BY <3>1, <4>1
    <3> QED
      BY <3>2, <3>3, <3>4
  <2>4. last \in main.next..hi
    BY <1>1, <1>3, SizeOfPlan
  <2>5. last < hi => last = WindowStart' + Window - 1
    BY <1>3, <1>6
  <2>6. RedoSafe(main.next)
    BY <1>1
  <2> QED
    BY <1>5, <2>2, <2>3, <2>4, <2>5, <2>6 DEF WindowShape
<1>10. Shape'
  BY <1>1, <1>4, <1>5, <1>7, <1>8, <1>9 DEF Shape
<1>11. UNCHANGED <<files, partials, acted, control, sticky, outcomes>>
  BY DEF OpenWindow, NextWindow, fs
<1>12. Typed'
  BY <1>4, <1>7, <1>11 DEF Typed, Apt
<1> QED
  BY <1>4, <1>10, <1>12

(* What leaving a window does to the tasks: the journaled ones may start,  *)
(* one by one or together, and the rest of the group has failed.           *)
Released(journaled) ==
  /\ \/ /\ main' = [main EXCEPT !.at = "batch", !.mark = journaled]
        /\ CopyClass(main.next)
        /\ \A s \in main.next..journaled : task'[s].at = "ready"
        /\ \A s \in (journaled + 1)..main.hi :
             task'[s].at = "done" /\ task'[s].result = "Failed"
     \/ /\ main' = [main EXCEPT !.at = "serial"]
        /\ ~CopyClass(main.next) /\ journaled = main.hi
        /\ task'[main.next].at = "gate"
        /\ \A s \in (main.next + 1)..main.hi : task'[s] = task[s]
     \/ /\ main' = [main EXCEPT !.at = "loop", !.next = main.hi + 1]
        /\ ~CopyClass(main.next) /\ journaled # main.hi
        /\ \A s \in main.next..main.hi :
             task'[s].at = "done" /\ task'[s].result = "Failed"
  /\ task' \in [Steps -> TaskState]
  /\ \A s \in Steps : Same(s)
  /\ \A s \in Steps : s \notin main.next..main.hi => task'[s] = task[s]

LEMMA ReleasedShape ==
  ASSUME Typed, Shape, main.at = "window",
         NEW journaled \in (main.next - 1)..main.hi,
         RunSteps(main.hi, journaled)
  PROVE  Released(journaled)
<1>1. /\ main \in MainState /\ main.next \in Steps /\ main.hi \in main.next..Len(Plan)
  BY SizeOfPlan DEF Shape, Group, MainState
<1>2. \A s \in main.next..main.hi : s \in Steps
  BY <1>1, SizeOfPlan
<1>3. \A s \in Steps : task[s] \in TaskState
  BY DEF Typed
<1>4. {"ready", "done", "gate"} \subseteq TaskPlaces /\ "Failed" \in Outcomes
  BY DEF TaskPlaces, Stopped, Outcomes
<1>8. ASSUME NEW s \in Steps
      PROVE  /\ s \in (journaled + 1)..main.hi =>
                  s \notin main.next..journaled /\ s \in main.next..main.hi
             /\ s \in main.next..journaled => s \in main.next..main.hi
             /\ \/ s \in main.next..journaled \/ s \in (journaled + 1)..main.hi
                \/ s \notin main.next..main.hi
  <2>1. main.next \in Nat /\ main.hi \in Nat /\ journaled \in Int /\ s \in Nat
        /\ main.next - 1 <= journaled /\ journaled <= main.hi
    BY <1>1, SizeOfPlan
  <2> QED
    BY <2>1
<1>5. CASE CopyClass(main.next)
  <2>1. /\ main' = [main EXCEPT !.at = "batch", !.mark = journaled]
        /\ task' = [s \in Steps |->
                     IF s \in main.next..journaled THEN [task[s] EXCEPT !.at = "ready"]
                     ELSE IF s \in (journaled + 1)..main.hi
                          THEN [task[s] EXCEPT !.at = "done", !.result = "Failed"]
                     ELSE task[s]]
    BY <1>5 DEF RunSteps
  <2>2. ASSUME NEW s \in Steps
        PROVE  /\ task'[s] \in TaskState /\ Same(s)
               /\ s \in main.next..journaled => task'[s].at = "ready"
               /\ s \in (journaled + 1)..main.hi =>
                    task'[s].at = "done" /\ task'[s].result = "Failed"
               /\ s \notin main.next..main.hi => task'[s] = task[s]
    <3>1. CASE s \in main.next..journaled
      <4>1. task'[s] = [task[s] EXCEPT !.at = "ready"]
        BY <2>1, <3>1
      <4>2. task'[s] \in TaskState /\ Same(s) /\ task'[s].at = "ready"
        BY <1>3, <1>4, <4>1 DEF TaskState, Same
      <4> QED
        BY <1>8, <3>1, <4>2
    <3>2. CASE s \in (journaled + 1)..main.hi
      <4>1. task'[s] = [task[s] EXCEPT !.at = "done", !.result = "Failed"]
        BY <1>8, <2>1, <3>2
      <4>2. task'[s] \in TaskState /\ Same(s) /\ task'[s].at = "done"
            /\ task'[s].result = "Failed"
        BY <1>3, <1>4, <4>1 DEF TaskState, Same
      <4> QED
        BY <1>8, <3>2, <4>2
    <3>3. CASE s \notin main.next..main.hi
      <4>1. task'[s] = task[s]
        BY <1>8, <2>1, <3>3
      <4> QED
        BY <1>3, <1>8, <3>3, <4>1 DEF Same
    <3> QED
      BY <1>8, <3>1, <3>2, <3>3
  <2>3. task' \in [Steps -> TaskState]
    BY <2>1, <2>2
  <2>4. /\ \A s \in main.next..journaled : s \in Steps
        /\ \A s \in (journaled + 1)..main.hi : s \in Steps
    BY <1>1, SizeOfPlan
  <2> QED
    BY <1>5, <2>1, <2>2, <2>3, <2>4 DEF Released
<1>6. CASE ~CopyClass(main.next) /\ journaled = main.hi
  <2>1. main' = [main EXCEPT !.at = "serial"] /\ Goes(main.next, "gate")
    BY <1>6 DEF RunSteps, Moves
  <2>2. /\ task' \in [Steps -> TaskState]
        /\ \A t \in Steps : t # main.next => task'[t] = task[t]
        /\ task'[main.next].at = "gate" /\ Same(main.next)
    BY <1>1, <1>4, <2>1, GoesShape
  <2>3. \A s \in Steps : Same(s)
    BY <2>2 DEF Same
  <2>4. \A s \in (main.next + 1)..main.hi : s \in Steps /\ s # main.next
    BY <1>1, SizeOfPlan
  <2>5. \A s \in Steps : s \notin main.next..main.hi => s # main.next
    BY <1>1, SizeOfPlan
  <2> QED
    BY <1>6, <2>1, <2>2, <2>3, <2>4, <2>5 DEF Released
<1>7. CASE ~CopyClass(main.next) /\ journaled # main.hi
  <2>1. /\ main' = [main EXCEPT !.at = "loop", !.next = main.hi + 1]
        /\ task' = [s \in Steps |->
                      IF s \in main.next..main.hi
                      THEN [task[s] EXCEPT !.at = "done", !.result = "Failed"]
                      ELSE task[s]]
    BY <1>7 DEF RunSteps
  <2>2. ASSUME NEW s \in Steps
        PROVE  /\ task'[s] \in TaskState /\ Same(s)
               /\ s \in main.next..main.hi =>
                    task'[s].at = "done" /\ task'[s].result = "Failed"
               /\ s \notin main.next..main.hi => task'[s] = task[s]
    <3>1. CASE s \in main.next..main.hi
      <4>1. task'[s] = [task[s] EXCEPT !.at = "done", !.result = "Failed"]
        BY <2>1, <3>1
      <4> QED
        BY <1>3, <1>4, <3>1, <4>1 DEF TaskState, Same
    <3>2. CASE s \notin main.next..main.hi
      BY <1>3, <2>1, <3>2 DEF Same
    <3> QED
      BY <3>1, <3>2
  <2>3. task' \in [Steps -> TaskState]
    BY <2>1, <2>2
  <2> QED
    BY <1>2, <1>7, <2>1, <2>2, <2>3 DEF Released
<1> QED
  BY <1>5, <1>6, <1>7

LEMMA ReleaseSteps ==
  ASSUME Typed, Shape, WindowDurable \/ WindowRefused
  PROVE  \E journaled \in (main.next - 1)..main.hi :
           /\ Released(journaled)
           /\ \/ WindowDurable /\ main.mark = main.hi /\ journaled = main.hi
              \/ /\ WindowRefused /\ journaled = WindowStart - 1
                 /\ journaled < main.mark /\ journaled # main.hi
<1>1. /\ main \in MainState /\ main.next \in Steps /\ main.hi \in main.next..Len(Plan)
      /\ main.at = "window" /\ main.mark \in main.next..main.hi
  BY SizeOfPlan DEF Shape, Group, WindowShape, MainState, WindowDurable, WindowRefused
<1>2. CASE WindowDurable
  <2>1. /\ main.mark = main.hi /\ RunSteps(main.hi, main.hi)
        /\ main.hi \in (main.next - 1)..main.hi
    BY <1>1, <1>2, SizeOfPlan DEF WindowDurable
  <2> QED
    BY <1>1, <1>2, <2>1, ReleasedShape
<1>3. CASE WindowRefused
  <2> DEFINE journaled == WindowStart - 1
  <2>1. RunSteps(main.hi, journaled)
    BY <1>3 DEF WindowRefused, WindowStart, Start
  <2>2. WindowStart \in main.next..main.mark
    <3>1. main.next \in Nat /\ main.mark \in Nat /\ main.next <= main.mark
      BY <1>1, SizeOfPlan
    <3> QED
      BY <3>1, StartBounds DEF WindowStart
  <2>3. journaled \in (main.next - 1)..main.hi /\ journaled < main.mark /\ journaled # main.hi
    BY <1>1, <2>2, SizeOfPlan
  <2> HIDE DEF journaled
  <2>4. Released(journaled)
    BY <1>1, <2>1, <2>3, ReleasedShape
  <2> QED
    BY <1>3, <2>3, <2>4 DEF journaled
<1> QED
  BY <1>2, <1>3

LEMMA ReleasesShape ==
  ASSUME Typed, Shape, WindowDurable \/ WindowRefused
  PROVE  Typed' /\ Shape' /\ Grown
<1>1. PICK journaled \in (main.next - 1)..main.hi :
           Released(journaled) /\ (journaled = main.hi => main.mark = main.hi)
  BY ReleaseSteps
<1>2. UNCHANGED <<files, partials, acted, journal, control, sticky, outcomes>>
  BY DEF WindowDurable, WindowRefused, fs
<1>3. /\ main \in MainState /\ main.at = "window" /\ Group /\ WindowShape
      /\ \A s \in Steps : task[s].at \in Stopped
      /\ \A s \in Steps : s < main.next => task[s].at = "done"
  BY DEF Shape, WindowDurable, WindowRefused
<1>4. /\ main.next \in Steps /\ main.hi \in main.next..Len(Plan)
      /\ main.mark \in main.next..main.hi
  BY <1>3, SizeOfPlan DEF Group, WindowShape, MainState
<1>5. /\ task' \in [Steps -> TaskState]
      /\ \A s \in Steps : Same(s)
      /\ \A s \in Steps : s \notin main.next..main.hi => task'[s] = task[s]
  BY <1>1 DEF Released
<1>6. ASSUME NEW s \in Steps
      PROVE  task'[s].at \in Stopped \cup {"ready", "gate"}
  <2>1. s \in Nat /\ main.next \in Nat /\ main.hi \in Nat
        /\ journaled \in Int /\ journaled <= main.hi
    BY <1>1, <1>4, SizeOfPlan
  <2>2. CASE s \notin main.next..main.hi
    BY <1>3, <1>5, <2>2
  <2>3. CASE s \in main.next..main.hi
    <3>1. task[s].at = "idle"
      BY <1>3, <2>3 DEF WindowShape
    <3>2. \/ s \in main.next..journaled \/ s \in (journaled + 1)..main.hi
      BY <2>1, <2>3
    <3>3. s = main.next \/ s \in (main.next + 1)..main.hi
      BY <2>1, <2>3
    <3> QED
      BY <1>1, <2>3, <3>1, <3>2, <3>3 DEF Released, Stopped
  <2> QED
    BY <2>2, <2>3
<1>7. Typed' /\ Grown
  BY <1>2, <1>5, <1>6, GrownAlike DEF Typed, Apt, Stopped
<1>8. \A s \in Steps : s > main.hi => Fresh(s)'
  BY <1>3, <1>4, <1>5, SizeOfPlan DEF Group, Fresh
<1>9. \A s \in Steps : s < main.next => task'[s].at = "done"
  BY <1>3, <1>4, <1>5, SizeOfPlan
<1>10. CASE CopyClass(main.next) /\ main' = [main EXCEPT !.at = "batch", !.mark = journaled]
  <2>1. journaled \in 0..Len(Plan)
    BY <1>4, SizeOfPlan
  <2>2. /\ main' \in MainState /\ main'.at = "batch" /\ main'.next = main.next
        /\ main'.hi = main.hi /\ main'.mark = journaled
    BY <1>3, <1>10, <2>1 DEF MainState
  <2>3. /\ \A s \in main.next..journaled : task'[s].at = "ready"
        /\ \A s \in (journaled + 1)..main.hi : task'[s].at = "done"
    BY <1>1, <1>3, <1>10 DEF Released, MainState
  <2>4. BatchShape' /\ Group'
    BY <1>3, <1>8, <1>10, <2>2, <2>3 DEF BatchShape, Group
  <2> QED
    BY <1>7, <1>9, <2>2, <2>4 DEF Shape
<1>11. CASE ~CopyClass(main.next) /\ main' = [main EXCEPT !.at = "serial"]
  <2>1. /\ main' \in MainState /\ main'.at = "serial" /\ main'.next = main.next
        /\ main'.hi = main.hi
    BY <1>3, <1>11 DEF MainState
  <2>2. /\ journaled = main.hi /\ task'[main.next].at = "gate"
        /\ \A s \in (main.next + 1)..main.hi : task'[s] = task[s]
    BY <1>1, <1>3, <1>11 DEF Released, MainState
  <2>3. \A s \in (main.next + 1)..main.hi : task[s].at = "idle" /\ task[s].named
    BY <1>1, <1>3, <1>4, <2>2, SizeOfPlan DEF WindowShape
  <2>4. SerialShape' /\ Group'
    BY <1>3, <1>8, <1>11, <2>1, <2>2, <2>3 DEF SerialShape, Group, WindowShape
  <2> QED
    BY <1>7, <1>9, <2>1, <2>4 DEF Shape
<1>12. CASE ~CopyClass(main.next) /\ main' = [main EXCEPT !.at = "loop", !.next = main.hi + 1]
  <2>1. main.hi + 1 \in 1..(Len(Plan) + 1)
    BY <1>4, SizeOfPlan
  <2>2. main' \in MainState /\ main'.at = "loop" /\ main'.next = main.hi + 1
    BY <1>3, <1>12, <2>1 DEF MainState
  <2>3. \A s \in main.next..main.hi : task'[s].at = "done"
    BY <1>1, <1>3, <1>12 DEF Released, MainState
  <2>4. \A s \in Steps : s < main.hi + 1 => task'[s].at = "done"
    BY <1>4, <1>9, <2>3, SizeOfPlan
  <2>5. \A s \in Steps : s >= main.hi + 1 => Fresh(s)'
    BY <1>4, <1>8, SizeOfPlan
  <2>6. \A s \in Steps : task'[s].at \in Stopped
    BY <1>4, <2>4, <2>5, SizeOfPlan DEF Fresh, Stopped
  <2> QED
    BY <1>7, <2>2, <2>4, <2>5, <2>6 DEF Shape
<1> QED
  BY <1>1, <1>7, <1>10, <1>11, <1>12 DEF Released

LEMMA StrictShape ==
  ASSUME Typed, Shape, StrictStep
  PROVE  /\ Typed' /\ Shape' /\ Grown
         /\ main.next \in Steps /\ task' = [task EXCEPT ![main.next].at = "gate"]
         /\ Fresh(main.next)
         /\ main'.at = "serial" /\ main'.next = main.next /\ main'.hi = main.next
         /\ \A s \in Steps : Same(s)
<1>1. /\ main \in MainState /\ main.at = "loop" /\ main.next \in Steps
      /\ ~RedoSafe(main.next) /\ Goes(main.next, "gate")
      /\ main' = [main EXCEPT !.at = "serial", !.hi = main.next]
      /\ UNCHANGED <<files, partials, acted, journal, control, sticky, outcomes>>
  BY SizeOfPlan DEF StrictStep, Turn, Shape, MainState, fs
<1>2. /\ task' \in [Steps -> TaskState]
      /\ \A t \in Steps : t # main.next => task'[t] = task[t]
      /\ task'[main.next].at = "gate" /\ Same(main.next)
  BY <1>1, GoesShape DEF TaskPlaces
<1>3. /\ main' \in MainState /\ main'.at = "serial" /\ main'.next = main.next
      /\ main'.hi = main.next
  <2>1. main.next \in 0..Len(Plan)
    BY <1>1, SizeOfPlan
  <2> QED
    BY <1>1, <2>1 DEF MainState
<1>4. /\ \A s \in Steps : s >= main.next => Fresh(s)
      /\ \A s \in Steps : s < main.next => task[s].at = "done"
  BY <1>1 DEF Shape
<1>5. Fresh(main.next) /\ \A s \in Steps : s > main.next => Fresh(s)'
  BY <1>1, <1>2, <1>4, SizeOfPlan DEF Fresh
<1>6. \A s \in Steps : s < main.next => task'[s].at = "done"
  BY <1>1, <1>2, <1>4, SizeOfPlan
<1>7. Group' /\ SerialShape'
  <2>1. main.next \in Nat /\ ~CopyClass(main.next)
    BY <1>1, SizeOfPlan DEF CopyClass, RedoSafe
  <2>2. ~task'[main.next].named
    BY <1>2, <1>5 DEF Fresh, Same
  <2> QED
    BY <1>1, <1>2, <1>3, <1>5, <2>1, <2>2 DEF Group, SerialShape
<1>8. Shape'
  BY <1>3, <1>6, <1>7 DEF Shape
<1>9. Typed' /\ Grown
  BY <1>1, <1>2, GrownAlike DEF Typed, Apt
<1>10. \A s \in Steps : Same(s)
  BY <1>2 DEF Same
<1>11. task' = [task EXCEPT ![main.next].at = "gate"]
  BY <1>1 DEF Goes
<1> QED
  BY <1>1, <1>3, <1>5, <1>8, <1>9, <1>10, <1>11

LEMMA SerialNextShape ==
  ASSUME Typed, Shape, SerialNext
  PROVE  /\ Typed' /\ Shape' /\ Grown
         /\ \A s \in Steps : Same(s)
         /\ \/ /\ main' = [main EXCEPT !.next = main.next + 1]
               /\ main.next < main.hi /\ main.next + 1 \in Steps
               /\ task' = [task EXCEPT ![main.next + 1].at = "gate"]
            \/ /\ main' = [main EXCEPT !.at = "loop", !.next = main.next + 1]
               /\ UNCHANGED task
<1>1. /\ main \in MainState /\ main.at = "serial" /\ Group /\ SerialShape
      /\ main.next \in Steps /\ main.hi \in main.next..Len(Plan)
      /\ task[main.next].at = "done"
      /\ \A s \in Steps : s < main.next => task[s].at = "done"
      /\ UNCHANGED <<files, partials, acted, journal, control, sticky, outcomes>>
  <2>1. main \in MainState /\ main.at = "serial" /\ Group /\ SerialShape
    BY DEF SerialNext, Shape
  <2>2. main.next \in Steps /\ main.hi \in main.next..Len(Plan)
    BY <2>1, SizeOfPlan DEF MainState, Group
  <2> QED
    BY <2>1, <2>2 DEF SerialNext, Shape, At, fs
<1>2. CASE main.next < main.hi
  <2>1. /\ main' = [main EXCEPT !.next = main.next + 1]
        /\ Goes(main.next + 1, "gate") /\ main.next + 1 \in Steps
        /\ main.next + 1 \in (main.next + 1)..main.hi
    BY <1>1, <1>2, SizeOfPlan DEF SerialNext
  <2>2. /\ task' \in [Steps -> TaskState]
        /\ \A t \in Steps : t # main.next + 1 => task'[t] = task[t]
        /\ task'[main.next + 1].at = "gate" /\ Same(main.next + 1)
    BY <2>1, GoesShape DEF TaskPlaces
  <2>3. /\ main' \in MainState /\ main'.at = "serial" /\ main'.next = main.next + 1
        /\ main'.hi = main.hi
    <3>1. main.next + 1 \in 1..(Len(Plan) + 1)
      BY <1>1, SizeOfPlan
    <3> QED
      BY <1>1, <2>1, <3>1 DEF MainState
  <2>4. RedoSafe(main.next) /\ RedoSafe(main.next + 1) /\ ~CopyClass(main.next + 1)
    <3>1. main.next + 1 \in main.next..main.hi /\ main.hi # main.next
      BY <1>1, <1>2, SizeOfPlan
    <3>2. RedoSafe(main.next) /\ ~CopyClass(main.next)
      BY <1>1, <3>1 DEF Group, SerialShape
    <3> QED
      BY <1>1, <3>1, <3>2 DEF Group
  <2>5. \A s \in Steps : s > main.hi => Fresh(s)'
    BY <1>1, <2>1, <2>2, SizeOfPlan DEF Group, Fresh
  <2>6. \A s \in Steps : s < main.next + 1 => task'[s].at = "done"
    BY <1>1, <2>2, SizeOfPlan
  <2>7. Group'
    <3>1. \A s \in (main.next + 1)..main.hi :
            RedoSafe(s) /\ (CopyClass(s) <=> CopyClass(main.next + 1))
      BY <1>1, <2>4, SizeOfPlan DEF Group
    <3>2. main.next + 1 <= main.hi
      BY <1>1, <1>2, SizeOfPlan
    <3> QED
      BY <2>3, <2>4, <2>5, <3>1, <3>2 DEF Group
  <2>8. SerialShape'
    <3>1. \A s \in (main.next + 1 + 1)..main.hi :
            s \in (main.next + 1)..main.hi /\ s \in Steps /\ s # main.next + 1
      BY <1>1, SizeOfPlan
    <3>2. \A s \in (main.next + 1 + 1)..main.hi : task'[s].at = "idle" /\ task'[s].named
      BY <1>1, <2>2, <3>1 DEF SerialShape
    <3> QED
      BY <2>2, <2>3, <2>4, <3>2 DEF SerialShape
  <2>9. Shape'
    BY <2>3, <2>6, <2>7, <2>8 DEF Shape
  <2>10. Typed' /\ Grown
    BY <1>1, <2>2, GrownAlike DEF Typed, Apt
  <2>11. \A s \in Steps : Same(s)
    BY <2>2 DEF Same
  <2>12. task' = [task EXCEPT ![main.next + 1].at = "gate"]
    BY <2>1 DEF Goes
  <2> QED
    BY <1>2, <2>1, <2>9, <2>10, <2>11, <2>12
<1>3. CASE ~(main.next < main.hi)
  <2>1. main' = [main EXCEPT !.at = "loop", !.next = main.next + 1] /\ UNCHANGED task
    BY <1>1, <1>3 DEF SerialNext
  <2>2. main' \in MainState /\ main'.at = "loop" /\ main'.next = main.next + 1
    <3>1. main.next + 1 \in 1..(Len(Plan) + 1)
      BY <1>1, SizeOfPlan
    <3> QED
      BY <1>1, <2>1, <3>1 DEF MainState
  <2>3. main.hi = main.next
    BY <1>1, <1>3, SizeOfPlan
  <2>4. /\ \A s \in Steps : s < main.next + 1 => task[s].at = "done"
        /\ \A s \in Steps : s >= main.next + 1 => Fresh(s)
    BY <1>1, <2>3, SizeOfPlan DEF Group
  <2>5. \A s \in Steps : task[s].at \in Stopped
    BY <1>1, <2>4, SizeOfPlan DEF Fresh, Stopped
  <2>6. Shape'
    BY <2>1, <2>2, <2>4, <2>5 DEF Shape, Fresh
  <2>7. Typed' /\ Grown
    BY <1>1, <2>1, GrownAlike DEF Typed, Apt
  <2> QED
    BY <2>1, <2>6, <2>7 DEF Same
<1> QED
  BY <1>2, <1>3

LEMMA WriterKeeps ==
  ASSUME Typed, Shape, Writer \/ BatchFails
  PROVE  Typed' /\ Shape' /\ Grown
<1>1. Logged' /\ Grown
  BY WriterShape DEF Writer, Typed
<1>2. UNCHANGED <<files, partials, acted, control, sticky, task, outcomes, main>>
  BY DEF Writer, WriteBatch, SyncBatch, BatchFails, fs
<1> QED
  BY <1>1, <1>2, ShapeAlike DEF Typed, Apt

LEMMA CallersKeep ==
  ASSUME Typed, Shape, Pause \/ Resume \/ Cancel \/ UNCHANGED vars
  PROVE  /\ Typed' /\ Shape' /\ Grown
         /\ UNCHANGED <<files, partials, acted, journal, sticky, task, outcomes, main>>
         /\ control = "Cancelled" => control' = "Cancelled"
<1>1. UNCHANGED <<files, partials, acted, journal, sticky, task, outcomes, main>>
  BY DEF Pause, Resume, Cancel, Steer, vars, fs
<1>2. control' \in ControlState /\ (control = "Cancelled" => control' = "Cancelled")
  BY DEF Pause, Resume, Cancel, Steer, vars, Typed, ControlState, AfterPause,
         AfterResume, AfterCancel
<1> QED
  BY <1>1, <1>2, ShapeAlike, GrownAlike DEF Typed, Apt

-----------------------------------------------------------------------------
LEMMA ShapeStarts == Init => Typed /\ Shape
<1> SUFFICES ASSUME Init
             PROVE  Typed /\ Shape
  OBVIOUS
<1>1. /\ journal.sent \in Seq(Lines) /\ Len(journal.sent) = 1
      /\ Logged
  <2>1. JobStarted(0) \in Lines
    BY DEF Lines
  <2>2. <<JobStarted(0)>> \in Seq(Lines) /\ Len(<<JobStarted(0)>>) = 1
    BY <2>1
  <2> QED
    BY <2>2 DEF Init, Logged
<1>2. task \in [Steps -> TaskState] /\ \A s \in Steps : Fresh(s)
  <2>1. Idle \in TaskState
    BY ExecutorAssumption
       DEF Idle, TaskState, TaskPlaces, Stopped, ExecutorAssumption
  <2>2. task = [s \in Steps |-> Idle]
    BY DEF Init
  <2> QED
    BY <2>1, <2>2 DEF Idle, Fresh
<1>3. files \in [Paths -> Contents]
  BY ExecutorAssumption DEF Init, ExecutorAssumption
<1>4. Typed
  BY <1>1, <1>2, <1>3 DEF Init, Typed, Apt, Fresh, ControlState
<1>5. main \in MainState /\ main.at = "starting" /\ main.next = 1
  BY SizeOfPlan DEF Init, MainState
<1>6. Shape
  BY <1>2, <1>5, SizeOfPlan DEF Shape, Fresh, Stopped
<1> QED
  BY <1>4, <1>6

LEMMA ShapeStep == Typed /\ Shape /\ [Next]_vars => Typed' /\ Shape' /\ Grown
<1> SUFFICES ASSUME Typed, Shape, [Next]_vars
             PROVE  Typed' /\ Shape' /\ Grown
  OBVIOUS
<1>1. CASE Writer \/ BatchFails
  BY <1>1, WriterKeeps
<1>2. CASE Loop
  <2>1. CASE BatchEnds
    BY <2>1, FinishingShape, BatchNextShape
  <2> QED
    BY <1>2, <2>1, MovesShape, FinishingShape, WindowsShape, ReleasesShape, StrictShape,
       SerialNextShape DEF Loop
<1>3. ASSUME NEW s \in Steps, Progress(s) \/ ResolverAnswers(s) \/ CallFails(s)
      PROVE  Typed' /\ Shape' /\ Grown
  BY <1>3, StepsAreTaskSteps, TaskStepTyped, TaskStepShape
<1>4. CASE Pause \/ Resume \/ Cancel \/ UNCHANGED vars
  BY <1>4, CallersKeep
<1> QED
  BY <1>1, <1>2, <1>3, <1>4 DEF Next, Ended

(* Every reachable state is well-typed, whatever the plan, the faults and  *)
(* the controls.                                                           *)
THEOREM TypeCorrect == Spec => []TypeOK
<1>1. Typed /\ Shape => TypeOK
  BY DEF Typed, Shape, TypeOK, Logged, MainState, TaskState, TaskPlaces, Working, Stopped
<1> QED
  BY <1>1, ShapeStarts, ShapeStep, PTL DEF Spec

-----------------------------------------------------------------------------
(* Write-ahead: what makes it inductive.  A working step's Intent is       *)
(* durable, an asked one is where its ticket says, a window's are the last *)
(* records before the window's ticket, and those of the windows before it  *)
(* are durable.                                                            *)
Announced(j, s, n) ==
  \E i \in 1..j.synced : j.sent[i] = Intent(s, PartialOf(s, n))

Promise(s) ==
  /\ task[s].at \in Working => Announced(journal, s, task[s].attempt)
  /\ task[s].at \in {"ready", "gate"} /\ task[s].named =>
       Announced(journal, s, task[s].attempt)
  /\ task[s].at = "intent" =>
       /\ task[s].ticket \in 1..Len(journal.sent)
       /\ journal.sent[task[s].ticket] = Intent(s, PartialOf(s, task[s].attempt))
  /\ task[s].at \in Working \cup {"intent", "closing", "backoff"} => ~task[s].named

Windowed ==
  /\ main.ticket <= Len(journal.sent)
  /\ main.mark - WindowStart < main.ticket
  /\ \A s \in main.next..(WindowStart - 1) : Announced(journal, s, task[s].attempt)
  /\ \A s \in WindowStart..main.mark :
       /\ task[s].attempt = 1
       /\ journal.sent[main.ticket - (main.mark - s)] = Intent(s, PartialOf(s, 1))

Promised ==
  /\ \A s \in Steps : Promise(s)
  /\ main.at = "serial" =>
       \A s \in (main.next + 1)..main.hi : Announced(journal, s, task[s].attempt)
  /\ main.at = "window" => Windowed

Effects ==
  /\ \A s \in acted : \E n \in Nat : Announced(journal, s, n)
  /\ \A p \in partials :
       \E i \in 1..journal.synced : journal.sent[i] = Intent(p.step, p.attempt)

WriteAheadInv == Typed /\ Shape /\ Promised /\ Effects

LEMMA AnnouncedStays ==
  ASSUME Logged, Grown, Logged', NEW s, NEW n, Announced(journal, s, n)
  PROVE  Announced(journal', s, n)
<1>1. PICK i \in 1..journal.synced : journal.sent[i] = Intent(s, PartialOf(s, n))
  BY DEF Announced
<1>2. i \in 1..Len(journal.sent) /\ i \in 1..journal'.synced
  BY LenProperties DEF Logged, Grown
<1> QED
  BY <1>1, <1>2 DEF Announced, Grown

(* A record at a ticket stays there, and is Announced once it is durable.  *)
LEMMA SentStays ==
  ASSUME Logged, Grown, NEW i \in 1..Len(journal.sent)
  PROVE  i \in 1..Len(journal'.sent) /\ journal'.sent[i] = journal.sent[i]
BY LenProperties DEF Logged, Grown

LEMMA EffectsKept ==
  ASSUME Logged, Grown, Logged', Effects, UNCHANGED <<acted, partials>>
  PROVE  Effects'
<1>1. \A s \in acted : \E n \in Nat : Announced(journal', s, n)
  BY AnnouncedStays DEF Effects
<1>2. ASSUME NEW p \in partials
      PROVE  \E i \in 1..journal'.synced : journal'.sent[i] = Intent(p.step, p.attempt)
  <2>1. PICK i \in 1..journal.synced : journal.sent[i] = Intent(p.step, p.attempt)
    BY DEF Effects
  <2>2. i \in 1..Len(journal.sent) /\ i \in 1..journal'.synced
    BY LenProperties DEF Logged, Grown
  <2> QED
    BY <2>1, <2>2 DEF Grown
<1> QED
  BY <1>1, <1>2 DEF Effects

(* What a step does not touch keeps its promise. *)
LEMMA PromiseKept ==
  ASSUME Logged, Grown, Logged', NEW s \in Steps, Promise(s), task'[s] = task[s]
  PROVE  Promise(s)'
<1>1. Announced(journal, s, task[s].attempt) => Announced(journal', s, task'[s].attempt)
  BY AnnouncedStays
<1> QED
  BY <1>1, SentStays DEF Promise

LEMMA TaskStepPromises ==
  ASSUME Typed, Shape, Promised, NEW s \in Steps, TaskStep(s)
  PROVE  Promised'
<1>1. Typed' /\ Grown /\ Logged /\ Logged'
  BY TaskStepTyped DEF Typed
<1>2. /\ main' = main /\ \A t \in Steps : t # s => task'[t] = task[t]
      /\ task[s].at \notin Stopped /\ task[s] \in TaskState
  BY DEF TaskStep, Alone, Typed
<1>3. Promise(s)
  BY DEF Promised
<1>4. Announced(journal, s, task[s].attempt) => Announced(journal', s, task[s].attempt)
  BY <1>1, AnnouncedStays
<1>5. Promise(s)'
  <2>1. CASE Enters(s)
    BY <1>3, <1>4, <2>1 DEF Enters, Promise, Working
  <2>2. CASE Asks(s)
    <3>1. Intent(s, PartialOf(s, task'[s].attempt)) \in Lines
      BY <1>1 DEF Typed, Lines, TaskState, PartialOf
    <3>2. /\ Len(journal'.sent) = Len(journal.sent) + 1
          /\ journal'.sent[Len(journal.sent) + 1] = Intent(s, PartialOf(s, task'[s].attempt))
      BY <1>1, <2>2, <3>1, QueueOne DEF Asks
    <3>3. Len(journal.sent) \in Nat
      BY <1>1, LenProperties DEF Logged
    <3> QED
      BY <2>2, <3>2, <3>3 DEF Asks, Promise, Working
  <2>3. CASE Admitted(s)
    <3>1. /\ task[s].ticket \in 1..journal.synced
          /\ journal.sent[task[s].ticket] = Intent(s, PartialOf(s, task[s].attempt))
          /\ ~task[s].named
      BY <1>1, <1>2, <1>3, <2>3 DEF Admitted, Promise, Durable, Logged, TaskState
    <3>2. Announced(journal', s, task[s].attempt)
      BY <1>4, <3>1 DEF Announced
    <3> QED
      BY <2>3, <3>1, <3>2 DEF Admitted, Promise, Same, Working
  <2>4. CASE Refuses(s) \/ Closes(s)
    BY <2>4 DEF Refuses, Closes, Promise, Working
  <2>5. CASE Leaves(s)
    BY <1>3, <1>4, <2>5 DEF Leaves, Promise, Same, Working
  <2>6. CASE Works(s)
    BY <1>3, <1>4, <2>6 DEF Works, Promise, Same, Working
  <2>7. CASE Concludes(s)
    BY <1>3, <2>7 DEF Concludes, Promise, Same, Working
  <2> QED
    BY <2>1, <2>2, <2>3, <2>4, <2>5, <2>6, <2>7 DEF TaskStep
<1>6. \A t \in Steps : Promise(t)'
  <2>1. ASSUME NEW t \in Steps, t # s
        PROVE  Promise(t)'
    BY <1>1, <1>2, <2>1, PromiseKept DEF Promised
  <2> QED
    BY <1>5, <2>1
<1>7. main.at \in {"batch", "serial"} /\ (main.at = "serial" => s = main.next)
        /\ main \in MainState
  BY <1>2, RunningWhere DEF Shape
<1>8. ASSUME main.at = "serial", NEW t \in (main.next + 1)..main.hi
      PROVE  Announced(journal', t, task'[t].attempt)
  <2>1. t \in Steps /\ t # s
    BY <1>7, <1>8, SizeOfPlan DEF MainState
  <2> QED
    BY <1>1, <1>2, <1>8, <2>1, AnnouncedStays DEF Promised
<1> QED
  BY <1>2, <1>6, <1>7, <1>8 DEF Promised

LEMMA TaskStepEffects ==
  ASSUME Typed, Shape, Promised, Effects, NEW s \in Steps, TaskStep(s)
  PROVE  Effects'
<1>1. Typed' /\ Grown /\ Logged /\ Logged'
  BY TaskStepTyped DEF Typed
<1>2. CASE UNCHANGED <<acted, partials>>
  BY <1>1, <1>2, EffectsKept
<1>3. CASE ~UNCHANGED <<acted, partials>>
  <2>1. /\ task[s].at \in Working \/ (acted' = acted /\ partials' \subseteq partials)
        /\ acted' \subseteq acted \cup {s}
        /\ partials' \subseteq partials
             \/ (CopyClass(s) /\ partials' \subseteq partials \cup {Staged(s)}
                   /\ task[s].at \in Working)
    BY <1>3 DEF TaskStep, Enters, Asks, Admitted, Refuses, Closes, Leaves, Works, Concludes
  <2>2. task[s].attempt \in Nat
    BY DEF Typed, TaskState
  <2>3. task[s].at \in Working => Announced(journal', s, task[s].attempt)
    BY <1>1, AnnouncedStays DEF Promised, Promise
  <2>4. \A t \in acted' : \E n \in Nat : Announced(journal', t, n)
    <3>1. \A t \in acted : \E n \in Nat : Announced(journal', t, n)
      BY <1>1, AnnouncedStays DEF Effects
    <3> QED
      BY <2>1, <2>2, <2>3, <3>1
  <2>5. \A p \in partials :
          \E i \in 1..journal'.synced : journal'.sent[i] = Intent(p.step, p.attempt)
    <3> TAKE p \in partials
    <3>1. PICK i \in 1..journal.synced : journal.sent[i] = Intent(p.step, p.attempt)
      BY DEF Effects
    <3>2. i \in 1..Len(journal.sent) /\ i \in 1..journal'.synced
      BY <1>1, LenProperties DEF Logged, Grown
    <3> QED
      BY <1>1, <3>1, <3>2 DEF Grown
  <2>6. ASSUME CopyClass(s), task[s].at \in Working
        PROVE  \E i \in 1..journal'.synced :
                 journal'.sent[i] = Intent(Staged(s).step, Staged(s).attempt)
    <3>1. PartialOf(s, task[s].attempt) = task[s].attempt
      BY <2>6 DEF PartialOf
    <3> QED
      BY <2>3, <2>6, <3>1 DEF Announced, Staged
  <2> QED
    BY <2>1, <2>4, <2>5, <2>6 DEF Effects
<1> QED
  BY <1>2, <1>3

(* A step that only lets the journal grow. *)
LEMMA PromisedKept ==
  ASSUME Typed, Shape, Promised, Logged', Grown, UNCHANGED task,
         UNCHANGED main \/ main'.at \notin {"serial", "window"}
  PROVE  Promised'
<1>1. \A s \in Steps : Promise(s)'
  BY PromiseKept DEF Promised, Typed
<1>2. CASE main'.at \notin {"serial", "window"}
  BY <1>1, <1>2 DEF Promised
<1>3. CASE UNCHANGED main
  <2>1. main \in MainState /\ Len(journal.sent) \in Nat
    BY LenProperties DEF Shape, Typed, Logged
  <2>2. \A s, n : Announced(journal, s, n) => Announced(journal', s, n)
    BY AnnouncedStays DEF Typed
  <2>3. ASSUME main.at = "window", Windowed
        PROVE  Windowed'
    <3>1. WindowShape /\ WindowStart \in main.next..main.mark /\ main.next \in Nat
            /\ main.mark \in Nat /\ WindowStart \in Nat
      <4>1. /\ WindowShape /\ main.next \in Nat /\ main.mark \in Nat
            /\ main.next <= main.mark
        BY <2>1, <2>3, SizeOfPlan DEF Shape, WindowShape, MainState
      <4>2. WindowStart \in main.next..main.mark
        BY <4>1, StartBounds DEF WindowStart
      <4> QED
        BY <4>1, <4>2
    <3>2. WindowStart' = WindowStart
      BY <1>3 DEF WindowStart
    <3>3. ASSUME NEW s \in WindowStart..main.mark
          PROVE  journal'.sent[main.ticket - (main.mark - s)] = Intent(s, PartialOf(s, 1))
      <4>1. main.ticket - (main.mark - s) \in 1..Len(journal.sent)
        BY <2>1, <2>3, <3>1 DEF Windowed, MainState
      <4> QED
        BY <2>3, <4>1 DEF Grown, Windowed
    <3>4. main.ticket <= Len(journal'.sent)
      BY <2>1, <2>3, LenProperties DEF Windowed, Grown, MainState, Logged
    <3> QED
      BY <1>3, <2>2, <2>3, <3>2, <3>3, <3>4 DEF Windowed
  <2> QED
    BY <1>1, <1>3, <2>2, <2>3 DEF Promised
<1> QED
  BY <1>2, <1>3

LEMMA StrictPromises ==
  ASSUME Typed, Shape, Promised, StrictStep
  PROVE  Promised'
<1>1. /\ Logged' /\ Grown /\ Fresh(main.next) /\ main.next \in Steps
      /\ task' = [task EXCEPT ![main.next].at = "gate"]
      /\ main'.at = "serial" /\ main'.next = main.next /\ main'.hi = main.next
      /\ \A s \in Steps : Same(s)
  BY StrictShape DEF Typed
<1>2. ASSUME NEW s \in Steps
      PROVE  Promise(s)'
  <2>1. CASE s = main.next
    <3>1. task'[s].at = "gate" /\ ~task'[s].named
      BY <1>1, <2>1 DEF Fresh, Same, Typed
    <3> QED
      BY <3>1 DEF Promise, Working
  <2>2. CASE s # main.next
    BY <1>1, <2>2, PromiseKept DEF Promised, Typed
  <2> QED
    BY <2>1, <2>2
<1>3. \A s \in (main'.next + 1)..main'.hi : FALSE
  BY <1>1, SizeOfPlan
<1> QED
  BY <1>1, <1>2, <1>3 DEF Promised

LEMMA SerialNextPromises ==
  ASSUME Typed, Shape, Promised, SerialNext
  PROVE  Promised'
<1>1. Logged' /\ Grown /\ \A s \in Steps : Same(s)
  BY SerialNextShape DEF Typed
<1>2. main \in MainState /\ main.at = "serial" /\ SerialShape
  BY DEF SerialNext, Shape
<1>3. CASE UNCHANGED task /\ main' = [main EXCEPT !.at = "loop", !.next = main.next + 1]
  <2>1. main'.at = "loop"
    BY <1>2, <1>3 DEF MainState
  <2> QED
    BY <1>1, <1>3, <2>1, PromisedKept
<1>4. CASE /\ main' = [main EXCEPT !.next = main.next + 1]
           /\ main.next < main.hi /\ main.next + 1 \in Steps
           /\ task' = [task EXCEPT ![main.next + 1].at = "gate"]
  <2>1. main'.at = "serial" /\ main'.next = main.next + 1 /\ main'.hi = main.hi
    BY <1>2, <1>4 DEF MainState
  <2>2. ASSUME NEW s \in (main.next + 1)..main.hi
        PROVE  s \in Steps /\ Announced(journal', s, task'[s].attempt)
    <3>1. s \in Steps
      BY <1>2, SizeOfPlan DEF MainState
    <3>2. Announced(journal, s, task[s].attempt)
      BY <1>2 DEF Promised
    <3> QED
      BY <1>1, <3>1, <3>2, AnnouncedStays DEF Same, Typed
  <2>3. main.next + 1 \in (main.next + 1)..main.hi
    BY <1>2, <1>4, SizeOfPlan DEF MainState
  <2>4. ASSUME NEW s \in Steps
        PROVE  Promise(s)'
    <3>1. CASE s = main.next + 1
      <4>1. task'[s].at = "gate"
        BY <1>4, <3>1 DEF Typed
      <4> QED
        BY <2>2, <2>3, <3>1, <4>1 DEF Promise, Working
    <3>2. CASE s # main.next + 1
      BY <1>1, <1>4, <3>2, PromiseKept DEF Promised, Typed
    <3> QED
      BY <3>1, <3>2
  <2>5. \A s \in (main.next + 1 + 1)..main.hi : s \in (main.next + 1)..main.hi
    BY <1>2, SizeOfPlan DEF MainState
  <2> QED
    BY <2>1, <2>2, <2>4, <2>5 DEF Promised
<1> QED
  BY <1>3, <1>4, SerialNextShape

LEMMA ReleasePromises ==
  ASSUME Typed, Shape, Promised, WindowDurable \/ WindowRefused
  PROVE  Promised'
<1>1. PICK journaled \in (main.next - 1)..main.hi :
           /\ Released(journaled)
           /\ \/ WindowDurable /\ main.mark = main.hi /\ journaled = main.hi
              \/ /\ WindowRefused /\ journaled = WindowStart - 1
                 /\ journaled < main.mark /\ journaled # main.hi
  BY ReleaseSteps
<1>2. /\ main \in MainState /\ main.at = "window" /\ Group /\ WindowShape /\ Windowed
      /\ main.next \in Steps /\ main.hi \in main.next..Len(Plan)
      /\ main.mark \in main.next..main.hi /\ WindowStart \in main.next..main.mark
  <2>1. main \in MainState /\ main.at = "window" /\ Group /\ WindowShape /\ Windowed
    BY DEF Shape, Promised, WindowDurable, WindowRefused
  <2>2. /\ main.next \in Steps /\ main.hi \in main.next..Len(Plan)
        /\ main.mark \in main.next..main.hi
    BY <2>1, SizeOfPlan DEF MainState, Group, WindowShape
  <2>3. main.next \in Nat /\ main.mark \in Nat /\ main.next <= main.mark
    BY <2>2, SizeOfPlan
  <2> QED
    BY <2>1, <2>2, <2>3, StartBounds DEF WindowStart
<1>3. /\ UNCHANGED journal /\ Logged /\ Logged' /\ Grown
  BY GrownAlike DEF WindowDurable, WindowRefused, Typed
<1>4. ASSUME NEW s \in main.next..journaled
      PROVE  s \in Steps /\ Announced(journal', s, task'[s].attempt)
  <2>1. s \in Steps /\ main.next \in Nat /\ main.mark \in Nat /\ WindowStart \in Nat
          /\ Len(journal.sent) \in Nat /\ s \in Nat
    <3>1. main.next \in Nat /\ main.mark \in Nat /\ WindowStart \in Nat /\ main.hi \in Nat
            /\ 1 <= main.next /\ main.hi <= Len(Plan)
      BY <1>2, SizeOfPlan
    <3>2. s \in main.next..main.hi
      BY <1>1, <3>1
    <3>3. s \in Steps /\ s \in Nat
      BY <3>1, <3>2, SizeOfPlan
    <3>4. Len(journal.sent) \in Nat
      BY <1>3, LenProperties DEF Logged
    <3> QED
      BY <3>1, <3>3, <3>4
  <2>2. task'[s].attempt = task[s].attempt
    BY <1>1, <2>1 DEF Released, Same
  <2>3. CASE s < WindowStart
    BY <1>2, <1>3, <2>1, <2>2, <2>3 DEF Windowed
  <2>4. CASE s >= WindowStart
    <3>1. WindowDurable /\ s \in WindowStart..main.mark
      BY <1>1, <1>2, <2>1, <2>4
    <3>2. task[s].attempt = 1
            /\ journal.sent[main.ticket - (main.mark - s)] = Intent(s, PartialOf(s, 1))
      BY <1>2, <3>1 DEF Windowed
    <3>3. main.ticket <= journal.synced
      BY <3>1 DEF WindowDurable, Durable
    <3>4. main.ticket - (main.mark - s) \in 1..journal.synced
      <4>1. main.ticket \in Nat /\ journal.synced \in Nat
        BY <1>2, <1>3 DEF MainState, Logged
      <4>2. main.mark - WindowStart < main.ticket /\ s <= main.mark /\ s >= WindowStart
        BY <1>2, <2>1, <3>1 DEF Windowed
      <4> QED
        BY <2>1, <3>3, <4>1, <4>2
    <3> QED
      BY <1>3, <2>1, <2>2, <3>2, <3>4 DEF Announced
  <2> QED
    BY <2>1, <2>3, <2>4
<1>5. ASSUME NEW s \in Steps
      PROVE  Promise(s)'
  <2>1. CASE s \notin main.next..main.hi
    <3>1. task'[s] = task[s]
      BY <1>1, <2>1 DEF Released
    <3> QED
      BY <1>3, <3>1, PromiseKept DEF Promised
  <2>2. CASE s \in main.next..main.hi
    <3>1. task[s].at = "idle"
      BY <1>2, <2>2 DEF WindowShape
    <3>2. \/ task'[s].at \in {"idle", "done"}
          \/ task'[s].at \in {"ready", "gate"} /\ s \in main.next..journaled
      <4>1. s \in Nat /\ main.next \in Nat /\ main.hi \in Nat
            /\ journaled \in Int /\ journaled <= main.hi
        BY <1>1, <1>2, SizeOfPlan
      <4>2. s \in main.next..journaled \/ s \in (journaled + 1)..main.hi
        BY <2>2, <4>1
      <4>3. s = main.next \/ s \in (main.next + 1)..main.hi
        BY <2>2, <4>1
      <4> QED
        BY <1>1, <2>2, <3>1, <4>1, <4>2, <4>3 DEF Released
    <3> QED
      BY <1>4, <3>2 DEF Promise, Working
  <2> QED
    BY <2>1, <2>2
<1>6. ASSUME main'.at = "serial"
      PROVE  \A s \in (main'.next + 1)..main'.hi : Announced(journal', s, task'[s].attempt)
  <2>1. journaled = main.hi /\ main'.next = main.next /\ main'.hi = main.hi
    BY <1>1, <1>2, <1>6 DEF Released, MainState
  <2>2. \A s \in (main.next + 1)..main.hi : s \in main.next..journaled
    BY <1>2, <2>1, SizeOfPlan
  <2> QED
    BY <1>4, <2>1, <2>2
<1>7. main'.at # "window"
  BY <1>1, <1>2 DEF Released, MainState
<1> QED
  BY <1>5, <1>6, <1>7 DEF Promised

(* What a window's records name, and where it starts. *)
LEMMA WindowNames ==
  ASSUME Typed, Shape, OpenWindow \/ NextWindow
  PROVE  \E first, last \in Steps, hi \in main.next..Len(Plan) :
           /\ main.next \in Nat /\ main.next <= first /\ first <= last /\ last <= hi
           /\ \A s \in Steps : task[s].at \in Stopped
           /\ \A s \in main.next..hi : task[s].at = "idle"
           /\ \/ OpenWindow /\ first = main.next
              \/ NextWindow /\ first = main.mark + 1 /\ first = WindowStart + Window
           /\ main'.at = "window" /\ main'.next = main.next /\ main'.hi = hi
           /\ main'.mark = last /\ main'.outcome = main.outcome
           /\ main'.ticket = Len(journal.sent) + (last - first + 1)
           /\ WindowStart' = first
           /\ Logged' /\ Grown
           /\ journal'.synced = journal.synced /\ journal'.poisoned = journal.poisoned
           /\ Len(journal.sent) \in Nat
           /\ Len(journal'.sent) = Len(journal.sent) + (last - first + 1)
           /\ \A s \in first..last :
                journal'.sent[Len(journal.sent) + (s - first + 1)]
                  = Intent(s, PartialOf(s, 1))
           /\ \A s \in first..last : task'[s].at = task[s].at /\ task'[s].attempt = 1
           /\ \A s \in Steps : s \notin first..last => task'[s] = task[s]
<1>1. PICK first \in Steps, hi \in main.next..Len(Plan) :
           /\ hi \in first..Len(Plan) /\ main.next \in Steps /\ first >= main.next
           /\ NameWindow(first, hi)
           /\ \A s \in main.next..hi : task[s].at = "idle"
           /\ \E q \in Nat : first = main.next + q * Window
           /\ \A s \in Steps : task[s].at \in Stopped
           /\ \/ OpenWindow /\ first = main.next
              \/ /\ NextWindow /\ first = main.mark + 1 /\ hi = main.hi
                 /\ first = WindowStart + Window
  BY WindowSteps
<1> DEFINE last == LastNamed(first, hi)
<1>2. main \in MainState /\ Logged
  BY DEF Shape, Typed
<1>3. last \in first..hi /\ last < first + Window
  BY <1>1, LastNamedShape
<1>4. /\ main' = [main EXCEPT !.at = "window", !.hi = hi, !.mark = last,
                              !.ticket = Len(journal.sent) + (last - first + 1)]
      /\ Logged' /\ Grown
      /\ journal'.synced = journal.synced /\ journal'.poisoned = journal.poisoned
      /\ Len(journal'.sent) = Len(journal.sent) + (last - first + 1)
      /\ \A s \in first..last :
           journal'.sent[Len(journal.sent) + (s - first + 1)] = Intent(s, PartialOf(s, 1))
      /\ \A s \in first..last : task'[s].at = task[s].at /\ task'[s].attempt = 1
      /\ \A s \in Steps : s \notin first..last => task'[s] = task[s]
  <2>1. hi \in first..Len(Plan) /\ NameWindow(first, hi)
    BY <1>1
  <2>2. Names(first, last, hi)
    BY <1>2, <2>1, NameShape
  <2> HIDE DEF last
  <2> QED
    BY <2>2 DEF Names
<1> HIDE DEF last
<1>5. /\ main'.at = "window" /\ main'.next = main.next /\ main'.hi = hi /\ main'.mark = last
      /\ main'.ticket = Len(journal.sent) + (last - first + 1)
      /\ main'.outcome = main.outcome
  BY <1>2, <1>4 DEF MainState
<1>6. WindowStart' = first
  <2>1. PICK q \in Nat : first = main.next + q * Window
    BY <1>1
  <2>2. last = main.next + q * Window + (last - first) /\ last - first \in 0..(Window - 1)
    <3>1. q * Window \in Nat
      BY SizeOfPlan
    <3>2. main.next \in Nat /\ first \in Nat /\ last \in Nat
      BY <1>1, <1>3, SizeOfPlan
    <3> DEFINE passed == q * Window
    <3>3. passed \in Nat /\ first = main.next + passed
      BY <2>1, <3>1
    <3>4. last >= first /\ last < first + Window
      BY <1>3, <3>2
    <3> HIDE DEF passed
    <3>5. last = main.next + passed + (last - first)
      BY <3>2, <3>3
    <3>6. last - first \in 0..(Window - 1)
      BY <3>2, <3>4, SizeOfPlan
    <3> QED
      BY <3>5, <3>6 DEF passed
  <2>3. Start(main.next, last) = main.next + q * Window
    <3>1. main.next \in Nat
      BY <1>1, SizeOfPlan
    <3> QED
      BY <2>2, <3>1, StartOf
  <2> QED
    BY <1>5, <2>1, <2>3 DEF WindowStart
<1>7. Len(journal.sent) \in Nat /\ first \in Nat /\ last \in Nat /\ main.next \in Nat
        /\ first <= last
  <2>1. Len(journal.sent) \in Nat
    BY <1>2, LenProperties DEF Logged
  <2>2. first \in Nat /\ main.next \in Nat /\ hi \in Nat
    BY <1>1, SizeOfPlan
  <2> QED
    BY <1>3, <2>1, <2>2
<1>8. last \in Steps /\ last <= hi /\ main.next <= first
  BY <1>1, <1>3, <1>7, SizeOfPlan
<1> QED
  BY <1>1, <1>4, <1>5, <1>6, <1>7, <1>8

LEMMA WindowPromises ==
  ASSUME Typed, Shape, Promised, OpenWindow \/ NextWindow
  PROVE  Promised'
<1>1. PICK first \in Steps, last \in Steps, hi \in main.next..Len(Plan) :
           /\ main.next \in Nat /\ main.next <= first /\ first <= last /\ last <= hi
           /\ \A s \in Steps : task[s].at \in Stopped
           /\ \/ OpenWindow /\ first = main.next
              \/ NextWindow /\ first = main.mark + 1 /\ first = WindowStart + Window
           /\ main'.at = "window" /\ main'.next = main.next /\ main'.mark = last
           /\ main'.ticket = Len(journal.sent) + (last - first + 1)
           /\ WindowStart' = first
           /\ Logged' /\ Grown
           /\ Len(journal'.sent) = Len(journal.sent) + (last - first + 1)
           /\ \A s \in first..last :
                journal'.sent[Len(journal.sent) + (s - first + 1)]
                  = Intent(s, PartialOf(s, 1))
           /\ \A s \in first..last : task'[s].at = task[s].at /\ task'[s].attempt = 1
           /\ \A s \in Steps : s \notin first..last => task'[s] = task[s]
  BY WindowNames
<1>2. main \in MainState /\ Logged
  BY DEF Shape, Typed
<1>3. Len(journal.sent) \in Nat /\ first \in Nat /\ last \in Nat /\ main.next \in Nat
        /\ first <= last
  BY <1>1, <1>2, LenProperties, SizeOfPlan DEF Logged
<1>4. ASSUME NEW s \in Steps
      PROVE  Promise(s)'
  <2>1. task'[s].at \in Stopped
    BY <1>1
  <2> QED
    BY <2>1 DEF Promise, Stopped, Working
<1>5. ASSUME NEW s \in main.next..(first - 1)
      PROVE  Announced(journal', s, task'[s].attempt)
  <2>1. NextWindow /\ first = main.mark + 1 /\ first = WindowStart + Window
    BY <1>1, <1>3
  <2>2. main.at = "window" /\ Durable(main.ticket) /\ Windowed /\ WindowShape
    BY <2>1 DEF NextWindow, Promised, Shape
  <2>3. s \in Steps /\ s \notin first..last /\ main.mark \in Nat /\ s \in Nat
          /\ WindowStart \in Nat /\ main.ticket \in Nat /\ main.next <= main.mark
    <3>1. main.mark \in Nat /\ main.ticket \in Nat
      BY <1>2, SizeOfPlan DEF MainState
    <3>2. main.next <= main.mark
      BY <2>2 DEF WindowShape
    <3>3. WindowStart \in main.next..main.mark
      BY <1>3, <3>1, <3>2, StartBounds DEF WindowStart
    <3>4. s \in Nat /\ s < first /\ s <= Len(Plan) /\ 1 <= s
      <4>1. first <= Len(Plan) /\ 1 <= main.next
        BY <1>2, <1>3, SizeOfPlan DEF MainState
      <4> QED
        BY <1>3, <1>5, <4>1, SizeOfPlan
    <3>5. s \in Steps /\ s \notin first..last
      BY <1>3, <3>4, SizeOfPlan
    <3>6. WindowStart \in Nat
      BY <1>3, <3>3
    <3> QED
      BY <3>1, <3>2, <3>4, <3>5, <3>6
  <2>4. Announced(journal, s, task[s].attempt)
    <3>1. CASE s < WindowStart
      BY <1>3, <2>2, <2>3, <3>1 DEF Windowed
    <3>2. CASE s >= WindowStart
      <4>1. s \in WindowStart..main.mark
        BY <1>3, <2>1, <2>3, <3>2
      <4>2. main.ticket <= journal.synced /\ main.mark - WindowStart < main.ticket
              /\ journal.synced \in Nat
        BY <1>2, <2>2 DEF Durable, Windowed, Logged
      <4>3. main.ticket - (main.mark - s) \in 1..journal.synced
        <5>1. PICK mark \in Nat, ticket \in Nat, start \in Nat, synced \in Nat :
                /\ mark = main.mark /\ ticket = main.ticket /\ start = WindowStart
                /\ synced = journal.synced
          BY <2>3, <4>2
        <5>2. s \in Nat /\ start <= s /\ s <= mark /\ ticket <= synced /\ mark - start < ticket
          BY <2>3, <4>1, <4>2, <5>1
        <5>3. ticket - (mark - s) \in 1..synced
          BY <5>2
        <5> QED
          BY <5>1, <5>3
      <4> QED
        BY <2>2, <4>1, <4>3 DEF Windowed, Announced
    <3> QED
      BY <2>3, <3>1, <3>2
  <2>5. task'[s] = task[s]
    BY <1>1, <2>3
  <2> QED
    BY <1>1, <1>2, <2>4, <2>5, AnnouncedStays
<1>6. ASSUME NEW s \in first..last
      PROVE  /\ task'[s].attempt = 1
             /\ journal'.sent[main'.ticket - (main'.mark - s)] = Intent(s, PartialOf(s, 1))
  <2> DEFINE length == Len(journal.sent)
  <2>1. length \in Int /\ s \in Int /\ first \in Int /\ last \in Int
    BY <1>3, <1>6
  <2>2. main'.ticket = length + (last - first + 1) /\ main'.mark = last
    BY <1>1
  <2>3. main'.ticket - (main'.mark - s) = length + (s - first + 1)
    <3> HIDE DEF length
    <3> QED
      BY <2>1, <2>2
  <2> QED
    BY <1>1, <1>6, <2>3
<1>7. Windowed'
  <2>1. main'.ticket <= Len(journal'.sent) /\ main'.mark - first < main'.ticket
    <3> DEFINE length == Len(journal.sent)
               longer == Len(journal'.sent)
    <3>1. /\ main'.ticket = length + (last - first + 1) /\ main'.mark = last
          /\ longer = length + (last - first + 1)
      BY <1>1
    <3>2. length \in Nat /\ first \in Nat /\ last \in Nat /\ first <= last
      BY <1>3
    <3> HIDE DEF length, longer
    <3>3. main'.ticket <= longer /\ main'.mark - first < main'.ticket
      BY <3>1, <3>2
    <3> QED
      BY <3>3 DEF longer
  <2> QED
    BY <1>1, <1>5, <1>6, <2>1 DEF Windowed
<1> QED
  BY <1>1, <1>4, <1>7 DEF Promised

LEMMA WriteAheadStarts == Init => WriteAheadInv
<1> SUFFICES ASSUME Init
             PROVE  Promised /\ Effects
  BY ShapeStarts DEF WriteAheadInv
<1> QED
  BY DEF Init, Promised, Promise, Effects, Idle, Working

LEMMA WriteAheadStep == WriteAheadInv /\ [Next]_vars => WriteAheadInv'
<1> SUFFICES ASSUME WriteAheadInv, [Next]_vars
             PROVE  Promised' /\ Effects'
  BY ShapeStep DEF WriteAheadInv
<1>1. /\ Typed /\ Shape /\ Promised /\ Effects
      /\ Typed' /\ Shape' /\ Grown /\ Logged /\ Logged'
  BY ShapeStep DEF WriteAheadInv, Typed
<1>2. CASE Writer \/ BatchFails
  <2>1. UNCHANGED <<acted, partials, task, main>>
    BY <1>2 DEF Writer, WriteBatch, SyncBatch, BatchFails, fs
  <2>2. UNCHANGED main /\ UNCHANGED task
    BY <2>1
  <2>3. UNCHANGED <<acted, partials>>
    BY <2>1
  <2>4. Promised'
    BY <1>1, <2>2, PromisedKept
  <2> QED
    BY <1>1, <2>3, <2>4, EffectsKept
<1>3. CASE Loop
  <2>1. UNCHANGED <<acted, partials>>
    BY <1>3 DEF Loop, StartDurable, StartRefused, OpenWindow, NextWindow, WindowDurable,
         WindowRefused, StrictStep, SerialNext, SerialCancelled, BatchEnds, LoopDone,
         LoopCancelled, FinishAnswered, fs
  <2>2. ASSUME \/ StartDurable \/ StartRefused \/ FinishAnswered
               \/ BatchEnds \/ LoopDone \/ LoopCancelled \/ SerialCancelled
        PROVE  Promised'
    <3>1. main \in MainState
      BY <1>1 DEF Shape
    <3>2. UNCHANGED task /\ main'.at \notin {"serial", "window"}
      BY <2>2, <3>1 DEF StartDurable, StartRefused, FinishAnswered, BatchEnds, LoopDone,
           LoopCancelled, SerialCancelled, Finish, Moves, MainState
    <3> QED
      BY <1>1, <3>2, PromisedKept
  <2>3. Promised'
    BY <1>1, <1>3, <2>2, StrictPromises, SerialNextPromises, ReleasePromises,
       WindowPromises DEF Loop
  <2> QED
    BY <1>1, <2>1, <2>3, EffectsKept
<1>4. ASSUME NEW s \in Steps, Progress(s) \/ ResolverAnswers(s) \/ CallFails(s)
      PROVE  Promised' /\ Effects'
  BY <1>1, <1>4, StepsAreTaskSteps, TaskStepPromises, TaskStepEffects
<1>5. CASE Pause \/ Resume \/ Cancel \/ UNCHANGED vars
  BY <1>1, <1>5, CallersKeep, PromisedKept, EffectsKept
<1> QED
  BY <1>2, <1>3, <1>4, <1>5 DEF Next, Ended

(* No crash finds the file system changed by a step, or a partial on it,   *)
(* that the surviving journal does not announce.                           *)
THEOREM WriteAheadHolds == Spec => []WriteAhead
<1>1. WriteAheadInv => WriteAhead
  <2> SUFFICES ASSUME WriteAheadInv, NEW k \in journal.synced..journal.written,
                      NEW lines, lines = SubSeq(journal.sent, 1, k)
               PROVE  /\ acted \subseteq Intended(lines)
                      /\ \A p \in partials : Has(lines, Intent(p.step, p.attempt))
    BY DEF WriteAhead, CrashPrefixes
  <2>1. /\ journal.sent \in Seq(Lines) /\ journal.synced \in Nat /\ k \in Nat
        /\ journal.synced <= k /\ k <= Len(journal.sent)
    BY LenProperties DEF WriteAheadInv, Typed, Logged
  <2>2. Len(lines) = k /\ \A i \in 1..k : lines[i] = journal.sent[i]
    BY <2>1, SubSeqProperties
  <2>3. ASSUME NEW s \in acted
        PROVE  s \in Intended(lines)
    <3>1. PICK n \in Nat, i \in 1..journal.synced :
            journal.sent[i] = Intent(s, PartialOf(s, n))
      BY DEF WriteAheadInv, Effects, Announced
    <3>2. i \in 1..Len(lines) /\ lines[i].type = "Intent" /\ lines[i].step = s
      BY <2>1, <2>2, <3>1 DEF Intent
    <3> QED
      BY <3>2 DEF Intended
  <2>4. ASSUME NEW p \in partials
        PROVE  Has(lines, Intent(p.step, p.attempt))
    <3>1. PICK i \in 1..journal.synced : journal.sent[i] = Intent(p.step, p.attempt)
      BY DEF WriteAheadInv, Effects
    <3> QED
      BY <2>1, <2>2, <3>1 DEF Has
  <2> QED
    BY <2>3, <2>4
<1> QED
  BY <1>1, WriteAheadStarts, WriteAheadStep, PTL DEF Spec

-----------------------------------------------------------------------------
(* The order of things: what has been recorded when a step that cannot be  *)
(* redone acts, what a removal waits for, and what the last record of a    *)
(* journal says.                                                           *)

(* What is known of a step that stopped, or that may: Heard is that        *)
(* outcomes knows how it ended, Recorded that a recovery will not redo it  *)
(* once it has acted, unless redoing it is harmless.                       *)
Completes(i, t) ==
  journal.sent[i].type = "Completion" /\ journal.sent[i].step = t

Heard(t) == outcomes[t] # "none"

Recorded(t) ==
  RedoSafe(t) \/ t \notin acted \/ \E i \in 1..journal.synced : Completes(i, t)

Behind(t) == Heard(t) /\ Recorded(t)

Settles(t) ==
  /\ task[t].at = "closing" =>
       /\ Heard(t)
       /\ task[t].ticket \in 1..Len(journal.sent) /\ Completes(task[t].ticket, t)
  /\ task[t].at = "done" => Behind(t) \/ journal.poisoned
  /\ task[t].at \in {"closing", "done"} =>
       /\ task[t].result # "none"
       /\ task[t].result # "Failed" => \E i \in 1..Len(journal.sent) : Completes(i, t)
  /\ task[t].at = "cancelled" => control = "Cancelled"
  /\ t \in acted => task[t].at # "idle"

(* What the loop knows of the steps before those it is at.                 *)
Unheard(ticket) == journal.poisoned /\ ticket > journal.synced

Earlier ==
  \A t \in 1..(main.next - 1) :
    /\ main.at = "window" =>
         Recorded(t) \/ (Unheard(main.ticket) /\ WindowStart = main.next)
    /\ main.at = "batch" => Recorded(t) \/ main.mark = main.next - 1
    /\ main.at = "serial" /\ RedoSafe(main.next) => Recorded(t)
    /\ main.at = "serial" /\ ~RedoSafe(main.next) =>
         /\ task[main.next].at \in Working => Behind(t)
         /\ task[main.next].at = "intent" =>
              Behind(t) \/ Unheard(task[main.next].ticket)

LastActed == \A s \in acted : ~Recorded(s) => \A t \in acted : t <= s

Gated ==
  \A s \in acted : Plan[s].kind = "Remove" /\ Plan[s].dep # 0 =>
    /\ task[Plan[s].dep].at = "done"
    /\ outcomes[Plan[s].dep] \in {"Succeeded", "Skipped"}

(* How the journal starts and ends; a job that finished cleanly completed  *)
(* every step before it said so.                                           *)
Ends(i) == journal.sent[i].type = "JobFinished"

Bounded ==
  /\ Len(journal.sent) >= 1
  /\ \A i \in 1..Len(journal.sent) : journal.sent[i].type = "JobStarted" <=> i = 1
  /\ \A i \in 1..Len(journal.sent) : Ends(i) =>
       /\ i = Len(journal.sent) /\ main.at \in {"finishing", "ended"}
       /\ journal.sent[i].outcome \in {"Completed", "CompletedWithSkips"} =>
            \A t \in Steps : \E j \in 1..(i - 1) : Completes(j, t)

Outcomed == main.outcome # "none" => main.at \in {"finishing", "ended"}

OrderInv ==
  /\ Typed /\ Shape
  /\ \A t \in Steps : Settles(t)
  /\ Earlier /\ LastActed /\ Gated
  /\ Bounded /\ OutcomeIsReported /\ Outcomed

-----------------------------------------------------------------------------
(* What is recorded stays so; only a step that acts can become unrecorded. *)
LEMMA CompletesStays ==
  ASSUME Logged, Grown, NEW t \in Steps, NEW i \in 1..Len(journal.sent),
         Completes(i, t)
  PROVE  i \in 1..Len(journal'.sent) /\ Completes(i, t)'
BY SentStays DEF Completes

LEMMA RecordedStays ==
  ASSUME Logged, Logged', Grown, NEW t \in Steps, Recorded(t), t \in acted' => t \in acted
  PROVE  Recorded(t)'
<1>1. CASE RedoSafe(t) \/ t \notin acted
  BY <1>1 DEF Recorded, RedoSafe
<1>2. ASSUME NEW i \in 1..journal.synced, Completes(i, t)
      PROVE  Recorded(t)'
  <2>1. i \in 1..Len(journal.sent)
    BY LenProperties DEF Logged
  <2>2. i \in 1..journal'.synced
    BY DEF Grown, Logged
  <2> QED
    BY <1>2, <2>1, <2>2, CompletesStays DEF Recorded
<1> QED
  BY <1>1, <1>2 DEF Recorded

LEMMA UnheardStays ==
  ASSUME Logged, Logged', Grown, NEW n \in Nat, Unheard(n)
  PROVE  Unheard(n)'
BY DEF Unheard, Grown, Logged

LEMMA SettlesKept ==
  ASSUME Typed, Typed', Grown, NEW t \in Steps, Settles(t),
         task'[t] = task[t], outcomes'[t] = outcomes[t], t \in acted' => t \in acted,
         control = "Cancelled" => control' = "Cancelled"
  PROVE  Settles(t)'
<1>1. Logged /\ Logged' /\ Len(journal.sent) \in Nat
  BY LenProperties DEF Typed, Logged
<1>2. Heard(t) => Heard(t)'
  BY DEF Heard
<1>3. Recorded(t) => Recorded(t)'
  BY <1>1, RecordedStays
<1>4. \A i \in 1..Len(journal.sent) :
        Completes(i, t) => i \in 1..Len(journal'.sent) /\ Completes(i, t)'
  BY <1>1, CompletesStays
<1>5. task'[t].at = task[t].at /\ task'[t].ticket = task[t].ticket
        /\ task'[t].result = task[t].result
  OBVIOUS
<1>6. (task[t].at = "closing" =>
        /\ Heard(t)
        /\ task[t].ticket \in 1..Len(journal.sent) /\ Completes(task[t].ticket, t))'
  BY <1>2, <1>4, <1>5 DEF Settles
<1>7. (task[t].at = "done" => Behind(t) \/ journal.poisoned)'
  BY <1>2, <1>3, <1>5 DEF Settles, Behind, Grown
<1>8. (task[t].at \in {"closing", "done"} =>
        /\ task[t].result # "none"
        /\ task[t].result # "Failed" =>
             \E i \in 1..Len(journal.sent) : Completes(i, t))'
  BY <1>4, <1>5 DEF Settles
<1>9. (task[t].at = "cancelled" => control = "Cancelled")'
        /\ (t \in acted => task[t].at # "idle")'
  BY <1>5 DEF Settles
<1> QED
  BY <1>6, <1>7, <1>8, <1>9 DEF Settles

(* A step on its way has nothing to settle. *)
LEMMA SettlesOnWay ==
  ASSUME NEW t \in Steps,
         task'[t].at \notin {"idle", "closing", "done", "cancelled"}
  PROVE  Settles(t)'
BY DEF Settles

(* The result of a step that failed without having run. *)
LEMMA SettlesFailed ==
  ASSUME NEW t \in Steps, task'[t].at = "done", task'[t].result = "Failed",
         journal'.poisoned
  PROVE  Settles(t)'
BY DEF Settles

LEMMA ConcludesRecords ==
  ASSUME Typed, NEW s \in Steps, Concludes(s)
  PROVE  /\ Len(journal'.sent) = Len(journal.sent) + 1
         /\ task'[s].ticket = Len(journal'.sent)
         /\ Completes(Len(journal.sent), s)'
         /\ outcomes'[s] \in Outcomes /\ task'[s].result \in Outcomes
         /\ \A t \in Steps : t # s => outcomes'[t] = outcomes[t]
         /\ Len(journal.sent) \in Nat
         /\ Logged' /\ Grown
<1>1. PICK o \in Outcomes :
        /\ task'[s].result = o
        /\ outcomes' = [outcomes EXCEPT ![s] = o]
        /\ journal' = Queue(<<Completion(s, o)>>)
  BY DEF Concludes
<1>2. Logged /\ outcomes \in [Steps -> Outcomes \cup {"none"}]
        /\ Completion(s, o) \in Lines
  BY DEF Typed, Lines
<1>3. /\ Len(journal'.sent) = Len(journal.sent) + 1
      /\ journal'.sent[Len(journal.sent) + 1] = Completion(s, o)
      /\ Logged' /\ Grown
  BY <1>1, <1>2, QueueOne
<1>4. Completes(Len(journal.sent), s)'
  BY <1>3 DEF Completes, Completion
<1>5. task'[s].ticket = Len(journal.sent) + 1 /\ Len(journal.sent) \in Nat
  BY <1>2, LenProperties DEF Concludes, Logged
<1> QED
  BY <1>1, <1>2, <1>3, <1>4, <1>5

LEMMA ActedWhere ==
  ASSUME NEW s \in Steps, TaskStep(s)
  PROVE  /\ acted' \subseteq acted \cup {s} /\ acted \subseteq acted'
         /\ \A t \in Steps : t # s => (t \in acted' <=> t \in acted)
BY DEF TaskStep, Enters, Asks, Admitted, Refuses, Closes, Leaves, Works, Concludes

LEMMA OutcomesWhere ==
  ASSUME NEW s \in Steps, TaskStep(s)
  PROVE  \A t \in Steps : t # s => outcomes'[t] = outcomes[t]
<1>1. CASE UNCHANGED outcomes
  BY <1>1
<1>2. CASE Concludes(s)
  BY <1>2 DEF Concludes
<1> QED
  BY <1>1, <1>2 DEF TaskStep, Enters, Asks, Admitted, Refuses, Closes, Leaves, Works

LEMMA TaskStepSettles ==
  ASSUME Typed, NEW s \in Steps, TaskStep(s), \A t \in Steps : Settles(t)
  PROVE  \A t \in Steps : Settles(t)'
<1>1. Typed' /\ Grown /\ Logged /\ Logged' /\ Len(journal.sent) \in Nat
  BY TaskStepTyped, LenProperties DEF Typed, Logged
<1>2. /\ \A t \in Steps : t # s => task'[t] = task[t]
      /\ control = "Cancelled" => control' = "Cancelled"
  BY DEF TaskStep, Alone
<1>3. ASSUME NEW t \in Steps, t # s
      PROVE  Settles(t)'
  BY <1>1, <1>2, <1>3, ActedWhere, OutcomesWhere, SettlesKept
<1>4. CASE Enters(s) \/ Asks(s) \/ Admitted(s) \/ Works(s)
  <2>1. task'[s].at \notin {"idle", "closing", "done", "cancelled"}
    BY <1>4 DEF Enters, Asks, Admitted, Works, Working
  <2> QED
    BY <1>3, <2>1, SettlesOnWay
<1>5. CASE Leaves(s)
  <2>1. CASE task'[s].at \in {"gate", "backoff"}
    <3>1. task'[s].at \notin {"idle", "closing", "done", "cancelled"}
      BY <2>1
    <3> QED
      BY <1>3, <3>1, SettlesOnWay
  <2>2. CASE task'[s].at = "cancelled"
    <3>1. control' = "Cancelled"
      BY <1>2, <1>5, <2>2 DEF Leaves
    <3>2. Settles(s)'
      BY <2>2, <3>1 DEF Settles
    <3> QED
      BY <1>3, <3>2
  <2> QED
    BY <1>5, <2>1, <2>2 DEF Leaves
<1>6. CASE Refuses(s)
  <2>1. journal'.poisoned /\ task'[s].at = "done" /\ task'[s].result = "Failed"
    BY <1>6 DEF Refuses, Refused
  <2> QED
    BY <1>3, <2>1, SettlesFailed
<1>7. CASE Closes(s)
  <2>1. /\ task[s].at = "closing" /\ task[s].ticket <= journal.synced
        /\ task'[s].at = "done" /\ task'[s].result = task[s].result
        /\ UNCHANGED <<journal, acted, outcomes>>
    BY <1>7 DEF Closes, Durable
  <2>2. Heard(s) /\ task[s].ticket \in 1..Len(journal.sent) /\ Completes(task[s].ticket, s)
    BY <2>1 DEF Settles
  <2>3. task[s].ticket \in 1..journal.synced /\ task[s].result # "none"
    BY <1>1, <2>1, <2>2 DEF Settles, Logged
  <2>4. Behind(s)'
    BY <2>1, <2>2, <2>3 DEF Behind, Heard, Recorded, Completes
  <2>5. (\E i \in 1..Len(journal.sent) : Completes(i, s))'
    BY <2>1, <2>2 DEF Completes
  <2>6. Settles(s)'
    BY <2>1, <2>3, <2>4, <2>5 DEF Settles
  <2> QED
    BY <1>3, <2>6
<1>8. CASE Concludes(s)
  <2>1. /\ task'[s].ticket = Len(journal'.sent) /\ Len(journal'.sent) \in 1..Len(journal'.sent)
        /\ Completes(Len(journal.sent), s)'
        /\ outcomes'[s] \in Outcomes /\ task'[s].result \in Outcomes
    BY <1>1, <1>8, ConcludesRecords
  <2>2. Heard(s)' /\ task'[s].result # "none"
    BY <2>1 DEF Heard, Outcomes
  <2>3. task'[s].at = IF RedoSafe(s) THEN "done" ELSE "closing"
    BY <1>8 DEF Concludes
  <2>4. (task[s].at = "done" => Behind(s) \/ journal.poisoned)'
    BY <2>2, <2>3 DEF Behind, Recorded, RedoSafe
  <2>5. (task[s].at \in {"closing", "done"} =>
          /\ task[s].result # "none"
          /\ task[s].result # "Failed" => \E i \in 1..Len(journal.sent) : Completes(i, s))'
    BY <2>1, <2>2
  <2>6. (task[s].at = "closing" =>
          /\ Heard(s)
          /\ task[s].ticket \in 1..Len(journal.sent) /\ Completes(task[s].ticket, s))'
    BY <2>1, <2>2
  <2>7. task'[s].at \notin {"idle", "cancelled"}
    BY <2>3
  <2>8. Settles(s)'
    BY <2>4, <2>5, <2>6, <2>7 DEF Settles
  <2> QED
    BY <1>3, <2>8
<1> QED
  BY <1>4, <1>5, <1>6, <1>7, <1>8 DEF TaskStep

(* The Intent of a strict step is durable only if everything before it has *)
(* been heard of and recorded: had a record been refused, this one would   *)
(* have been, too.                                                         *)
LEMMA TaskStepEarlier ==
  ASSUME Typed, Shape, \A t \in Steps : Settles(t), Earlier, NEW s \in Steps, TaskStep(s)
  PROVE  Earlier'
<1>1. /\ Typed' /\ Grown /\ Logged /\ Logged' /\ Len(journal.sent) \in Nat
      /\ main' = main /\ main \in MainState /\ task[s].at \notin Stopped
      /\ main.at \in {"batch", "serial"} => \A t \in Steps : t < main.next => task[t].at = "done"
  BY TaskStepTyped, LenProperties DEF Typed, Logged, TaskStep, Alone, Shape
<1>2. \/ main.at = "batch" /\ s \in main.next..main.mark
      \/ main.at = "serial" /\ s = main.next
  <2>1. task[s].at \notin Stopped
    BY <1>1
  <2> QED
    BY <2>1, RunningWhere
<1>3. main.next \in Nat /\ main.next <= s /\ s \in Nat
  BY <1>1, <1>2, SizeOfPlan DEF MainState
<1>4. SUFFICES ASSUME NEW t \in 1..(main.next - 1)
               PROVE  /\ main.at = "batch" => Recorded(t)' \/ main.mark = main.next - 1
                      /\ main.at = "serial" /\ RedoSafe(main.next) => Recorded(t)'
                      /\ main.at = "serial" /\ ~RedoSafe(main.next) =>
                           /\ task'[main.next].at \in Working => Behind(t)'
                           /\ task'[main.next].at = "intent" =>
                                Behind(t)' \/ Unheard(task[main.next].ticket)'
  <2>1. RedoSafe(main.next)' <=> RedoSafe(main.next)
    BY <1>1 DEF RedoSafe
  <2>2. main'.at # "window" /\ main' = main
    BY <1>1, <1>2
  <2> QED
    BY <1>4, <2>1, <2>2 DEF Earlier
<1>5. t \in Steps /\ t # s /\ t < main.next
  BY <1>1, <1>2, <1>3, SizeOfPlan
<1>6. /\ Recorded(t) => Recorded(t)'
      /\ Behind(t) => Behind(t)'
  <2>1. outcomes'[t] = outcomes[t] /\ (t \in acted' => t \in acted)
    BY <1>5, OutcomesWhere, ActedWhere
  <2>2. Recorded(t) => Recorded(t)'
    BY <1>1, <1>5, <2>1, RecordedStays
  <2> QED
    BY <2>1, <2>2 DEF Behind, Heard
<1>7. (main.at = "batch" => Recorded(t) \/ main.mark = main.next - 1)
        /\ (main.at = "serial" /\ RedoSafe(main.next) => Recorded(t))
        /\ (main.at = "serial" /\ ~RedoSafe(main.next) =>
             /\ task[main.next].at \in Working => Behind(t)
             /\ task[main.next].at = "intent" =>
                  Behind(t) \/ Unheard(task[main.next].ticket))
  BY <1>4 DEF Earlier
<1>8. ASSUME main.at = "serial", ~RedoSafe(main.next)
      PROVE  /\ task'[s].at \in Working => Behind(t)'
             /\ task'[s].at = "intent" => Behind(t)' \/ Unheard(task[s].ticket)'
  <2>1. s = main.next /\ ~task[s].named /\ task[t].at = "done"
    BY <1>1, <1>2, <1>5, <1>8 DEF Shape, SerialShape
  <2>2. CASE Enters(s)
    BY <2>1, <2>2 DEF Enters
  <2>3. CASE Asks(s)
    <3>1. /\ task'[s].at = "intent" /\ task'[s].ticket = Len(journal.sent) + 1
          /\ journal' = Queue(<<Intent(s, PartialOf(s, task'[s].attempt))>>)
      BY <2>3 DEF Asks
    <3>2. journal'.synced = journal.synced /\ journal'.poisoned = journal.poisoned
      BY <3>1 DEF Queue, Logged, Typed
    <3>3. task'[s].ticket > journal'.synced
      BY <1>1, <3>1, <3>2 DEF Logged
    <3>4. Behind(t) \/ journal.poisoned
      BY <1>5, <2>1 DEF Settles
    <3>5. task'[s].at \notin Working
      BY <3>1 DEF Working
    <3> QED
      BY <1>6, <3>1, <3>2, <3>3, <3>4, <3>5 DEF Unheard
  <2>4. CASE Admitted(s)
    <3>1. task[s].at = "intent" /\ task[s].ticket <= journal.synced /\ task'[s].at = "run"
      BY <2>4 DEF Admitted, Durable
    <3>2. ~Unheard(task[s].ticket)
      <4>1. task[s].ticket \in Nat /\ journal.synced \in Nat
        BY <1>1 DEF Typed, TaskState, Logged
      <4> QED
        BY <3>1, <4>1 DEF Unheard
    <3> QED
      BY <1>6, <1>7, <1>8, <2>1, <3>1, <3>2
  <2>5. CASE Works(s)
    <3>1. task[s].at \in Working /\ task'[s].at \in Working
      BY <2>5 DEF Works
    <3>2. task'[s].at # "intent"
      BY <3>1 DEF Working
    <3> QED
      BY <1>6, <1>7, <1>8, <2>1, <3>1, <3>2
  <2>6. CASE Refuses(s) \/ Closes(s) \/ Leaves(s) \/ Concludes(s)
    <3>1. task'[s].at \notin Working \cup {"intent"}
      BY <2>6 DEF Refuses, Closes, Leaves, Concludes, Working
    <3> QED
      BY <3>1
  <2> QED
    BY <2>2, <2>3, <2>4, <2>5, <2>6 DEF TaskStep
<1>9. main.at = "serial" => s = main.next
  BY <1>2
<1>10. main.at = "serial" /\ ~RedoSafe(main.next) =>
         /\ task'[main.next].at \in Working => Behind(t)'
         /\ task'[main.next].at = "intent" =>
              Behind(t)' \/ Unheard(task[main.next].ticket)'
  BY <1>1, <1>8, <1>9 DEF Unheard
<1>11. /\ main.at = "batch" => Recorded(t)' \/ main.mark = main.next - 1
       /\ main.at = "serial" /\ RedoSafe(main.next) => Recorded(t)'
  BY <1>6, <1>7
<1> QED
  BY <1>10, <1>11

(* What a step that changes the file system finds behind it, and, if it is *)
(* strict, ahead of it.                                                    *)
LEMMA WorkingBehind ==
  ASSUME Typed, Shape, \A t \in Steps : Settles(t), Earlier,
         NEW s \in Steps, task[s].at \in Working
  PROVE  /\ \A t \in Steps : t < s => Recorded(t)
         /\ ~RedoSafe(s) =>
              /\ \A t \in acted : t <= s
              /\ \A t \in Steps : t < s => Heard(t) /\ task[t].at = "done"
<1>1. task[s].at \notin Stopped /\ main \in MainState
  BY DEF Working, Stopped, Shape
<1>2. \/ main.at = "batch" /\ s \in main.next..main.mark
      \/ main.at = "serial" /\ s = main.next
  BY <1>1, RunningWhere
<1>3. main.next \in Nat /\ main.mark \in Nat /\ s \in Nat /\ main.next <= s /\ main.hi \in Nat
  BY <1>1, <1>2, SizeOfPlan DEF MainState
<1>4. \A t \in Steps : t < main.next => t \in 1..(main.next - 1)
  BY <1>3, SizeOfPlan
<1>5. CASE main.at = "batch"
  <2>1. s \in main.next..main.mark /\ main.mark <= main.hi /\ CopyClass(main.next) /\ Group
    BY <1>1, <1>2, <1>5 DEF Shape, BatchShape, MainState
  <2>2. RedoSafe(main.next)
    BY <2>1 DEF RedoSafe, CopyClass
  <2>3. \A t \in main.next..main.hi : RedoSafe(t)
    BY <2>1, <2>2 DEF Group
  <2>4. RedoSafe(s)
    BY <1>3, <2>1, <2>3
  <2>5. ASSUME NEW t \in Steps, t < s
        PROVE  Recorded(t)
    <3>1. CASE t < main.next
      BY <1>3, <1>4, <1>5, <2>1, <3>1 DEF Earlier
    <3>2. CASE t >= main.next
      <4>1. t \in main.next..main.hi
        BY <1>3, <2>1, <2>5, <3>2, SizeOfPlan
      <4> QED
        BY <2>3, <4>1 DEF Recorded
    <3> QED
      BY <1>3, <3>1, <3>2, SizeOfPlan
  <2> QED
    BY <2>4, <2>5
<1>6. CASE main.at = "serial" /\ RedoSafe(main.next)
  BY <1>2, <1>4, <1>6 DEF Earlier
<1>7. CASE main.at = "serial" /\ ~RedoSafe(main.next)
  <2>1. s = main.next
    BY <1>2, <1>7
  <2>2. \A t \in Steps : t < s => Behind(t) /\ task[t].at = "done"
    BY <1>4, <1>7, <2>1 DEF Earlier, Shape
  <2>3. main.hi = s /\ \A t \in Steps : t > s => Fresh(t)
    BY <1>7, <2>1 DEF Shape, Group
  <2>4. ASSUME NEW t \in acted
        PROVE  t <= s
    <3>1. t \in Steps /\ task[t].at # "idle"
      BY DEF Typed, Settles
    <3> QED
      BY <1>3, <2>3, <3>1, SizeOfPlan DEF Fresh
  <2> QED
    BY <2>2, <2>4 DEF Behind
<1> QED
  BY <1>2, <1>5, <1>6, <1>7

LEMMA ActsWorking ==
  ASSUME NEW s \in Steps, TaskStep(s), acted' # acted
  PROVE  /\ acted' = acted \cup {s} /\ task[s].at \in Working
         /\ Plan[s].kind = "Remove" => ~Blocked(s)
BY DEF TaskStep, Enters, Asks, Admitted, Refuses, Closes, Leaves, Works, Concludes

LEMMA TaskStepLastActed ==
  ASSUME Typed, Shape, \A t \in Steps : Settles(t), Earlier, LastActed,
         NEW s \in Steps, TaskStep(s)
  PROVE  LastActed'
<1>1. /\ Typed' /\ Grown /\ Logged /\ Logged'
      /\ acted \subseteq Steps /\ acted' \subseteq Steps
  BY TaskStepTyped DEF Typed
<1>2. SUFFICES ASSUME NEW s0 \in acted', ~Recorded(s0)', NEW t \in acted'
               PROVE  t <= s0
  BY DEF LastActed
<1>3. s0 \in Steps /\ t \in Steps /\ s0 \in Nat /\ t \in Nat /\ s \in Nat
  BY <1>1, SizeOfPlan
<1>4. s0 \in acted => ~Recorded(s0)
  BY <1>1, <1>2, <1>3, RecordedStays
<1>5. CASE acted' = acted
  BY <1>2, <1>4, <1>5 DEF LastActed
<1>6. CASE acted' # acted
  <2>1. acted' = acted \cup {s} /\ task[s].at \in Working /\ s \notin acted
    BY <1>6, ActsWorking
  <2>2. /\ \A u \in Steps : u < s => Recorded(u)
        /\ ~RedoSafe(s) => \A u \in acted : u <= s
    BY <2>1, WorkingBehind
  <2>3. CASE s0 \in acted
    <3>1. ~(s0 < s)
      BY <1>3, <1>4, <2>2, <2>3
    <3>2. t \in acted => t <= s0
      BY <1>4, <2>3 DEF LastActed
    <3> QED
      BY <1>3, <2>1, <3>1, <3>2
  <2>4. CASE s0 = s
    <3>1. ~RedoSafe(s)
      BY <1>2, <2>4 DEF Recorded, RedoSafe
    <3> QED
      BY <1>3, <2>1, <2>2, <2>4, <3>1
  <2> QED
    BY <2>1, <2>3, <2>4
<1> QED
  BY <1>5, <1>6

LEMMA TaskStepGated ==
  ASSUME Typed, Shape, \A t \in Steps : Settles(t), Earlier, Gated,
         NEW s \in Steps, TaskStep(s)
  PROVE  Gated'
<1>1. SUFFICES ASSUME NEW r \in acted', Plan[r].kind = "Remove", Plan[r].dep # 0
               PROVE  /\ task'[Plan[r].dep].at = "done"
                      /\ outcomes'[Plan[r].dep] \in {"Succeeded", "Skipped"}
  BY DEF Gated
<1>2. r \in Steps /\ task[s].at \notin Stopped
  BY TaskStepTyped DEF Typed, TaskStep, Alone
<1>3. Plan[r].dep \in Steps /\ Plan[r].dep < r
  BY <1>1, <1>2, PlanParts
<1> DEFINE dep == Plan[r].dep
<1>4. task[dep].at = "done" /\ outcomes[dep] \in {"Succeeded", "Skipped"}
  <2>1. CASE r \in acted
    BY <1>1, <2>1 DEF Gated
  <2>2. CASE r \notin acted
    <3>1. r = s /\ task[s].at \in Working /\ ~Blocked(s)
      BY <1>1, <2>2, ActsWorking
    <3>2. ~RedoSafe(s)
      BY <1>1, <3>1 DEF RedoSafe
    <3>3. Heard(dep) /\ task[dep].at = "done"
      BY <1>3, <3>1, <3>2, WorkingBehind
    <3>4. outcomes[dep] \in Outcomes \cup {"none"}
      BY <1>3 DEF Typed
    <3> QED
      BY <1>1, <3>1, <3>3, <3>4 DEF Blocked, Heard, Outcomes
  <2> QED
    BY <2>1, <2>2
<1>5. dep # s
  BY <1>2, <1>4 DEF Stopped
<1>6. task'[dep] = task[dep] /\ outcomes'[dep] = outcomes[dep]
  BY <1>3, <1>5, OutcomesWhere DEF TaskStep, Alone
<1> QED
  BY <1>4, <1>6

LEMMA BoundedKept ==
  ASSUME Logged, Logged', Grown, Bounded,
         \/ /\ Len(journal'.sent) = Len(journal.sent)
            /\ main.at \in {"finishing", "ended"} => main'.at \in {"finishing", "ended"}
         \/ /\ main.at \notin {"finishing", "ended"}
            /\ \A i \in (Len(journal.sent) + 1)..Len(journal'.sent) :
                 journal'.sent[i].type \in {"Intent", "Completion"}
  PROVE  Bounded'
<1>1. /\ Len(journal.sent) \in Nat /\ Len(journal'.sent) \in Nat
      /\ Len(journal.sent) <= Len(journal'.sent)
      /\ \A i \in 1..Len(journal.sent) : journal'.sent[i] = journal.sent[i]
  BY LenProperties DEF Logged, Grown
<1>2. \A t \in Steps : \A j \in 1..Len(journal.sent) : Completes(j, t) => Completes(j, t)'
  BY <1>1 DEF Completes
<1>3. ASSUME NEW i \in 1..Len(journal'.sent)
      PROVE  /\ journal'.sent[i].type = "JobStarted" <=> i = 1
             /\ Ends(i)' =>
                  /\ i = Len(journal'.sent) /\ main'.at \in {"finishing", "ended"}
                  /\ journal'.sent[i].outcome \in {"Completed", "CompletedWithSkips"} =>
                       \A t \in Steps : \E j \in 1..(i - 1) : Completes(j, t)'
  <2>1. CASE i \in 1..Len(journal.sent)
    <3>1. /\ journal'.sent[i] = journal.sent[i] /\ (Ends(i)' <=> Ends(i))
          /\ journal.sent[i].type = "JobStarted" <=> i = 1
      BY <1>1, <2>1 DEF Ends, Bounded
    <3>2. ASSUME Ends(i)
          PROVE  /\ i = Len(journal'.sent) /\ main'.at \in {"finishing", "ended"}
                 /\ journal'.sent[i].outcome \in {"Completed", "CompletedWithSkips"} =>
                      \A t \in Steps : \E j \in 1..(i - 1) : Completes(j, t)'
      <4>1. /\ i = Len(journal.sent) /\ main.at \in {"finishing", "ended"}
            /\ journal.sent[i].outcome \in {"Completed", "CompletedWithSkips"} =>
                 \A t \in Steps : \E j \in 1..(i - 1) : Completes(j, t)
        BY <2>1, <3>2 DEF Bounded
      <4>2. i - 1 \in 0..Len(journal.sent) /\ 1..(i - 1) \subseteq 1..Len(journal.sent)
        BY <1>1, <2>1
      <4>3. i = Len(journal'.sent) /\ main'.at \in {"finishing", "ended"}
        BY <4>1
      <4> QED
        BY <1>2, <3>1, <4>1, <4>2, <4>3
    <3> QED
      BY <3>1, <3>2
  <2>2. CASE i \notin 1..Len(journal.sent)
    <3>1. i \in (Len(journal.sent) + 1)..Len(journal'.sent)
      BY <1>1, <2>2
    <3>2. journal'.sent[i].type \in {"Intent", "Completion"}
      BY <1>1, <3>1
    <3>3. Len(journal.sent) >= 1
      BY DEF Bounded
    <3> QED
      BY <1>1, <3>1, <3>2, <3>3 DEF Ends
  <2> QED
    BY <2>1, <2>2
<1>4. Len(journal'.sent) >= 1
  BY <1>1 DEF Bounded
<1> QED
  BY <1>3, <1>4 DEF Bounded

LEMMA TaskStepBounded ==
  ASSUME Typed, Shape, Bounded, OutcomeIsReported, Outcomed, NEW s \in Steps, TaskStep(s)
  PROVE  Bounded' /\ OutcomeIsReported' /\ Outcomed'
<1>1. /\ Grown /\ Logged /\ Logged' /\ main' = main /\ task[s].at \notin Stopped
  BY TaskStepTyped DEF Typed, TaskStep, Alone
<1>2. main.at \in {"batch", "serial"}
  BY <1>1, RunningWhere
<1>3. OutcomeIsReported' /\ Outcomed'
  BY <1>1, <1>2 DEF OutcomeIsReported, Outcomed
<1>4. \/ journal' = journal
      \/ /\ Len(journal'.sent) = Len(journal.sent) + 1
         /\ journal'.sent[Len(journal.sent) + 1].type \in {"Intent", "Completion"}
  <2>1. CASE Asks(s)
    <3>1. task'[s].attempt \in Nat
      BY <2>1 DEF TaskStep, Alone, TaskState
    <3>2. PartialOf(s, task'[s].attempt) \in Nat
      BY <3>1 DEF PartialOf
    <3>3. Intent(s, PartialOf(s, task'[s].attempt)) \in Lines
      BY <3>2 DEF Lines
    <3> QED
      BY <1>1, <2>1, <3>3, QueueOne DEF Asks, Intent
  <2>2. CASE Concludes(s)
    <3>1. PICK o \in Outcomes : journal' = Queue(<<Completion(s, o)>>)
      BY <2>2 DEF Concludes
    <3>2. Completion(s, o) \in Lines
      BY DEF Lines
    <3> QED
      BY <1>1, <3>1, <3>2, QueueOne DEF Completion
  <2> QED
    BY <2>1, <2>2 DEF TaskStep, Enters, Admitted, Refuses, Closes, Leaves, Works
<1>5. Len(journal.sent) \in Nat
  BY <1>1, LenProperties DEF Logged
<1>6. \A i \in (Len(journal.sent) + 1)..Len(journal'.sent) :
        journal'.sent[i].type \in {"Intent", "Completion"}
  BY <1>4, <1>5
<1>7. main.at \notin {"finishing", "ended"}
  BY <1>2
<1> QED
  BY <1>1, <1>3, <1>6, <1>7, BoundedKept

LEMMA TaskStepOrder ==
  ASSUME OrderInv, NEW s \in Steps, TaskStep(s)
  PROVE  OrderInv'
<1>1. /\ Typed /\ Shape /\ \A t \in Steps : Settles(t)
      /\ Earlier /\ LastActed /\ Gated /\ Bounded /\ OutcomeIsReported /\ Outcomed
  BY DEF OrderInv
<1>2. Typed' /\ Shape'
  BY <1>1, TaskStepTyped, TaskStepShape
<1>3. \A t \in Steps : Settles(t)'
  BY <1>1, TaskStepSettles
<1>4. Earlier' /\ LastActed' /\ Gated'
  BY <1>1, TaskStepEarlier, TaskStepLastActed, TaskStepGated
<1>5. Bounded' /\ OutcomeIsReported' /\ Outcomed'
  BY <1>1, TaskStepBounded
<1> QED
  BY <1>2, <1>3, <1>4, <1>5 DEF OrderInv

-----------------------------------------------------------------------------
(* The same for the loop, which changes nothing of the file system and     *)
(* leaves a step that is done where it is.                                 *)
LEMMA LastActedKept ==
  ASSUME Typed, Typed', Grown, LastActed, acted' = acted
  PROVE  LastActed'
<1>1. Logged /\ Logged' /\ acted \subseteq Steps
  BY DEF Typed
<1>2. ASSUME NEW s \in acted, ~Recorded(s)'
      PROVE  ~Recorded(s)
  BY <1>1, <1>2, RecordedStays
<1> QED
  BY <1>2 DEF LastActed

LEMMA GatedKept ==
  ASSUME Typed, Gated, UNCHANGED <<acted, outcomes>>,
         \A t \in Steps : task[t].at = "done" => task'[t].at = "done"
  PROVE  Gated'
<1>1. ASSUME NEW s \in acted, Plan[s].kind = "Remove", Plan[s].dep # 0
      PROVE  /\ task'[Plan[s].dep].at = "done"
             /\ outcomes[Plan[s].dep] \in {"Succeeded", "Skipped"}
  <2>1. Plan[s].dep \in Steps
    BY <1>1, PlanParts DEF Typed
  <2> QED
    BY <1>1, <2>1 DEF Gated
<1> QED
  BY <1>1 DEF Gated

LEMMA SettlesIdle ==
  ASSUME NEW t \in Steps, task'[t].at = "idle", t \notin acted'
  PROVE  Settles(t)'
BY DEF Settles

LEMMA IdleUnacted ==
  ASSUME NEW t \in Steps, Settles(t), task[t].at = "idle"
  PROVE  t \notin acted
BY DEF Settles

LEMMA EarlierKept ==
  ASSUME Typed, Typed', Shape, Grown, Earlier,
         UNCHANGED <<acted, outcomes, task>>, UNCHANGED main
  PROVE  Earlier'
<1>1. Logged /\ Logged' /\ main \in MainState
  BY DEF Typed, Shape
<1>2. \A t \in Steps : (Recorded(t) => Recorded(t)') /\ (Behind(t) => Behind(t)')
  BY <1>1, RecordedStays DEF Behind, Heard
<1>3. \A n \in Nat : Unheard(n) => Unheard(n)'
  BY <1>1, UnheardStays
<1>4. main.ticket \in Nat /\ \A t \in 1..(main.next - 1) : t \in Steps
  BY <1>1, SizeOfPlan DEF MainState
<1>5. (main.at = "window" => \A t \in 1..(main.next - 1) :
         Recorded(t) \/ (Unheard(main.ticket) /\ WindowStart = main.next))'
  <2>1. WindowStart' = WindowStart
    BY DEF WindowStart
  <2>2. Unheard(main.ticket) => Unheard(main.ticket)'
    BY <1>3, <1>4 DEF Unheard
  <2> QED
    BY <1>2, <1>4, <2>1, <2>2 DEF Earlier
<1>6. /\ (main.at = "batch" => \A t \in 1..(main.next - 1) :
            Recorded(t) \/ main.mark = main.next - 1)'
      /\ (main.at = "serial" /\ RedoSafe(main.next) =>
            \A t \in 1..(main.next - 1) : Recorded(t))'
  BY <1>2, <1>4 DEF Earlier, RedoSafe
<1>7. (main.at = "serial" /\ ~RedoSafe(main.next) => \A t \in 1..(main.next - 1) :
         /\ task[main.next].at \in Working => Behind(t)
         /\ task[main.next].at = "intent" =>
              Behind(t) \/ Unheard(task[main.next].ticket))'
  <2>1. SUFFICES ASSUME main.at = "serial", ~RedoSafe(main.next),
                        NEW t \in 1..(main.next - 1)
                 PROVE  /\ task[main.next].at \in Working => Behind(t)'
                        /\ task[main.next].at = "intent" =>
                             Behind(t)' \/ Unheard(task[main.next].ticket)'
    BY DEF RedoSafe
  <2>2. t \in Steps /\ main.next \in Steps
    <3>1. main.next <= main.hi
      BY <2>1 DEF Shape, Group
    <3> QED
      BY <1>1, <1>4, <2>1, <3>1, SizeOfPlan DEF MainState
  <2>3. task[main.next].ticket \in Nat
    BY <2>2 DEF Typed, TaskState
  <2>4. Unheard(task[main.next].ticket) => Unheard(task[main.next].ticket)'
    BY <1>3, <2>3 DEF Unheard
  <2> QED
    BY <1>2, <2>1, <2>2, <2>4 DEF Earlier
<1> QED
  BY <1>5, <1>6, <1>7 DEF Earlier

LEMMA AsideOrder ==
  ASSUME OrderInv,
         \/ Writer \/ BatchFails
         \/ Pause \/ Resume \/ Cancel \/ UNCHANGED vars
  PROVE  OrderInv'
<1>1. /\ Typed /\ Shape /\ \A t \in Steps : Settles(t)
      /\ Earlier /\ LastActed /\ Gated /\ Bounded /\ OutcomeIsReported /\ Outcomed
  BY DEF OrderInv
<1>2. /\ Typed' /\ Shape' /\ Grown
      /\ UNCHANGED <<acted, task, outcomes, main>>
      /\ control = "Cancelled" => control' = "Cancelled"
      /\ journal'.sent = journal.sent
  <2>1. CASE Writer \/ BatchFails
    <3>1. UNCHANGED <<acted, task, outcomes, main, control>>
      BY <2>1 DEF Writer, WriteBatch, SyncBatch, BatchFails, fs
    <3>2. journal'.sent = journal.sent
      BY <1>1, <2>1, WriterShape DEF Typed, Writer
    <3> QED
      BY <1>1, <2>1, <3>1, <3>2, WriterKeeps
  <2>2. CASE Pause \/ Resume \/ Cancel \/ UNCHANGED vars
    BY <1>1, <2>2, CallersKeep
  <2> QED
    BY <2>1, <2>2
<1>3. Logged /\ Logged' /\ UNCHANGED main /\ UNCHANGED task
  BY <1>1, <1>2 DEF Typed
<1>4. \A t \in Steps : Settles(t)'
  BY <1>1, <1>2, SettlesKept
<1>5. Earlier' /\ LastActed' /\ Gated'
  BY <1>1, <1>2, EarlierKept, LastActedKept, GatedKept
<1>6. Bounded'
  BY <1>1, <1>2, <1>3, BoundedKept
<1>7. OutcomeIsReported' /\ Outcomed'
  BY <1>1, <1>2, <1>3 DEF OutcomeIsReported, Outcomed
<1> QED
  BY <1>2, <1>4, <1>5, <1>6, <1>7 DEF OrderInv

LEMMA MovesOrder ==
  ASSUME OrderInv,
         \/ StartDurable \/ StartRefused \/ FinishAnswered
         \/ BatchEnds /\ main'.at # "finishing"
  PROVE  OrderInv'
<1>1. /\ Typed /\ Shape /\ \A t \in Steps : Settles(t)
      /\ Earlier /\ LastActed /\ Gated /\ Bounded /\ OutcomeIsReported /\ Outcomed
      /\ main \in MainState
  BY DEF OrderInv, Shape
<1>2. Typed' /\ Shape' /\ Grown
  BY <1>1, MovesShape, BatchNextShape
<1>3. /\ UNCHANGED <<acted, journal, control, task, outcomes>>
      /\ main'.outcome = main.outcome
      /\ main'.at \in {"loop", "ended"}
      /\ main.at \in {"finishing", "ended"} => main'.at = "ended"
  <2>1. CASE StartDurable \/ StartRefused \/ FinishAnswered
    BY <1>1, <2>1 DEF StartDurable, StartRefused, FinishAnswered, Moves, fs, MainState
  <2>2. CASE BatchEnds /\ main'.at # "finishing"
    <3>1. /\ main' = [main EXCEPT !.at = "loop", !.next = main.hi + 1]
          /\ UNCHANGED journal
      BY <1>1, <2>2 DEF BatchEnds, Finish, MainState
    <3>2. main.at = "batch" /\ UNCHANGED <<acted, control, task, outcomes>>
      BY <2>2 DEF BatchEnds, fs
    <3> QED
      BY <1>1, <3>1, <3>2 DEF MainState
  <2> QED
    BY <2>1, <2>2
<1>4. Logged /\ Logged' /\ UNCHANGED task
  BY <1>1, <1>2, <1>3 DEF Typed
<1>5. \A t \in Steps : Settles(t)'
  BY <1>1, <1>2, <1>3, SettlesKept
<1>6. Earlier'
  BY <1>3 DEF Earlier
<1>7. LastActed' /\ Gated'
  BY <1>1, <1>2, <1>3, LastActedKept, GatedKept
<1>8. Bounded'
  BY <1>1, <1>2, <1>3, <1>4, BoundedKept
<1>9. OutcomeIsReported' /\ Outcomed'
  BY <1>1, <1>3 DEF OutcomeIsReported, Outcomed
<1> QED
  BY <1>2, <1>5, <1>6, <1>7, <1>8, <1>9 DEF OrderInv

(* How a job finishes: cancelled, or with every step done. *)
LEMMA FinishWhy ==
  ASSUME Shape, \A t \in Steps : Settles(t),
         \/ LoopDone \/ LoopCancelled \/ SerialCancelled
         \/ BatchEnds /\ main'.at = "finishing"
  PROVE  \E cancelled \in BOOLEAN :
           /\ Finish(cancelled)
           /\ cancelled => control = "Cancelled"
           /\ ~cancelled => \A t \in Steps : task[t].at = "done"
           /\ main.at \notin {"finishing", "ended"}
           /\ UNCHANGED <<fs, control, sticky, task, outcomes>>
<1>1. main \in MainState
  BY DEF Shape
<1>2. CASE LoopDone
  <2>1. main.at = "loop" /\ main.next > Len(Plan) /\ Finish(FALSE)
          /\ UNCHANGED <<fs, control, sticky, task, outcomes>>
    BY <1>2 DEF LoopDone
  <2>2. \A t \in Steps : task[t].at = "done"
    BY <1>1, <2>1, SizeOfPlan DEF Shape, MainState
  <2> QED
    BY <2>1, <2>2
<1>3. CASE LoopCancelled
  BY <1>3 DEF LoopCancelled, Turn
<1>4. CASE SerialCancelled
  <2>1. main.at = "serial" /\ main.next \in Steps /\ task[main.next].at = "cancelled"
          /\ Finish(TRUE) /\ UNCHANGED <<fs, control, sticky, task, outcomes>>
    <3>1. main.at = "serial" /\ main.next <= main.hi
      BY <1>4 DEF SerialCancelled, Shape, Group
    <3>2. main.next \in Steps
      BY <1>1, <3>1, SizeOfPlan DEF MainState
    <3> QED
      BY <1>4, <3>1, <3>2 DEF SerialCancelled, At
  <2> QED
    BY <2>1 DEF Settles
<1>5. CASE BatchEnds /\ main'.at = "finishing"
  <2>1. main.at = "batch" /\ main.mark \in 0..Len(Plan) /\ main.next \in 1..(Len(Plan) + 1)
    BY <1>1, <1>5 DEF BatchEnds, MainState
  <2>2. PICK s \in main.next..main.mark : At(s, "cancelled")
    BY <1>1, <1>5, <2>1 DEF BatchEnds, MainState
  <2>3. s \in Steps
    BY <2>1, SizeOfPlan
  <2>4. Finish(TRUE) /\ UNCHANGED <<fs, control, sticky, task, outcomes>>
    BY <1>5, <2>2 DEF BatchEnds
  <2> QED
    BY <2>1, <2>2, <2>3, <2>4 DEF Settles, At
<1> QED
  BY <1>2, <1>3, <1>4, <1>5

LEMMA FinishOrder ==
  ASSUME OrderInv,
         \/ LoopDone \/ LoopCancelled \/ SerialCancelled
         \/ BatchEnds /\ main'.at = "finishing"
  PROVE  OrderInv'
<1>1. /\ Typed /\ Shape /\ \A t \in Steps : Settles(t)
      /\ Earlier /\ LastActed /\ Gated /\ Bounded /\ OutcomeIsReported /\ Outcomed
  BY DEF OrderInv
<1>2. Typed' /\ Shape' /\ Grown
  BY <1>1, FinishingShape
<1>3. PICK cancelled \in BOOLEAN :
        /\ Finish(cancelled)
        /\ cancelled => control = "Cancelled"
        /\ ~cancelled => \A t \in Steps : task[t].at = "done"
        /\ main.at \notin {"finishing", "ended"}
        /\ UNCHANGED <<fs, control, sticky, task, outcomes>>
  BY <1>1, FinishWhy
<1> DEFINE verdict == OutcomeOf(cancelled)
           last == Len(journal.sent) + 1
<1>4. /\ Logged /\ Logged' /\ UNCHANGED <<acted, task, outcomes, control>>
      /\ main'.at = "finishing" /\ main'.outcome = verdict /\ verdict \in Verdicts
      /\ Len(journal'.sent) = last /\ journal'.sent[last] = JobFinished(verdict)
      /\ Len(journal.sent) \in Nat
      /\ \A i \in 1..Len(journal.sent) : journal'.sent[i] = journal.sent[i]
  <2>1. verdict \in Verdicts
    BY DEF OutcomeOf, Verdicts
  <2>2. JobFinished(verdict) \in Lines
    BY <2>1 DEF Lines
  <2> HIDE DEF verdict
  <2>3. journal' = Queue(<<JobFinished(verdict)>>)
    BY <1>3 DEF Finish, verdict
  <2>4. main'.at = "finishing" /\ main'.outcome = verdict
    BY <1>1, <1>3 DEF Finish, Shape, MainState, verdict
  <2>5. Logged /\ Logged' /\ Len(journal.sent) \in Nat
    BY <1>1, <1>2, LenProperties DEF Typed, Logged
  <2>6. Len(journal'.sent) = last /\ journal'.sent[last] = JobFinished(verdict)
    BY <2>2, <2>3, <2>5, QueueOne
  <2> QED
    BY <1>2, <1>3, <2>1, <2>4, <2>5, <2>6 DEF Grown, fs
<1>5. \A t \in Steps : Settles(t)'
  BY <1>1, <1>2, <1>4, SettlesKept
<1>6. Earlier'
  BY <1>4 DEF Earlier
<1>7. LastActed' /\ Gated'
  BY <1>1, <1>2, <1>4, LastActedKept, GatedKept
<1>8. /\ verdict = "Cancelled" <=> cancelled
      /\ verdict \in {"Completed", "CompletedWithSkips"} =>
           \A t \in Steps : task[t].result \in {"Succeeded", "Skipped"}
      /\ verdict = "Completed" => \A t \in Steps : task[t].result = "Succeeded"
  <2>1. ~cancelled => \A t \in Steps : task[t].result \in Outcomes
    BY <1>1, <1>3 DEF Settles, Typed, TaskState
  <2>2. verdict = "Cancelled" <=> cancelled
    BY DEF OutcomeOf
  <2>3. verdict \in {"Completed", "CompletedWithSkips"} =>
           \A t \in Steps : task[t].result \in {"Succeeded", "Skipped"}
    BY <2>1 DEF OutcomeOf, Outcomes
  <2>4. verdict = "Completed" => \A t \in Steps : task[t].result = "Succeeded"
    BY <2>1 DEF OutcomeOf, Outcomes
  <2> QED
    BY <2>2, <2>3, <2>4
<1>9. OutcomeIsReported' /\ Outcomed'
  BY <1>3, <1>4, <1>8 DEF OutcomeIsReported, Outcomed
<1>10. Bounded'
  <2>1. verdict \in {"Completed", "CompletedWithSkips"} =>
          \A t \in Steps : \E j \in 1..Len(journal.sent) : Completes(j, t)'
    <3>1. SUFFICES ASSUME verdict \in {"Completed", "CompletedWithSkips"}, NEW t \in Steps
                   PROVE  \E j \in 1..Len(journal.sent) : Completes(j, t)'
      OBVIOUS
    <3>2. task[t].at = "done" /\ task[t].result # "Failed"
      BY <1>3, <1>8, <3>1
    <3>3. PICK j \in 1..Len(journal.sent) : Completes(j, t)
      BY <1>1, <3>2 DEF Settles
    <3> QED
      BY <1>4, <3>3 DEF Completes
  <2> HIDE DEF verdict, last
  <2>2. ASSUME NEW i \in 1..last
        PROVE  /\ journal'.sent[i].type = "JobStarted" <=> i = 1
               /\ Ends(i)' =>
                    /\ i = last
                    /\ journal'.sent[i].outcome \in {"Completed", "CompletedWithSkips"} =>
                         \A t \in Steps : \E j \in 1..(i - 1) : Completes(j, t)'
    <3>1. last - 1 = Len(journal.sent) /\ last = Len(journal.sent) + 1
            /\ Len(journal.sent) >= 1
      BY <1>1, <1>4 DEF last, Bounded
    <3>2. CASE i = last
      <4>1. journal'.sent[i].type = "JobFinished" /\ journal'.sent[i].outcome = verdict
        BY <1>4, <3>2 DEF JobFinished
      <4>2. i - 1 = Len(journal.sent) /\ i # 1
        BY <1>4, <3>1, <3>2
      <4> QED
        BY <2>1, <3>2, <4>1, <4>2
    <3>3. CASE i # last
      <4>1. i \in 1..Len(journal.sent)
        BY <1>4, <3>1, <3>3
      <4>2. journal'.sent[i] = journal.sent[i] /\ ~Ends(i)
        BY <1>1, <1>3, <1>4, <4>1 DEF Bounded
      <4>3. journal.sent[i].type = "JobStarted" <=> i = 1
        BY <1>1, <4>1 DEF Bounded
      <4>4. ~Ends(i)'
        BY <4>2 DEF Ends
      <4> QED
        BY <4>2, <4>3, <4>4
    <3> QED
      BY <3>2, <3>3
  <2>3. Len(journal'.sent) = last /\ last >= 1 /\ main'.at = "finishing"
    BY <1>4 DEF last
  <2> QED
    BY <2>2, <2>3 DEF Bounded
<1> QED
  BY <1>2, <1>5, <1>6, <1>7, <1>9, <1>10 DEF OrderInv

(* The records of a window come after whatever the journal's disk refused. *)
LEMMA WindowOrder ==
  ASSUME OrderInv, OpenWindow \/ NextWindow
  PROVE  OrderInv'
<1>1. /\ Typed /\ Shape /\ \A t \in Steps : Settles(t)
      /\ Earlier /\ LastActed /\ Gated /\ Bounded /\ OutcomeIsReported /\ Outcomed
      /\ main \in MainState /\ Logged
  BY DEF OrderInv, Shape, Typed
<1>2. PICK first, last \in Steps, hi \in main.next..Len(Plan) :
        /\ main.next \in Nat /\ main.next <= first /\ first <= last /\ last <= hi
        /\ \A s \in main.next..hi : task[s].at = "idle"
        /\ \/ OpenWindow /\ first = main.next
           \/ NextWindow /\ first = main.mark + 1 /\ first = WindowStart + Window
        /\ main'.at = "window" /\ main'.next = main.next
        /\ main'.outcome = main.outcome
        /\ main'.ticket = Len(journal.sent) + (last - first + 1)
        /\ WindowStart' = first
        /\ Logged' /\ Grown
        /\ journal'.synced = journal.synced /\ journal'.poisoned = journal.poisoned
        /\ Len(journal'.sent) = Len(journal.sent) + (last - first + 1)
        /\ \A s \in first..last :
             journal'.sent[Len(journal.sent) + (s - first + 1)] = Intent(s, PartialOf(s, 1))
        /\ \A s \in first..last : task'[s].at = task[s].at
        /\ \A s \in Steps : s \notin first..last => task'[s] = task[s]
  BY <1>1, WindowNames
<1>3. /\ UNCHANGED <<acted, outcomes, control>>
      /\ main.at \in {"loop", "window"}
  BY DEF OpenWindow, NextWindow, Turn, fs
<1>4. Typed' /\ Shape'
  BY <1>1, WindowsShape
<1>5. first \in Nat /\ last \in Nat /\ first <= last /\ main.next \in Nat
        /\ main.next <= first /\ Len(journal.sent) \in Nat /\ last <= hi /\ hi \in Nat
  BY <1>1, <1>2, LenProperties, SizeOfPlan DEF Logged
<1>6. \A t \in Steps : t \in first..last => task[t].at = "idle" /\ task'[t].at = "idle"
  <2>1. \A t \in first..last : t \in main.next..hi
    BY <1>5
  <2> QED
    BY <1>2, <2>1
<1>7. ASSUME NEW t \in Steps
      PROVE  Settles(t)'
  <2>1. CASE t \in first..last
    BY <1>1, <1>3, <1>6, <2>1, IdleUnacted, SettlesIdle
  <2>2. CASE t \notin first..last
    <3>1. task'[t] = task[t] /\ Grown
      BY <1>2, <2>2
    <3> QED
      BY <1>1, <1>3, <1>4, <3>1, SettlesKept
  <2> QED
    BY <2>1, <2>2
<1>8. ASSUME NEW t \in 1..(main.next - 1)
      PROVE  Recorded(t)' \/ (Unheard(main.ticket)' /\ (WindowStart = main.next)')
  <2>1. t \in Steps /\ t < main.next
    BY <1>1, <1>5, SizeOfPlan DEF MainState
  <2>2. Recorded(t) => Recorded(t)'
    <3>1. Grown /\ Logged'
      BY <1>2
    <3> QED
      BY <1>1, <1>3, <2>1, <3>1, RecordedStays
  <2>3. CASE NextWindow
    <3>1. main.at = "window" /\ main.ticket <= journal.synced
      BY <2>3 DEF NextWindow, Durable
    <3>2. main.ticket \in Nat /\ journal.synced \in Nat
      BY <1>1 DEF MainState, Logged
    <3> QED
      BY <1>1, <2>2, <3>1, <3>2 DEF Earlier, Unheard
  <2>4. CASE OpenWindow /\ first = main.next
    <3>1. task[t].at = "done"
      BY <1>1, <2>1, <2>4 DEF OpenWindow, Turn, Shape
    <3>2. Recorded(t) \/ journal.poisoned
      BY <1>1, <2>1, <3>1 DEF Settles, Behind
    <3>3. main'.ticket > journal'.synced
      <4> DEFINE length == Len(journal.sent)
      <4>1. main'.ticket = length + (last - first + 1) /\ journal'.synced = journal.synced
        BY <1>2
      <4>2. length \in Nat /\ journal.synced \in Nat /\ journal.synced <= length
        BY <1>1, <1>5 DEF Logged
      <4> HIDE DEF length
      <4> QED
        BY <1>5, <4>1, <4>2
    <3>4. journal'.poisoned = journal.poisoned /\ (WindowStart = main.next)'
      BY <1>2, <2>4
    <3> QED
      BY <2>2, <3>2, <3>3, <3>4 DEF Unheard
  <2>5. NextWindow \/ (OpenWindow /\ first = main.next)
    BY <1>2
  <2> QED
    BY <2>3, <2>4, <2>5
<1>9. Earlier'
  <2>1. main'.at = "window" /\ main'.next = main.next
    BY <1>2
  <2> QED
    BY <1>8, <2>1 DEF Earlier
<1>10. LastActed' /\ Gated'
  <2>1. Grown
    BY <1>2
  <2>2. \A t \in Steps : task[t].at = "done" => task'[t].at = "done"
    BY <1>2, <1>6
  <2> QED
    BY <1>1, <1>3, <1>4, <2>1, <2>2, LastActedKept, GatedKept
<1>11. Bounded'
  <2> DEFINE length == Len(journal.sent)
             longer == Len(journal'.sent)
  <2>1. ASSUME NEW i \in (length + 1)..longer
        PROVE  journal'.sent[i].type \in {"Intent", "Completion"}
    <3>1. longer = length + (last - first + 1) /\ length \in Nat
      BY <1>2, <1>5
    <3>2. i - length - 1 + first \in first..last
            /\ length + ((i - length - 1 + first) - first + 1) = i
      <4> HIDE DEF length, longer
      <4> QED
        BY <1>5, <2>1, <3>1
    <3>3. \A s \in first..last :
            journal'.sent[length + (s - first + 1)] = Intent(s, PartialOf(s, 1))
      BY <1>2
    <3>4. PICK s \in first..last : length + (s - first + 1) = i
      <4> HIDE DEF length, longer
      <4> QED
        BY <3>2
    <3>5. journal'.sent[i] = Intent(s, PartialOf(s, 1))
      <4> HIDE DEF length, longer
      <4> QED
        BY <3>3, <3>4
    <3> QED
      BY <3>5 DEF Intent
  <2>2. main.at \notin {"finishing", "ended"} /\ Logged' /\ Grown
    BY <1>2, <1>3
  <2> QED
    BY <1>1, <2>1, <2>2, BoundedKept
<1>12. OutcomeIsReported' /\ Outcomed'
  <2>1. main'.outcome = main.outcome /\ main.outcome = "none"
    BY <1>1, <1>2, <1>3 DEF Outcomed
  <2> QED
    BY <2>1 DEF OutcomeIsReported, Outcomed
<1> QED
  BY <1>4, <1>7, <1>9, <1>10, <1>11, <1>12 DEF OrderInv

LEMMA ReleaseOrder ==
  ASSUME OrderInv, WindowDurable \/ WindowRefused
  PROVE  OrderInv'
<1>1. /\ Typed /\ Shape /\ \A t \in Steps : Settles(t)
      /\ Earlier /\ LastActed /\ Gated /\ Bounded /\ OutcomeIsReported /\ Outcomed
      /\ main \in MainState /\ Logged
  BY DEF OrderInv, Shape, Typed
<1>2. PICK journaled \in (main.next - 1)..main.hi :
        /\ Released(journaled)
        /\ \/ WindowDurable /\ main.mark = main.hi /\ journaled = main.hi
           \/ /\ WindowRefused /\ journaled = WindowStart - 1
              /\ journaled < main.mark /\ journaled # main.hi
  BY <1>1, ReleaseSteps
<1>3. /\ UNCHANGED <<acted, outcomes, control, journal>> /\ main.at = "window"
      /\ RedoSafe(main.next) /\ \A s \in main.next..main.hi : task[s].at = "idle"
  BY <1>1 DEF WindowDurable, WindowRefused, fs, Shape, WindowShape
<1>4. Typed' /\ Shape' /\ Grown
  BY <1>1, ReleasesShape
<1>5. /\ \A s \in Steps : s \notin main.next..main.hi => task'[s] = task[s]
      /\ \/ /\ main' = [main EXCEPT !.at = "batch", !.mark = journaled]
            /\ \A s \in main.next..journaled : task'[s].at = "ready"
            /\ \A s \in (journaled + 1)..main.hi :
                 task'[s].at = "done" /\ task'[s].result = "Failed"
         \/ /\ main' = [main EXCEPT !.at = "serial"]
            /\ journaled = main.hi
            /\ task'[main.next].at = "gate"
            /\ \A s \in (main.next + 1)..main.hi : task'[s] = task[s]
         \/ /\ main' = [main EXCEPT !.at = "loop", !.next = main.hi + 1]
            /\ journaled # main.hi
            /\ \A s \in main.next..main.hi :
                 task'[s].at = "done" /\ task'[s].result = "Failed"
  BY <1>2 DEF Released
<1>6. /\ main.next \in Nat /\ main.hi \in Nat /\ journaled \in Int
      /\ \A t \in Steps : t \in Nat
  BY <1>1, <1>2, SizeOfPlan DEF MainState
<1>7. journaled # main.hi => journal.poisoned
  BY <1>2 DEF WindowRefused, Refused
<1>8. ASSUME NEW t \in Steps
      PROVE  Settles(t)'
  <2>1. CASE task'[t] = task[t]
    BY <1>1, <1>3, <1>4, <2>1, SettlesKept
  <2>2. CASE task'[t].at \in {"ready", "gate"}
    <3>1. task'[t].at \notin {"idle", "closing", "done", "cancelled"}
      BY <2>2
    <3> QED
      BY <3>1, SettlesOnWay
  <2>3. CASE task'[t].at = "done" /\ task'[t].result = "Failed" /\ journal'.poisoned
    BY <2>3, SettlesFailed
  <2>4. \/ task'[t] = task[t]
        \/ task'[t].at \in {"ready", "gate"}
        \/ task'[t].at = "done" /\ task'[t].result = "Failed" /\ journal'.poisoned
    <3>1. CASE t \notin main.next..main.hi
      BY <1>5, <3>1
    <3>2. CASE t \in main.next..main.hi
      <4>1. t \in main.next..journaled \/ t \in (journaled + 1)..main.hi
        BY <1>2, <1>6, <3>2
      <4>2. t = main.next \/ t \in (main.next + 1)..main.hi
        BY <1>6, <3>2
      <4>3. t \in (journaled + 1)..main.hi => journaled # main.hi
        BY <1>6
      <4>4. journal' = journal
        BY <1>3
      <4> QED
        BY <1>5, <1>7, <3>2, <4>1, <4>2, <4>3, <4>4
    <3> QED
      BY <3>1, <3>2
  <2> QED
    BY <2>1, <2>2, <2>3, <2>4
<1>9. Earlier'
  <2>1. ASSUME NEW t \in 1..(main.next - 1)
        PROVE  Recorded(t)' \/ (journaled = main.next - 1 /\ journaled # main.hi)
    <3>1. t \in Steps
      BY <1>1, <1>6, SizeOfPlan DEF MainState
    <3>2. Recorded(t) => Recorded(t)'
      BY <1>1, <1>3, <1>4, <3>1, RecordedStays DEF Typed
    <3>3. Recorded(t) \/ (Unheard(main.ticket) /\ WindowStart = main.next)
      BY <1>1, <1>3, <2>1 DEF Earlier
    <3>4. CASE WindowDurable
      <4>1. main.ticket <= journal.synced /\ main.ticket \in Nat /\ journal.synced \in Nat
        BY <1>1, <3>4 DEF WindowDurable, Durable, MainState, Logged
      <4> QED
        BY <3>2, <3>3, <4>1 DEF Unheard
    <3>5. CASE WindowRefused /\ journaled = WindowStart - 1 /\ journaled # main.hi
      BY <3>2, <3>3, <3>5
    <3> QED
      BY <1>2, <3>4, <3>5
  <2>2. RedoSafe(main.next)' \/ main'.next # main.next
    BY <1>3 DEF RedoSafe
  <2>3. \/ main'.at = "batch" /\ main'.next = main.next /\ main'.mark = journaled
        \/ main'.at = "serial" /\ main'.next = main.next /\ journaled = main.hi
        \/ main'.at = "loop"
    BY <1>1, <1>5 DEF MainState
  <2> QED
    BY <2>1, <2>2, <2>3 DEF Earlier
<1>10. LastActed' /\ Gated'
  <2>1. \A t \in Steps : task[t].at = "done" => task'[t].at = "done"
    BY <1>3, <1>5
  <2> QED
    BY <1>1, <1>3, <1>4, <2>1, LastActedKept, GatedKept
<1>11. Bounded' /\ OutcomeIsReported' /\ Outcomed'
  <2>1. main'.outcome = main.outcome /\ main.outcome = "none"
    BY <1>1, <1>3, <1>5 DEF MainState, Outcomed
  <2>2. Len(journal'.sent) = Len(journal.sent) /\ main.at \notin {"finishing", "ended"}
          /\ Logged'
    BY <1>3, <1>4 DEF Typed
  <2>3. Bounded'
    BY <1>1, <1>4, <2>2, BoundedKept
  <2> QED
    BY <2>1, <2>3 DEF OutcomeIsReported, Outcomed
<1> QED
  BY <1>4, <1>8, <1>9, <1>10, <1>11 DEF OrderInv

(* A strict step and the next step of a run go to their gates. *)
LEMMA SerialOrder ==
  ASSUME OrderInv, StrictStep \/ SerialNext
  PROVE  OrderInv'
<1>1. /\ Typed /\ Shape /\ \A t \in Steps : Settles(t)
      /\ Earlier /\ LastActed /\ Gated /\ Bounded /\ OutcomeIsReported /\ Outcomed
      /\ main \in MainState /\ Logged
  BY DEF OrderInv, Shape, Typed
<1>2. Typed' /\ Shape' /\ Grown
  BY <1>1, StrictShape, SerialNextShape
<1>3. /\ UNCHANGED <<acted, outcomes, control, journal>>
      /\ main.at \in {"loop", "serial"}
  BY DEF StrictStep, SerialNext, Turn, fs
<1>4. PICK n \in Steps : \/ task' = [task EXCEPT ![n].at = "gate"] /\ task[n].at = "idle"
                         \/ UNCHANGED task
  <2>1. CASE StrictStep
    BY <1>1, <2>1, StrictShape DEF Fresh
  <2>2. CASE SerialNext
    <3>1. CASE main.next < main.hi /\ main.next + 1 \in Steps
                 /\ task' = [task EXCEPT ![main.next + 1].at = "gate"]
      <4>1. main.at = "serial" /\ main.next + 1 \in (main.next + 1)..main.hi
        BY <1>1, <2>2, <3>1, SizeOfPlan DEF SerialNext, MainState
      <4>2. task[main.next + 1].at = "idle"
        BY <1>1, <4>1 DEF Shape, SerialShape
      <4> QED
        BY <3>1, <4>2
    <3>2. CASE UNCHANGED task
      <4>1. main.next \in Steps
        BY <1>1, <2>2, SizeOfPlan DEF SerialNext, Shape, Group, MainState
      <4> QED
        BY <3>2, <4>1
    <3> QED
      BY <1>1, <2>2, <3>1, <3>2, SerialNextShape
  <2> QED
    BY <2>1, <2>2
<1>5. \A t \in Steps : task'[t] = task[t]
        \/ (t = n /\ task[t].at = "idle" /\ task'[t].at = "gate")
  BY <1>1, <1>4 DEF Typed, TaskState
<1>6. ASSUME NEW t \in Steps
      PROVE  Settles(t)'
  <2>1. CASE task'[t] = task[t]
    BY <1>1, <1>2, <1>3, <2>1, SettlesKept
  <2>2. CASE task'[t].at = "gate"
    <3>1. task'[t].at \notin {"idle", "closing", "done", "cancelled"}
      BY <2>2
    <3> QED
      BY <3>1, SettlesOnWay
  <2> QED
    BY <1>5, <2>1, <2>2
<1>7. Earlier'
  <2>1. CASE StrictStep
    <3>1. /\ main'.at = "serial" /\ main'.next = main.next /\ main.next \in Steps
          /\ task' = [task EXCEPT ![main.next].at = "gate"]
      BY <1>1, <2>1, StrictShape
    <3>2. ~RedoSafe(main.next)' /\ task'[main'.next].at = "gate"
      <4>1. ~RedoSafe(main.next)
        BY <2>1 DEF StrictStep
      <4> QED
        BY <1>1, <3>1, <4>1 DEF RedoSafe, Typed, TaskState
    <3> QED
      BY <3>1, <3>2 DEF Earlier, Working
  <2>2. CASE SerialNext /\ main'.at = "loop"
    BY <2>2 DEF Earlier
  <2>3. CASE SerialNext /\ main'.at # "loop"
    <3>1. /\ main' = [main EXCEPT !.next = main.next + 1] /\ main.next < main.hi
          /\ main.at = "serial"
      BY <1>1, <2>3, SerialNextShape DEF MainState, SerialNext
    <3>2. /\ main'.at = "serial" /\ main'.next = main.next + 1
          /\ main.next \in Nat /\ main.hi \in Nat /\ Group /\ main.next \in Steps
      BY <1>1, <3>1, SizeOfPlan DEF MainState, Shape
    <3>3. RedoSafe(main.next)
      BY <3>1, <3>2 DEF Group
    <3>4. \A s \in main.next..main.hi : RedoSafe(s)
      BY <3>2, <3>3 DEF Group
    <3>5. RedoSafe(main.next + 1) /\ RedoSafe(main.next)'
      <4>1. main.next + 1 \in main.next..main.hi
        BY <3>1, <3>2
      <4> QED
        BY <3>2, <3>4, <4>1 DEF RedoSafe
    <3>6. ASSUME NEW t \in 1..main.next
          PROVE  Recorded(t)'
      <4>1. t \in Steps
        BY <3>2, SizeOfPlan
      <4>2. Recorded(t)
        <5>1. CASE t = main.next
          BY <3>3, <5>1 DEF Recorded
        <5>2. CASE t # main.next
          <6>1. t \in 1..(main.next - 1)
            BY <3>2, <5>2
          <6> QED
            BY <1>1, <3>1, <3>3, <6>1 DEF Earlier
        <5> QED
          BY <5>1, <5>2
      <4> QED
        BY <1>1, <1>2, <1>3, <4>1, <4>2, RecordedStays DEF Typed
    <3>7. 1..(main'.next - 1) \subseteq 1..main.next
      BY <3>2
    <3> QED
      BY <3>2, <3>5, <3>6, <3>7 DEF Earlier
  <2> QED
    BY <2>1, <2>2, <2>3
<1>8. LastActed' /\ Gated'
  <2>1. \A t \in Steps : task[t].at = "done" => task'[t].at = "done"
    BY <1>5
  <2> QED
    BY <1>1, <1>2, <1>3, <2>1, LastActedKept, GatedKept
<1>9. Bounded' /\ OutcomeIsReported' /\ Outcomed'
  <2>1. main'.outcome = main.outcome
    BY <1>1, SerialNextShape DEF StrictStep, MainState
  <2>2. main.outcome = "none"
    BY <1>1, <1>3 DEF Outcomed
  <2>3. Len(journal'.sent) = Len(journal.sent) /\ main.at \notin {"finishing", "ended"}
          /\ Logged'
    BY <1>2, <1>3 DEF Typed
  <2>4. Bounded'
    BY <1>1, <1>2, <2>3, BoundedKept
  <2> QED
    BY <2>1, <2>2, <2>4 DEF OutcomeIsReported, Outcomed
<1> QED
  BY <1>2, <1>6, <1>7, <1>8, <1>9 DEF OrderInv

LEMMA OrderStarts == Init => OrderInv
<1> SUFFICES ASSUME Init
             PROVE  OrderInv
  OBVIOUS
<1>1. Typed /\ Shape
  BY ShapeStarts
<1>2. acted = {} /\ main.at = "starting" /\ main.outcome = "none"
      /\ \A t \in Steps : task[t].at = "idle"
  BY DEF Init, Idle
<1>3. journal.sent = <<JobStarted(0)>>
  BY DEF Init
<1>4. (\A t \in Steps : Settles(t)) /\ Earlier /\ LastActed /\ Gated
  BY <1>2 DEF Settles, Earlier, LastActed, Gated
<1>5. Bounded
  BY <1>3 DEF Bounded, Ends, JobStarted
<1>6. OutcomeIsReported /\ Outcomed
  BY <1>2 DEF OutcomeIsReported, Outcomed
<1> QED
  BY <1>1, <1>4, <1>5, <1>6 DEF OrderInv

LEMMA OrderStep == OrderInv /\ [Next]_vars => OrderInv'
<1> SUFFICES ASSUME OrderInv, [Next]_vars
             PROVE  OrderInv'
  OBVIOUS
<1>1. CASE \/ Writer \/ BatchFails
           \/ Pause \/ Resume \/ Cancel \/ UNCHANGED vars
  BY <1>1, AsideOrder
<1>2. CASE Loop
  BY <1>2, MovesOrder, FinishOrder, WindowOrder, ReleaseOrder, SerialOrder DEF Loop
<1>3. ASSUME NEW s \in Steps, Progress(s) \/ ResolverAnswers(s) \/ CallFails(s)
      PROVE  OrderInv'
  <2>1. TaskStep(s)
    BY <1>3, StepsAreTaskSteps DEF OrderInv
  <2> QED
    BY <2>1, TaskStepOrder
<1> QED
  BY <1>1, <1>2, <1>3 DEF Next, Ended

LEMMA PrefixShape ==
  ASSUME Logged, NEW lines \in CrashPrefixes
  PROVE  /\ lines \in Seq(Lines) /\ Len(lines) \in Nat
         /\ journal.synced <= Len(lines) /\ Len(lines) <= Len(journal.sent)
         /\ \A i \in 1..Len(lines) : lines[i] = journal.sent[i]
         /\ lines = SubSeq(journal.sent, 1, Len(lines))
<1>1. PICK k \in journal.synced..journal.written : lines = SubSeq(journal.sent, 1, k)
  BY DEF CrashPrefixes
<1>2. /\ journal.sent \in Seq(Lines) /\ k \in Nat /\ journal.synced \in Nat
      /\ journal.synced <= k /\ k <= Len(journal.sent)
  BY <1>1, LenProperties DEF Logged
<1>3. Len(lines) = k /\ lines \in Seq(Lines) /\ \A i \in 1..k : lines[i] = journal.sent[i]
  BY <1>1, <1>2, SubSeqProperties
<1> QED
  BY <1>1, <1>2, <1>3

(* When a crash makes a recovery redo a rename, a removal or a link that   *)
(* took place, no later step has changed the file system.                  *)
THEOREM RedoneLastHolds == Spec => []RedoneLast
<1>1. OrderInv => RedoneLast
  <2> SUFFICES ASSUME OrderInv, NEW lines \in CrashPrefixes,
                      NEW s \in acted \ Completed(lines), Plan[s].kind \in OnceOnly
               PROVE  \A t \in acted : t <= s
    BY DEF RedoneLast
  <2>1. Logged /\ LastActed /\ s \in Steps
    BY DEF OrderInv, Typed
  <2>2. ~RedoSafe(s)
    BY DEF OnceOnly, RedoSafe
  <2>3. ASSUME NEW i \in 1..journal.synced, Completes(i, s)
        PROVE  FALSE
    <3>1. i \in 1..Len(lines) /\ lines[i] = journal.sent[i]
      BY <2>1, PrefixShape DEF Logged
    <3> QED
      BY <2>3, <3>1 DEF Completes, Completed
  <2>4. ~Recorded(s)
    BY <2>2, <2>3 DEF Recorded
  <2> QED
    BY <2>1, <2>4 DEF LastActed
<1> QED
  BY <1>1, OrderStarts, OrderStep, PTL DEF Spec

(* No removal that depends on a step takes place unless that step ran and  *)
(* did not fail: the source of a move outlives a failed verification.      *)
THEOREM GatedRemovalHolds == Spec => []GatedRemoval
<1>1. OrderInv => GatedRemoval
  BY DEF OrderInv, Gated, GatedRemoval
<1> QED
  BY <1>1, OrderStarts, OrderStep, PTL DEF Spec

(* JobFinished ends its journal, and when it is written every step has     *)
(* stopped.                                                                *)
THEOREM FinishedLastHolds == Spec => []FinishedLast
<1>1. OrderInv => FinishedLast
  <2> SUFFICES ASSUME OrderInv, main.at \in {"finishing", "ended"}
               PROVE  /\ \A s \in Steps : task[s].at \in {"idle", "done", "cancelled"}
                      /\ \A i \in 1..(Len(journal.sent) - 1) :
                           journal.sent[i].type # "JobFinished"
    BY DEF FinishedLast
  <2>1. \A s \in Steps : task[s].at \in {"idle", "done", "cancelled"}
    BY DEF OrderInv, Shape, Stopped
  <2>2. Len(journal.sent) \in Nat
    BY LenProperties DEF OrderInv, Typed, Logged
  <2>3. \A i \in 1..Len(journal.sent) : Ends(i) => i = Len(journal.sent)
    BY DEF OrderInv, Bounded
  <2> QED
    BY <2>1, <2>2, <2>3 DEF Ends
<1> QED
  BY <1>1, OrderStarts, OrderStep, PTL DEF Spec

(* Completed is said only when every step succeeded, CompletedWithSkips    *)
(* when none failed, and Cancelled only of a job that was cancelled.       *)
THEOREM OutcomeIsReportedHolds == Spec => []OutcomeIsReported
<1>1. OrderInv => OutcomeIsReported
  BY DEF OrderInv
<1> QED
  BY <1>1, OrderStarts, OrderStep, PTL DEF Spec

-----------------------------------------------------------------------------
(* What a scan makes of a prefix that no crash has torn.                   *)
LEMMA NoGarbage ==
  ASSUME NEW lines \in Seq(Lines)
  PROVE  TornTail(lines) /\ Parsed(lines) = lines
<1>1. \A line \in Lines : line # Garbage
  <2>1. \A line \in Lines : line.type # "Garbage"
    BY DEF Lines, JobStarted, Intent, Completion, JobFinished
  <2> QED
    BY <2>1 DEF Garbage
<1>2. Len(lines) \in Nat /\ \A i \in 1..Len(lines) : lines[i] # Garbage
  BY <1>1, LenProperties, ElementOfSeq
<1>3. TornTail(lines)
  BY <1>2 DEF TornTail
<1>4. {i \in 1..Len(lines) : lines[i] # Garbage} = 1..Len(lines)
  BY <1>2
<1>5. Cardinality(1..Len(lines)) = Len(lines)
  BY <1>2, FS_Interval
<1>6. Parsed(lines) = SubSeq(lines, 1, Len(lines))
  BY <1>4, <1>5 DEF Parsed
<1> QED
  BY <1>3, <1>6, SubSeqFull

LEMMA ReportShape ==
  ASSUME Logged, Bounded, NEW lines \in CrashPrefixes, lines # <<>>
  PROVE  /\ Replay(lines) # Corrupt
         /\ Replay(lines).incomplete = Intended(lines) \ Completed(lines)
         /\ Replay(lines).orphans =
              {<<s, LastPartial(lines, s)>> : s \in
                 {t \in Intended(lines) \ Completed(lines) : LastPartial(lines, t) # 0}}
<1>1. /\ lines \in Seq(Lines) /\ Len(lines) \in Nat /\ Len(journal.sent) \in Nat
      /\ Len(lines) <= Len(journal.sent)
      /\ \A i \in 1..Len(lines) : lines[i] = journal.sent[i]
  BY PrefixShape, LenProperties DEF Logged
<1>2. Replay(lines) = Fold(lines)
  BY <1>1, NoGarbage DEF Replay
<1>3. Len(lines) >= 1
  BY <1>1, EmptySeq
<1>4. {i \in 1..Len(lines) : lines[i].type = "JobStarted"} = {1}
  BY <1>1, <1>3 DEF Bounded
<1> DEFINE report ==
      [type       |-> "report",
       job        |-> lines[1].job,
       incomplete |-> Intended(lines) \ Completed(lines),
       orphans    |-> {<<s, LastPartial(lines, s)>> : s \in
                         {t \in Intended(lines) \ Completed(lines) :
                            LastPartial(lines, t) # 0}},
       finished   |-> {i \in 1..Len(lines) : lines[i].type = "JobFinished"} # {}]
<1>5. Fold(lines) = report
  BY <1>4 DEF Fold
<1>6. report # Corrupt
  <2>1. report.type # Corrupt.type
    BY DEF Corrupt
  <2> QED
    BY <2>1
<1> QED
  BY <1>2, <1>5, <1>6

(* A scan that finds the job Completed, or Completed with skips, finds     *)
(* nothing to resume, and no crash makes a journal corrupt.                *)
THEOREM FinishedIsCleanHolds == Spec => []FinishedIsClean
<1>1. OrderInv => FinishedIsClean
  <2> SUFFICES ASSUME OrderInv, NEW lines \in CrashPrefixes
               PROVE  /\ Replay(lines) # Corrupt
                      /\ \A o \in {"Completed", "CompletedWithSkips"} :
                           Has(lines, JobFinished(o)) => Replay(lines).incomplete = {}
    BY DEF FinishedIsClean
  <2>1. Logged /\ Bounded
    BY DEF OrderInv, Typed
  <2>2. /\ lines \in Seq(Lines) /\ Len(lines) \in Nat /\ Len(journal.sent) \in Nat
        /\ Len(lines) <= Len(journal.sent)
        /\ \A i \in 1..Len(lines) : lines[i] = journal.sent[i]
    BY <2>1, PrefixShape, LenProperties DEF Logged
  <2>3. CASE lines = <<>>
    <3>1. Replay(lines) = Nothing
      BY <2>2, <2>3, NoGarbage DEF Replay, Fold
    <3>2. Nothing # Corrupt
      <4>1. Nothing.type # Corrupt.type
        BY DEF Nothing, Corrupt
      <4> QED
        BY <4>1
    <3>3. \A o : ~Has(lines, JobFinished(o))
      BY <2>3 DEF Has
    <3> QED
      BY <3>1, <3>2, <3>3
  <2>4. CASE lines # <<>>
    <3>1. /\ Replay(lines) # Corrupt
          /\ Replay(lines).incomplete = Intended(lines) \ Completed(lines)
      BY <2>1, <2>4, ReportShape
    <3>2. ASSUME NEW o \in {"Completed", "CompletedWithSkips"}, Has(lines, JobFinished(o)),
                 NEW t \in Intended(lines)
          PROVE  t \in Completed(lines)
      <4>1. PICK i \in 1..Len(lines) : lines[i] = JobFinished(o)
        BY <3>2 DEF Has
      <4>2. i \in 1..Len(journal.sent) /\ journal.sent[i] = JobFinished(o)
        BY <2>2, <4>1
      <4>3. \A u \in Steps : \E j \in 1..(i - 1) : Completes(j, u)
        BY <2>1, <3>2, <4>2 DEF Bounded, Ends, JobFinished
      <4>4. t \in Steps
        <5>1. PICK k \in 1..Len(lines) : lines[k].type = "Intent" /\ lines[k].step = t
          BY DEF Intended
        <5>2. lines[k] \in Lines
          BY <2>2, ElementOfSeq
        <5>3. lines[k] \in {Intent(s, n) : s \in Steps, n \in Nat}
          BY <5>1, <5>2 DEF Lines, JobStarted, Completion, JobFinished
        <5> QED
          BY <5>1, <5>3 DEF Intent
      <4>5. PICK j \in 1..(i - 1) : Completes(j, t)
        BY <4>3, <4>4
      <4>6. j \in 1..Len(lines) /\ lines[j].type = "Completion" /\ lines[j].step = t
        BY <2>2, <4>5 DEF Completes
      <4> QED
        BY <4>6 DEF Completed
    <3> QED
      BY <3>1, <3>2
  <2> QED
    BY <2>3, <2>4
<1> QED
  BY <1>1, OrderStarts, OrderStep, PTL DEF Spec

-----------------------------------------------------------------------------
(* What the files are after a job: what a step does to names, in any plan, *)
(* and what that makes of the plans whose steps keep apart.                *)

(* A step is Held between the checks that let it start and its outcome.    *)
Held == Working \ {"run"}

Opened(s) ==
  \/ task[s].at \in Held
  \/ task[s].at = "run" /\ ~Blocked(s) /\ (Carries(s) => Present(Plan[s].src))

Told(s, o) ==
  /\ outcomes' = [outcomes EXCEPT ![s] = o]
  /\ task'[s].result = o /\ task'[s].at \in {"closing", "done"}

(* Nothing is done to any name; a step that was idle may have been failed. *)
Rests(s) ==
  /\ task[s].at \in {"closing", "done"} => task'[s].at \in {"closing", "done"}
  /\ task[s].at = "done" => task'[s].at = "done"
  /\ task'[s].result = task[s].result \/ task'[s].result = "Failed"

Holds(s) ==
  /\ UNCHANGED <<files, acted, outcomes>>
  /\ Rests(s)
  /\ task'[s].at \in Held =>
       Opened(s) /\ (Plan[s].kind = "WriteTrashInfo" => task[s].at \in Held)

Tells(s) ==
  /\ UNCHANGED <<files, acted>>
  /\ \E o \in Outcomes :
       /\ Told(s, o)
       /\ o = "Succeeded" => ~Carries(s) /\ Plan[s].kind # "WriteTrashInfo"
       /\ o = "Skipped" /\ Plan[s].kind = "WriteTrashInfo" =>
            task[s].at \in Held \/ Plan[s].dep # 0
       /\ o = "Succeeded" /\ Plan[s].kind = "Verify" =>
            files[Plan[s].src] = files[Plan[s].dst]
       /\ o = "Skipped" /\ Plan[s].kind = "Verify" => Blocked(s)

Puts(s) ==
  /\ Opened(s) /\ Told(s, "Succeeded") /\ Plan[s].kind \in Makers
  /\ \E p \in Makes(s) :
       /\ Place(s, p)
       /\ Plan[s].kind = "WriteTrashInfo" => p = Plan[s].dst \/ task[s].at \in Held
       /\ ~Present(p) \/ Carries(s) \/ Product(s) # "none" \/ p \in Drops(s)

Clears(s) ==
  /\ task[s].at \in Working
  /\ ~Carries(s) /\ Plan[s].kind # "WriteTrashInfo" /\ Plan[s].dst \in Drops(s)
  /\ files' = [files EXCEPT ![Plan[s].dst] = "none"]
  /\ acted' = acted \cup {s}
  /\ Told(s, "Succeeded") \/ (Rests(s) /\ UNCHANGED outcomes)

NameStep(s) == Holds(s) \/ Tells(s) \/ Puts(s) \/ Clears(s)

LEMMA GoesRests ==
  ASSUME Typed, NEW s \in Steps, NEW p \in TaskPlaces, Goes(s, p)
  PROVE  task'[s].at = p /\ task'[s].result = task[s].result
<1>1. task[s] \in TaskState
  BY DEF Typed
<1>2. task' = [task EXCEPT ![s] = [task[s] EXCEPT !.at = p]]
  BY DEF Goes
<1>3. task'[s] = [task[s] EXCEPT !.at = p]
  BY <1>2 DEF Typed
<1> QED
  BY <1>1, <1>3 DEF TaskState

LEMMA ConcludeTold ==
  ASSUME Typed, NEW s \in Steps, NEW o \in Outcomes, Conclude(s, o)
  PROVE  Told(s, o)
<1>1. /\ outcomes' = [outcomes EXCEPT ![s] = o] /\ task'[s].result = o
      /\ task'[s].at = (IF RedoSafe(s) THEN "done" ELSE "closing")
  BY ConcludeShape
<1> QED
  BY <1>1 DEF Told

(* To the gate, the intent, the back-off or out of the job. *)
LEMMA LeavesNames ==
  ASSUME Typed, NEW s \in Steps,
         \/ TakePermit(s) \/ GateCancelled(s) \/ CopyInterrupted(s)
         \/ VerifyInterrupted(s) \/ BackoffEnds(s)
         \/ IntentDurable(s) \/ CompletionDurable(s)
  PROVE  Holds(s)
<1>1. PICK p \in {"gate", "cancelled", "run", "done"} :
           Goes(s, p) /\ (task[s].at = "closing" => p = "done")
  BY DEF TakePermit, GateCancelled, CopyInterrupted, VerifyInterrupted, BackoffEnds,
         IntentDurable, CompletionDurable, Dispatch, At
<1>2. p \in TaskPlaces
  BY DEF TaskPlaces, Working, Stopped
<1>3. task'[s].at = p /\ task'[s].result = task[s].result
  BY <1>1, <1>2, GoesRests
<1>4. task[s].at # "done"
  BY DEF TakePermit, GateCancelled, CopyInterrupted, VerifyInterrupted, BackoffEnds,
         IntentDurable, CompletionDurable, Dispatch, At
<1>5. UNCHANGED <<files, acted, outcomes>>
  BY DEF TakePermit, GateCancelled, CopyInterrupted, VerifyInterrupted, BackoffEnds,
         IntentDurable, CompletionDurable, fs
<1>6. Rests(s)
  BY <1>1, <1>3, <1>4 DEF Rests
<1>7. task'[s].at \notin Held
  BY <1>3 DEF Held, Working
<1> QED
  BY <1>5, <1>6, <1>7 DEF Holds

LEMMA RefusedNames ==
  ASSUME Typed, NEW s \in Steps, IntentRefused(s) \/ CompletionRefused(s)
  PROVE  Holds(s)
<1>1. UNCHANGED <<files, acted, outcomes>>
  BY DEF IntentRefused, CompletionRefused, fs
<1>2. task' = [task EXCEPT ![s].at = "done", ![s].result = "Failed"]
  BY DEF IntentRefused, CompletionRefused
<1>3. task[s] \in TaskState
  BY DEF Typed
<1>4. task'[s] = [task[s] EXCEPT !.at = "done", !.result = "Failed"]
  BY <1>2 DEF Typed
<1>5. task'[s].at = "done" /\ task'[s].result = "Failed"
  BY <1>3, <1>4 DEF TaskState
<1>6. Rests(s)
  BY <1>5 DEF Rests
<1>7. task'[s].at \notin Held
  BY <1>5 DEF Held, Working
<1> QED
  BY <1>1, <1>6, <1>7 DEF Holds

LEMMA GateNames ==
  ASSUME Typed, NEW s \in Steps, GatePasses(s)
  PROVE  Holds(s)
<1>1. task[s] \in TaskState /\ task[s].at = "gate"
  BY DEF Typed, GatePasses, At
<1>2. UNCHANGED <<files, acted, outcomes>>
  BY DEF GatePasses, fs
<1>3. task'[s].at \in {"run", "intent"} /\ task'[s].result = task[s].result
  <2>1. CASE task[s].named
    <3>1. task' = [task EXCEPT ![s].at = "run", ![s].named = FALSE]
      BY <2>1 DEF GatePasses
    <3>2. task'[s] = [task[s] EXCEPT !.at = "run", !.named = FALSE]
      BY <3>1 DEF Typed
    <3> QED
      BY <1>1, <3>2 DEF TaskState
  <2>2. CASE ~task[s].named
    <3> DEFINE next == task[s].attempt + 1
    <3>1. task' = [task EXCEPT ![s].at = "intent", ![s].attempt = next, ![s].ticket = Ticket(1)]
      BY <2>2 DEF GatePasses
    <3> HIDE DEF next
    <3>2. task'[s] = [task[s] EXCEPT !.at = "intent", !.attempt = next, !.ticket = Ticket(1)]
      BY <3>1 DEF Typed
    <3> QED
      BY <1>1, <3>2 DEF TaskState
  <2> QED
    BY <2>1, <2>2
<1>4. Rests(s)
  BY <1>1, <1>3 DEF Rests
<1>5. task'[s].at \notin Held
  BY <1>3 DEF Held, Working
<1> QED
  BY <1>2, <1>4, <1>5 DEF Holds

(* From one call of a step to the next. *)
LEMMA WorkNames ==
  ASSUME Typed, NEW s \in Steps,
         CopyBegins(s) \/ CopyEnds(s) \/ PublishConflicts(s) \/ CreateConflicts(s)
  PROVE  Holds(s)
<1>1. PICK p \in {"copying", "staged", "conflict"} : Goes(s, p)
  BY DEF CopyBegins, CopyEnds, PublishConflicts, CreateConflicts
<1>2. task'[s].at = p /\ task'[s].result = task[s].result
  BY <1>1, GoesRests DEF TaskPlaces, Working
<1>3. UNCHANGED <<files, acted, outcomes>>
  BY DEF CopyBegins, CopyEnds, PublishConflicts, CreateConflicts, fs
<1>4. task[s].at \in Working
  BY DEF CopyBegins, CopyEnds, PublishConflicts, CreateConflicts, Dispatch, Creates, At,
         Working
<1>5. Rests(s)
  BY <1>2, <1>4 DEF Rests, Working
<1>6. CASE CopyEnds(s) \/ PublishConflicts(s)
  <2>1. task[s].at \in Held
    BY <1>6 DEF CopyEnds, PublishConflicts, At, Held, Working
  <2> QED
    BY <1>3, <1>5, <2>1 DEF Holds, Opened
<1>7. CASE CopyBegins(s) \/ CreateConflicts(s)
  <2>1. /\ task[s].at = "run" /\ ~Blocked(s) /\ Plan[s].kind # "WriteTrashInfo"
        /\ Carries(s) => Present(Plan[s].src)
    BY <1>7 DEF CopyBegins, CreateConflicts, Dispatch, Creates, Creatable, At, Carries
  <2> QED
    BY <1>3, <1>5, <2>1 DEF Holds, Opened
<1> QED
  BY <1>6, <1>7

LEMMA SettleNames ==
  ASSUME Typed, NEW s \in Steps, PolicySettles(s) \/ ResolverAnswers(s)
  PROVE  Holds(s)
<1>1. task[s].at = "conflict" /\ UNCHANGED <<files, acted, outcomes>>
  BY DEF PolicySettles, ResolverAnswers, At, fs
<1>2. PICK policy \in Policies : Settle(s, policy)
  <2>1. CASE PolicySettles(s)
    BY <2>1, PlanParts, ExecutorAssumption
       DEF PolicySettles, ExecutorAssumption, Typed, Policies
  <2>2. CASE ResolverAnswers(s)
    BY <2>2, ExecutorAssumption DEF ResolverAnswers, ExecutorAssumption
  <2> QED
    BY <2>1, <2>2
<1>3. task'[s].result = task[s].result
  <2>1. task'[s] = [task[s] EXCEPT !.at = "resolved", !.policy = policy]
    BY <1>2 DEF Settle, Typed
  <2>2. task[s] \in TaskState
    BY DEF Typed
  <2> QED
    BY <2>1, <2>2 DEF TaskState
<1>4. Rests(s)
  BY <1>1, <1>3 DEF Rests
<1>5. task[s].at \in Held
  BY <1>1 DEF Held, Working
<1> QED
  BY <1>1, <1>4, <1>5 DEF Holds, Opened

(* A step that has not moved anything says so, or had nothing to move. *)
LEMMA ToldNames ==
  ASSUME Typed, NEW s \in Steps, NEW o \in Outcomes, Conclude(s, o),
         UNCHANGED <<files, acted>>,
         o = "Succeeded" => Plan[s].kind \in {"CreateDir", "Verify", "SetMeta"},
         o = "Succeeded" /\ Plan[s].kind = "Verify" =>
           files[Plan[s].src] = files[Plan[s].dst],
         o = "Skipped" =>
           \/ Blocked(s) \/ Plan[s].kind = "RemoveDir"
           \/ task[s].at \in Held /\ Plan[s].kind \in Makers
  PROVE  Tells(s)
<1>1. Told(s, o)
  BY ConcludeTold
<1>2. o = "Succeeded" => ~Carries(s) /\ Plan[s].kind # "WriteTrashInfo"
  BY DEF Carries
<1>3. o = "Skipped" /\ Plan[s].kind = "WriteTrashInfo" =>
        task[s].at \in Held \/ Plan[s].dep # 0
  BY DEF Blocked
<1>4. o = "Skipped" /\ Plan[s].kind = "Verify" => Blocked(s)
  BY DEF Makers
<1> QED
  BY <1>1, <1>2, <1>3, <1>4 DEF Tells

LEMMA AnsweredNames ==
  ASSUME Typed, NEW s \in Steps,
         \/ DependencyBlocks(s) \/ CopyImpossible(s) \/ CreateImpossible(s)
         \/ DirExists(s) \/ AlternateRefused(s) \/ ReplaceImpossible(s)
         \/ VerifyEnds(s) \/ SetMetaEnds(s) \/ RemoveImpossible(s) \/ DirNotEmpty(s)
         \/ ConflictSkips(s)
  PROVE  Tells(s)
<1>1. UNCHANGED <<files, acted>>
  BY DEF DependencyBlocks, CopyImpossible, CreateImpossible, DirExists, AlternateRefused,
         ReplaceImpossible, VerifyEnds, SetMetaEnds, RemoveImpossible, DirNotEmpty,
         ConflictSkips, Answer, fs
<1>2. CASE \/ CopyImpossible(s) \/ CreateImpossible(s) \/ AlternateRefused(s)
           \/ ReplaceImpossible(s) \/ RemoveImpossible(s)
  <2>1. Conclude(s, "Failed") /\ "Failed" \in Outcomes
    BY <1>2 DEF CopyImpossible, CreateImpossible, AlternateRefused, ReplaceImpossible,
                RemoveImpossible, Answer, Outcomes
  <2> QED
    BY <1>1, <2>1, ToldNames
<1>3. CASE DirExists(s) \/ VerifyEnds(s) \/ SetMetaEnds(s)
  <2>1. PICK o \in {"Succeeded", "Failed"} :
          /\ Conclude(s, o)
          /\ o = "Succeeded" /\ Plan[s].kind = "Verify" =>
               files[Plan[s].src] = files[Plan[s].dst]
    <3>1. CASE VerifyEnds(s)
      BY <3>1 DEF VerifyEnds, Answer
    <3>2. CASE DirExists(s) \/ SetMetaEnds(s)
      BY <3>2 DEF DirExists, SetMetaEnds, Answer, Dispatch
    <3> QED
      BY <1>3, <3>1, <3>2
  <2>2. Plan[s].kind \in {"CreateDir", "Verify", "SetMeta"}
    BY <1>3 DEF DirExists, VerifyEnds, SetMetaEnds, Dispatch
  <2>3. o \in Outcomes /\ o # "Skipped"
    BY DEF Outcomes
  <2> QED
    BY <1>1, <2>1, <2>2, <2>3, ToldNames
<1>4. CASE DependencyBlocks(s) \/ DirNotEmpty(s) \/ ConflictSkips(s)
  <2>1. Conclude(s, "Skipped") /\ "Skipped" \in Outcomes
    BY <1>4 DEF DependencyBlocks, DirNotEmpty, ConflictSkips, Answer, Outcomes
  <2>2. \/ Blocked(s) \/ Plan[s].kind = "RemoveDir"
        \/ task[s].at \in Held /\ Plan[s].kind \in Makers
    <3>1. CASE DependencyBlocks(s) \/ DirNotEmpty(s)
      BY <3>1 DEF DependencyBlocks, DirNotEmpty, Dispatch
    <3>2. CASE ConflictSkips(s)
      BY <3>2 DEF ConflictSkips, At, Apt, Typed, Held, Working
    <3> QED
      BY <1>4, <3>1, <3>2
  <2> QED
    BY <1>1, <2>1, <2>2, ToldNames
<1> QED
  BY <1>2, <1>3, <1>4

LEMMA FailNames ==
  ASSUME Typed, NEW s \in Steps, CallFails(s)
  PROVE  Holds(s) \/ Tells(s)
<1>1. task[s].at \in Working /\ UNCHANGED <<files, acted>>
  BY DEF CallFails, Calls, At, Working
<1>2. CASE Conclude(s, "Failed")
  BY <1>1, <1>2, ToldNames DEF Outcomes
<1>3. CASE Goes(s, "gate") /\ UNCHANGED outcomes
  <2>1. task'[s].at = "gate" /\ task'[s].result = task[s].result
    BY <1>3, GoesRests DEF TaskPlaces
  <2>2. task'[s].at \notin Held
    BY <2>1 DEF Held, Working
  <2>3. Rests(s)
    BY <1>1, <2>1 DEF Rests, Working
  <2> QED
    BY <1>1, <1>3, <2>2, <2>3 DEF Holds
<1>4. CASE /\ task' = [task EXCEPT ![s].at = "backoff", ![s].retries = @ + 1]
           /\ UNCHANGED outcomes
  <2> DEFINE next == task[s].retries + 1
  <2>1. task' = [task EXCEPT ![s] = [task[s] EXCEPT !.at = "backoff", !.retries = next]]
    BY <1>4
  <2> HIDE DEF next
  <2>2. task[s] \in TaskState
    BY DEF Typed
  <2>3. task'[s] = [task[s] EXCEPT !.at = "backoff", !.retries = next]
    BY <2>1 DEF Typed
  <2>4. task'[s].at = "backoff" /\ task'[s].result = task[s].result
    BY <2>2, <2>3 DEF TaskState
  <2>5. task'[s].at \notin Held
    BY <2>4 DEF Held, Working
  <2>6. Rests(s)
    BY <1>1, <2>4 DEF Rests, Working
  <2> QED
    BY <1>1, <1>4, <2>5, <2>6 DEF Holds
<1> QED
  BY <1>2, <1>3, <1>4 DEF CallFails

LEMMA PlaceNames ==
  ASSUME Typed, NEW s \in Steps,
         \/ Publishes(s) \/ CreateSucceeds(s) \/ AlternateTaken(s)
         \/ RenameReplaces(s) \/ NewCreated(s)
  PROVE  Puts(s)
<1>1. Told(s, "Succeeded")
  <2>1. Conclude(s, "Succeeded") /\ "Succeeded" \in Outcomes
    BY DEF Publishes, CreateSucceeds, AlternateTaken, RenameReplaces, NewCreated, Outcomes
  <2> QED
    BY <2>1, ConcludeTold
<1>2. Opened(s)
  <2>1. CASE CreateSucceeds(s)
    BY <2>1 DEF CreateSucceeds, Creates, Creatable, Opened, Carries, At
  <2>2. CASE \/ Publishes(s) \/ AlternateTaken(s) \/ RenameReplaces(s) \/ NewCreated(s)
    BY <2>2 DEF Publishes, AlternateTaken, RenameReplaces, NewCreated, Replaces, Overwrites,
                At, Opened, Held, Working
  <2> QED
    BY <2>1, <2>2
<1>3. Plan[s].kind \in Makers
  BY DEF Publishes, CreateSucceeds, AlternateTaken, RenameReplaces, NewCreated,
         Creates, At, Apt, Typed, CopyClass, Makers
<1>4. Plan[s].dst \in Makes(s) /\ Alternate[Plan[s].dst] \in Makes(s)
  BY <1>3 DEF Makes
<1>5. CASE Publishes(s) \/ CreateSucceeds(s)
  <2>1. Place(s, Plan[s].dst) /\ ~Present(Plan[s].dst)
    BY <1>5 DEF Publishes, CreateSucceeds
  <2> QED
    BY <1>1, <1>2, <1>3, <1>4, <2>1 DEF Puts
<1>6. CASE AlternateTaken(s)
  <2>1. /\ Place(s, Alternate[Plan[s].dst]) /\ ~Present(Alternate[Plan[s].dst])
        /\ task[s].at \in Held
    BY <1>6 DEF AlternateTaken, At, Held, Working
  <2> QED
    BY <1>1, <1>2, <1>3, <1>4, <2>1 DEF Puts
<1>7. CASE RenameReplaces(s)
  <2>1. Place(s, Plan[s].dst) /\ Carries(s)
    BY <1>7 DEF RenameReplaces, Carries
  <2> QED
    BY <1>1, <1>2, <1>3, <1>4, <2>1 DEF Puts
<1>8. CASE NewCreated(s)
  <2>1. Place(s, Plan[s].dst)
    BY <1>8 DEF NewCreated
  <2>2. \/ Carries(s) \/ Product(s) # "none" \/ Plan[s].dst \in Drops(s)
    BY <1>3 DEF Makers, Carries, Product, Drops
  <2> QED
    BY <1>1, <1>2, <1>3, <1>4, <2>1, <2>2 DEF Puts
<1> QED
  BY <1>5, <1>6, <1>7, <1>8

LEMMA ClearNames ==
  ASSUME Typed, NEW s \in Steps, RemoveSucceeds(s) \/ OldRemoved(s)
  PROVE  Clears(s)
<1>1. task[s].at \in Working
  BY DEF RemoveSucceeds, Removes, OldRemoved, Replaces, Overwrites, Dispatch, At, Working
<1>2. Plan[s].kind \in {"Remove", "RemoveDir", "CreateDir", "Link", "Symlink"}
  BY DEF RemoveSucceeds, Removes, OldRemoved, Dispatch
<1>3. ~Carries(s) /\ Plan[s].kind # "WriteTrashInfo" /\ Plan[s].dst \in Drops(s)
  BY <1>2 DEF Carries, Drops
<1>4. files' = [files EXCEPT ![Plan[s].dst] = "none"] /\ acted' = acted \cup {s}
  BY DEF RemoveSucceeds, OldRemoved
<1>5. CASE RemoveSucceeds(s)
  <2>1. Conclude(s, "Succeeded") /\ "Succeeded" \in Outcomes
    BY <1>5 DEF RemoveSucceeds, Outcomes
  <2>2. Told(s, "Succeeded")
    BY <2>1, ConcludeTold
  <2> QED
    BY <1>1, <1>3, <1>4, <2>2 DEF Clears
<1>6. CASE OldRemoved(s)
  <2>1. Goes(s, "replacing") /\ UNCHANGED outcomes
    BY <1>6 DEF OldRemoved
  <2>2. task'[s].result = task[s].result
    BY <2>1, GoesRests DEF TaskPlaces, Working
  <2>3. Rests(s)
    BY <1>1, <2>2 DEF Rests, Working
  <2> QED
    BY <1>1, <1>3, <1>4, <2>1, <2>3 DEF Clears
<1> QED
  BY <1>5, <1>6

LEMMA StepsAreNameSteps ==
  ASSUME Typed, NEW s \in Steps, Progress(s) \/ ResolverAnswers(s) \/ CallFails(s)
  PROVE  NameStep(s)
BY LeavesNames, RefusedNames, GateNames, WorkNames, SettleNames, AnsweredNames, FailNames,
   PlaceNames, ClearNames DEF Progress, NameStep

(* The loop, the journal's thread and the callers touch no name; a task    *)
(* they move was idle.                                                     *)
LEMMA PutsAside ==
  ASSUME Typed, NEW s \in Steps, task[s].at = "idle",
         \/ task'[s] = [task[s] EXCEPT !.at = "ready"]
         \/ task'[s] = [task[s] EXCEPT !.at = "gate"]
         \/ task'[s] = [task[s] EXCEPT !.at = "done", !.result = "Failed"]
  PROVE  Rests(s) /\ task'[s].at \notin Held
<1>1. task[s] \in TaskState
  BY DEF Typed
<1>2. task'[s].at \in {"ready", "gate", "done"}
        /\ (task'[s].result = task[s].result \/ task'[s].result = "Failed")
  BY <1>1 DEF TaskState
<1> QED
  BY <1>2 DEF Rests, Held, Working

LEMMA SameRests ==
  ASSUME NEW s \in Steps, task'[s].at = task[s].at, task'[s].result = task[s].result
  PROVE  Rests(s) /\ (task'[s].at \in Held => task[s].at \in Held)
BY DEF Rests

LEMMA WindowRests ==
  ASSUME Typed, OpenWindow \/ NextWindow
  PROVE  \A s \in Steps : Rests(s) /\ (task'[s].at \in Held => task[s].at \in Held)
<1>1. PICK first, hi : NameWindow(first, hi)
  BY DEF OpenWindow, NextWindow
<1>2. SUFFICES ASSUME NEW s \in Steps
               PROVE  Rests(s) /\ (task'[s].at \in Held => task[s].at \in Held)
  OBVIOUS
<1>3. \/ task'[s] = task[s]
      \/ task'[s] = [task[s] EXCEPT !.attempt = 1, !.named = TRUE]
  BY <1>1 DEF NameWindow
<1>4. task[s] \in TaskState
  BY DEF Typed
<1>5. task'[s].at = task[s].at /\ task'[s].result = task[s].result
  BY <1>3, <1>4 DEF TaskState
<1> QED
  BY <1>5, SameRests

LEMMA ReleaseRests ==
  ASSUME Typed, Shape, WindowDurable \/ WindowRefused
  PROVE  \A s \in Steps : Rests(s) /\ (task'[s].at \in Held => task[s].at \in Held)
<1>1. /\ main \in MainState /\ main.next \in Steps /\ main.hi \in main.next..Len(Plan)
      /\ \A s \in main.next..main.hi : task[s].at = "idle"
  BY SizeOfPlan DEF Shape, Group, WindowShape, MainState, WindowDurable, WindowRefused
<1>2. PICK journaled \in (main.next - 1)..main.hi : Released(journaled)
  BY ReleaseSteps
<1>3. PICK upto : RunSteps(main.hi, upto)
  BY DEF WindowDurable, WindowRefused
<1>4. SUFFICES ASSUME NEW s \in Steps
               PROVE  Rests(s) /\ (task'[s].at \in Held => task[s].at \in Held)
  OBVIOUS
<1>5. CASE s \notin main.next..main.hi
  <2>1. task'[s] = task[s]
    BY <1>2, <1>5 DEF Released
  <2> QED
    BY <2>1, SameRests
<1>6. CASE s \in main.next..main.hi
  <2>1. \/ task'[s] = task[s]
        \/ task'[s] = [task[s] EXCEPT !.at = "ready"]
        \/ task'[s] = [task[s] EXCEPT !.at = "gate"]
        \/ task'[s] = [task[s] EXCEPT !.at = "done", !.result = "Failed"]
    <3>1. CASE CopyClass(main.next)
      BY <1>3, <3>1 DEF RunSteps
    <3>2. CASE ~CopyClass(main.next) /\ upto = main.hi
      BY <1>3, <3>2 DEF RunSteps, Goes, Typed
    <3>3. CASE ~CopyClass(main.next) /\ upto # main.hi
      BY <1>3, <3>3 DEF RunSteps
    <3> QED
      BY <3>1, <3>2, <3>3
  <2>2. task[s].at = "idle"
    BY <1>1, <1>6
  <2> QED
    BY <2>1, <2>2, PutsAside, SameRests
<1> QED
  BY <1>5, <1>6

LEMMA StrictRests ==
  ASSUME Typed, Shape, StrictStep \/ SerialNext
  PROVE  \A s \in Steps : Rests(s) /\ (task'[s].at \in Held => task[s].at \in Held)
<1>1. \/ UNCHANGED task
      \/ \E n \in Steps : task[n].at = "idle" /\ Goes(n, "gate")
  <2>1. CASE StrictStep
    BY <2>1, StrictShape DEF StrictStep, Fresh
  <2>2. CASE SerialNext /\ main.next < main.hi
    <3>1. main \in MainState /\ SerialShape /\ Goes(main.next + 1, "gate") /\ main.hi <= Len(Plan)
      BY <2>2 DEF SerialNext, Shape, MainState
    <3>2. main.next + 1 \in (main.next + 1)..main.hi /\ main.next + 1 \in Steps
      BY <2>2, <3>1, SizeOfPlan DEF MainState
    <3> QED
      BY <3>1, <3>2 DEF SerialShape
  <2>3. CASE SerialNext /\ ~(main.next < main.hi)
    BY <2>3 DEF SerialNext
  <2> QED
    BY <2>1, <2>2, <2>3
<1>2. SUFFICES ASSUME NEW s \in Steps
               PROVE  Rests(s) /\ (task'[s].at \in Held => task[s].at \in Held)
  OBVIOUS
<1>3. \/ task'[s] = task[s]
      \/ task[s].at = "idle" /\ task'[s] = [task[s] EXCEPT !.at = "gate"]
  BY <1>1 DEF Goes, Typed
<1> QED
  BY <1>3, PutsAside, SameRests

LEMMA OthersRest ==
  ASSUME Typed, Shape, [Next]_vars,
         \A s \in Steps : ~(Progress(s) \/ ResolverAnswers(s) \/ CallFails(s))
  PROVE  /\ UNCHANGED <<files, acted, outcomes>>
         /\ \A s \in Steps : Rests(s) /\ (task'[s].at \in Held => task[s].at \in Held)
<1>1. CASE \/ Writer \/ BatchFails \/ Pause \/ Resume \/ Cancel \/ UNCHANGED vars
           \/ StartDurable \/ StartRefused \/ SerialCancelled \/ BatchEnds
           \/ LoopDone \/ LoopCancelled \/ FinishAnswered
  <2>1. UNCHANGED <<files, acted, outcomes, task>>
    BY <1>1 DEF Writer, WriteBatch, SyncBatch, BatchFails, Pause, Resume, Cancel, Steer, vars,
                StartDurable, StartRefused, SerialCancelled, BatchEnds, LoopDone,
                LoopCancelled, FinishAnswered, fs
  <2> QED
    BY <2>1, SameRests
<1>2. CASE \/ OpenWindow \/ NextWindow \/ WindowDurable \/ WindowRefused
           \/ StrictStep \/ SerialNext
  <2>1. UNCHANGED <<files, acted, outcomes>>
    BY <1>2 DEF OpenWindow, NextWindow, WindowDurable, WindowRefused, StrictStep,
                SerialNext, fs
  <2> QED
    BY <1>2, <2>1, WindowRests, ReleaseRests, StrictRests
<1> QED
  BY <1>1, <1>2 DEF Next, Loop, Ended

(* Where a step that changes a name stands, and the names it leaves alone. *)
LEMMA NamesWhere ==
  ASSUME Typed, NEW s \in Steps, NameStep(s), files' # files \/ acted' # acted
  PROVE  task[s].at \in Working
BY DEF NameStep, Holds, Tells, Puts, Clears, Opened, Held, Working

LEMMA Untouched ==
  ASSUME Typed, NEW s \in Steps, NameStep(s), NEW p \in Paths, p \notin Touches(s)
  PROVE  files'[p] = files[p]
<1>1. CASE Holds(s) \/ Tells(s)
  BY <1>1 DEF Holds, Tells
<1>2. CASE Puts(s)
  <2>1. PICK q \in Makes(s) : Place(s, q)
    BY <1>2 DEF Puts
  <2>2. p # q /\ (Plan[s].kind = "Rename" => p # Plan[s].src)
    BY <2>1 DEF Touches, Drops
  <2> QED
    BY <2>1, <2>2 DEF Place
<1>3. CASE Clears(s)
  <2>1. Plan[s].dst # p /\ files' = [files EXCEPT ![Plan[s].dst] = "none"]
    BY <1>3 DEF Clears, Touches
  <2> QED
    BY <2>1 DEF Typed
<1> QED
  BY <1>1, <1>2, <1>3 DEF NameStep

-----------------------------------------------------------------------------
(* What a step carries: until it ends, its source is what the job started  *)
(* with; once it succeeds, that is at its destination.                     *)
Waits(s) ==
  /\ task[s].at \notin {"closing", "done"} =>
       \E before \in InitialFiles : files[Plan[s].src] = before[Plan[s].src]
  /\ task[s].at \in Held => Present(Plan[s].src)

Arrived(s) == task[s].result = "Succeeded" => Delivered(s)

CarryInv == OrderInv /\ \A s \in Steps : Carries(s) => Waits(s) /\ Arrived(s)

LEMMA CarriedPaths ==
  ASSUME NEW s \in Steps, Carries(s)
  PROVE  /\ Plan[s].src \in Paths /\ Plan[s].dst \in Paths
         /\ Alternate[Plan[s].dst] \in Paths
         /\ Makes(s) = {Plan[s].dst, Alternate[Plan[s].dst]}
<1>1. Plan[s].src \in Paths /\ Plan[s].dst \in Paths
  BY PlanParts DEF Carries
<1> QED
  BY <1>1, ExecutorAssumption DEF ExecutorAssumption, Carries, Makes, Makers

LEMMA CarryAlike ==
  ASSUME NEW s \in Steps, Carries(s), Waits(s), Arrived(s), UNCHANGED files,
         Rests(s), task'[s].at \in Held => Opened(s)
  PROVE  Waits(s)' /\ Arrived(s)'
<1>1. task'[s].at \notin {"closing", "done"} =>
        \E before \in InitialFiles : files'[Plan[s].src] = before[Plan[s].src]
  BY DEF Waits, Rests
<1>2. task'[s].at \in Held => files'[Plan[s].src] # "none"
  BY DEF Waits, Opened, Present
<1>3. task'[s].result = "Succeeded" => task[s].result = "Succeeded"
  BY DEF Rests
<1>4. Delivered(s) => Delivered(s)'
  BY DEF Delivered
<1> QED
  BY <1>1, <1>2, <1>3, <1>4 DEF Waits, Arrived, Present

(* A step that is not the one that moves: its source is still needed only  *)
(* if the mover is not one that waits for it, and its names are its own.   *)
LEMMA CarryApart ==
  ASSUME SourcesLast, OwnNames, OrderInv, NEW t \in Steps, NameStep(t),
         NEW s \in Steps, s # t, Carries(s), Waits(s), Arrived(s), task'[s] = task[s]
  PROVE  Waits(s)' /\ Arrived(s)'
<1>1. /\ Plan[s].src \in Paths /\ Plan[s].dst \in Paths
      /\ Alternate[Plan[s].dst] \in Paths
      /\ Makes(s) = {Plan[s].dst, Alternate[Plan[s].dst]}
  BY CarriedPaths
<1>2. Typed
  BY DEF OrderInv
<1>3. \A p \in Makes(s) : files'[p] = files[p]
  <2>1. Makes(s) \cap Touches(t) = {}
    BY DEF OwnNames
  <2> QED
    BY <1>1, <1>2, <2>1, Untouched
<1>4. task[s].at \notin {"closing", "done"} => files'[Plan[s].src] = files[Plan[s].src]
  <2>1. CASE Plan[s].src \notin Touches(t)
    BY <1>1, <1>2, <2>1, Untouched
  <2>2. CASE Plan[s].src \in Touches(t)
    <3>1. t > s /\ ~RedoSafe(t)
      BY <2>2 DEF SourcesLast, OnceOnly, RedoSafe
    <3>2. CASE files' = files
      BY <3>2
    <3>3. CASE files' # files
      <4>1. task[t].at \in Working
        BY <1>2, <3>3, NamesWhere
      <4>2. s < t
        BY <3>1, SizeOfPlan
      <4>3. task[s].at = "done"
        BY <3>1, <4>1, <4>2, WorkingBehind DEF OrderInv
      <4> QED
        BY <4>3
    <3> QED
      BY <3>2, <3>3
  <2> QED
    BY <2>1, <2>2
<1>5. Waits(s)'
  <2>1. task[s].at \in Held => task[s].at \notin {"closing", "done"}
    BY DEF Held, Working
  <2> QED
    BY <1>4, <2>1 DEF Waits, Present
<1>6. Delivered(s) => Delivered(s)'
  BY <1>1, <1>3 DEF Delivered
<1> QED
  BY <1>5, <1>6 DEF Arrived

LEMMA CarryMoves ==
  ASSUME OrderInv, NEW s \in Steps, NameStep(s), Carries(s), Waits(s), Arrived(s)
  PROVE  Waits(s)' /\ Arrived(s)'
<1>1. CASE Holds(s)
  BY <1>1, CarryAlike DEF Holds
<1>2. CASE Tells(s)
  <2>1. PICK o \in Outcomes : Told(s, o) /\ o # "Succeeded"
    BY <1>2 DEF Tells
  <2>2. task'[s].result # "Succeeded" /\ task'[s].at \in {"closing", "done"}
    BY <2>1 DEF Told
  <2>3. task'[s].at \notin Held
    BY <2>2 DEF Held, Working
  <2> QED
    BY <2>2, <2>3 DEF Waits, Arrived
<1>3. CASE Puts(s)
  <2>1. Opened(s) /\ task'[s].at \in {"closing", "done"}
    BY <1>3 DEF Puts, Told
  <2>2. PICK p \in Makes(s) : Place(s, p)
    BY <1>3 DEF Puts
  <2>3. /\ p \in {Plan[s].dst, Alternate[Plan[s].dst]} /\ p \in Paths
        /\ Plan[s].src \in Paths
    BY <2>2, CarriedPaths
  <2>4. task[s].at \notin {"closing", "done"} /\ Present(Plan[s].src)
    BY <2>1 DEF Opened, Waits, Held, Working
  <2>5. PICK before \in InitialFiles : files[Plan[s].src] = before[Plan[s].src]
    BY <2>4 DEF Waits
  <2>6. files'[p] = files[Plan[s].src]
    BY <2>2, <2>3 DEF Place, Product, Carries
  <2>7. Delivered(s)'
    BY <2>3, <2>4, <2>5, <2>6 DEF Delivered, Present
  <2>8. task'[s].at \notin Held
    BY <2>1 DEF Held, Working
  <2> QED
    BY <2>1, <2>7, <2>8 DEF Waits, Arrived
<1>4. CASE Clears(s)
  BY <1>4 DEF Clears
<1> QED
  BY <1>1, <1>2, <1>3, <1>4 DEF NameStep

LEMMA CarryStarts == Init => CarryInv
<1> SUFFICES ASSUME Init, NEW s \in Steps, Carries(s)
             PROVE  Waits(s) /\ Arrived(s)
  BY OrderStarts DEF CarryInv
<1>1. task[s] = Idle /\ files \in InitialFiles
  BY DEF Init
<1> QED
  BY <1>1 DEF Waits, Arrived, Idle, Held, Working

LEMMA CarryStep == SourcesLast /\ OwnNames /\ CarryInv /\ [Next]_vars => CarryInv'
<1> SUFFICES ASSUME SourcesLast, OwnNames, CarryInv, [Next]_vars
             PROVE  CarryInv'
  OBVIOUS
<1>1. OrderInv /\ Typed /\ Shape /\ OrderInv'
  BY OrderStep DEF CarryInv, OrderInv
<1>2. SUFFICES ASSUME NEW s \in Steps, Carries(s)
               PROVE  Waits(s)' /\ Arrived(s)'
  BY <1>1 DEF CarryInv, Carries
<1>3. Waits(s) /\ Arrived(s)
  BY <1>2 DEF CarryInv
<1>4. CASE \E t \in Steps : Progress(t) \/ ResolverAnswers(t) \/ CallFails(t)
  <2>1. PICK t \in Steps : Progress(t) \/ ResolverAnswers(t) \/ CallFails(t)
    BY <1>4
  <2>2. NameStep(t) /\ TaskStep(t)
    BY <1>1, <2>1, StepsAreNameSteps, StepsAreTaskSteps
  <2>3. CASE s = t
    BY <1>1, <1>2, <1>3, <2>2, <2>3, CarryMoves
  <2>4. CASE s # t
    <3>1. task'[s] = task[s]
      BY <2>2, <2>4 DEF TaskStep, Alone
    <3> QED
      BY <1>1, <1>2, <1>3, <2>2, <2>4, <3>1, CarryApart
  <2> QED
    BY <2>3, <2>4
<1>5. CASE \A t \in Steps : ~(Progress(t) \/ ResolverAnswers(t) \/ CallFails(t))
  <2>1. UNCHANGED files /\ Rests(s) /\ (task'[s].at \in Held => task[s].at \in Held)
    BY <1>1, <1>5, OthersRest
  <2> QED
    BY <1>2, <1>3, <2>1, CarryAlike DEF Opened
<1> QED
  BY <1>4, <1>5

(* The outcome a job ends with is true of the disk: when it is Completed,  *)
(* every file the plan carries is at its destination or the alternate,     *)
(* whatever the errors, the conflicts and the order of the copies were.    *)
(* This is for the plans whose removals come after, and whose names are    *)
(* apart.                                                                  *)
THEOREM OutcomeIsHonestHolds ==
  ASSUME SourcesLast, OwnNames
  PROVE  Spec => []OutcomeIsHonest
<1>1. CarryInv => OutcomeIsHonest
  BY DEF CarryInv, OrderInv, OutcomeIsHonest, OutcomeIsReported, Arrived, Delivered
<1>2. CarryInv /\ [Next]_vars => CarryInv'
  BY CarryStep
<1> QED
  BY <1>1, <1>2, CarryStarts, PTL DEF Spec

-----------------------------------------------------------------------------
(* A name that is taken from the start stays so: what is put in its place  *)
(* is there when the old entry goes.                                       *)
LEMMA TakenStarts == Init => OldOrNew
<1> SUFFICES ASSUME Init, NEW s \in Steps, Taken(s)
             PROVE  Present(Plan[s].dst)
  BY DEF OldOrNew
<1> QED
  BY DEF Init, Taken, Present

LEMMA TakenStep ==
  TakenStay /\ CarryInv /\ OldOrNew /\ [Next]_vars => OldOrNew'
<1> SUFFICES ASSUME TakenStay, CarryInv, OldOrNew, [Next]_vars, NEW s \in Steps, Taken(s)
             PROVE  Present(Plan[s].dst)'
  BY DEF OldOrNew, Taken
<1>1. OrderInv /\ Typed /\ Shape
  BY DEF CarryInv, OrderInv
<1> DEFINE p == Plan[s].dst
<1>2. p \in Paths /\ Present(p)
  BY PlanParts DEF OldOrNew
<1>3. CASE files' = files
  BY <1>2, <1>3 DEF Present
<1>4. CASE files' # files
  <2>1. PICK t \in Steps : Progress(t) \/ ResolverAnswers(t) \/ CallFails(t)
    BY <1>1, <1>4, OthersRest
  <2>2. Puts(t) \/ Clears(t)
    BY <1>1, <1>4, <2>1, StepsAreNameSteps DEF NameStep, Holds, Tells
  <2>3. p \notin Drops(t)
    BY DEF TakenStay
  <2>4. CASE Clears(t)
    BY <1>1, <1>2, <2>3, <2>4 DEF Clears, Present, Typed
  <2>5. CASE Puts(t)
    <3>1. PICK q \in Makes(t) :
            /\ Place(t, q)
            /\ ~Present(q) \/ Carries(t) \/ Product(t) # "none" \/ q \in Drops(t)
      BY <2>5 DEF Puts
    <3>2. Carries(t) => Product(t) # "none"
      <4>1. Carries(t) => Waits(t)
        BY DEF CarryInv
      <4>2. Opened(t)
        BY <2>5 DEF Puts
      <4> QED
        BY <4>1, <4>2 DEF Opened, Waits, Present, Product, Carries
    <3>3. CASE p = q
      <4>1. Product(t) # "none"
        BY <1>2, <2>3, <3>1, <3>2, <3>3
      <4> QED
        BY <1>2, <3>1, <3>3, <4>1 DEF Place, Present
    <3>4. CASE p # q
      <4>1. Plan[t].kind = "Rename" => p # Plan[t].src
        BY <2>3 DEF Drops
      <4> QED
        BY <1>2, <3>1, <3>4, <4>1 DEF Place, Present
    <3> QED
      BY <3>3, <3>4
  <2> QED
    BY <2>2, <2>4, <2>5
<1> QED
  BY <1>3, <1>4

(* What a conflict policy may replace is never missing, while the plan     *)
(* replaces it in one call: a link, a symbolic link or a directory that    *)
(* replaces an entry removes it first, and is not among these.             *)
THEOREM OldOrNewHolds ==
  ASSUME SourcesLast, OwnNames, TakenStay
  PROVE  Spec => []OldOrNew
<1>1. CarryInv /\ [Next]_vars => CarryInv'
  BY CarryStep
<1>2. CarryInv /\ OldOrNew /\ [Next]_vars => OldOrNew'
  BY TakenStep
<1> QED
  BY <1>1, <1>2, CarryStarts, TakenStarts, PTL DEF Spec

-----------------------------------------------------------------------------
(* A rename into the trash, and the step that writes its sidecar.          *)
Trashes(s) == Plan[s].kind = "Rename" /\ Plan[s].dep # 0

Sidecar(i, p) ==
  /\ task[i].at \notin Held /\ outcomes[i] # "Skipped"
  /\ outcomes[i] = "Succeeded" => files[p] = "trashinfo"

Follows(s, i) ==
  task[s].at \in Held \/ s \in acted =>
    task[i].at = "done" /\ outcomes[i] = "Succeeded"

TrashInv ==
  /\ OrderInv
  /\ \A s \in Steps : Trashes(s) =>
       Sidecar(Plan[s].dep, Plan[Plan[s].dep].dst) /\ Follows(s, Plan[s].dep)

LEMMA SidecarParts ==
  ASSUME SidecarsOwn, NEW s \in Steps, Trashes(s), NEW i, i = Plan[s].dep
  PROVE  /\ i \in Steps /\ i < s
         /\ Plan[i].kind = "WriteTrashInfo" /\ Plan[i].dep = 0 /\ Plan[i].dst \in Paths
         /\ \A t \in Steps : t # i => Plan[i].dst \notin Touches(t)
<1>1. i \in Steps /\ i < s
  BY PlanParts DEF Trashes
<1> QED
  BY <1>1, PlanParts DEF SidecarsOwn, Trashes

LEMMA SidecarKept ==
  ASSUME SidecarsOwn, Typed, NEW s \in Steps, Trashes(s), NEW i, i = Plan[s].dep,
         Sidecar(i, Plan[i].dst), NEW t \in Steps, NameStep(t), TaskStep(t)
  PROVE  Sidecar(i, Plan[i].dst)'
<1> DEFINE p == Plan[i].dst
<1>1. /\ i \in Steps /\ p \in Paths
      /\ Plan[i].kind = "WriteTrashInfo" /\ Plan[i].dep = 0
      /\ \A u \in Steps : u # i => p \notin Touches(u)
  BY SidecarParts
<1>2. CASE t # i
  <2>1. task'[i] = task[i] /\ outcomes'[i] = outcomes[i]
    BY <1>1, <1>2, OutcomesWhere DEF TaskStep, Alone
  <2>2. files'[p] = files[p]
    BY <1>1, <1>2, Untouched
  <2> QED
    BY <2>1, <2>2 DEF Sidecar
<1>3. CASE t = i
  <2>1. task[i].at \notin Held
    BY DEF Sidecar
  <2>2. CASE Holds(i)
    BY <1>1, <2>1, <2>2 DEF Holds, Sidecar
  <2>3. CASE Tells(i)
    <3>1. PICK o \in Outcomes : Told(i, o) /\ o # "Succeeded" /\ o # "Skipped"
      BY <1>1, <2>1, <2>3 DEF Tells
    <3>2. outcomes'[i] = o /\ task'[i].at \in {"closing", "done"}
      BY <1>1, <3>1 DEF Told, Typed
    <3> QED
      BY <3>1, <3>2 DEF Sidecar, Held, Working
  <2>4. CASE Puts(i)
    <3>1. Place(i, p) /\ Told(i, "Succeeded")
      BY <1>1, <2>1, <2>4 DEF Puts
    <3>2. files'[p] = "trashinfo"
      BY <1>1, <3>1 DEF Place, Product
    <3>3. outcomes'[i] = "Succeeded" /\ task'[i].at \in {"closing", "done"}
      BY <1>1, <3>1 DEF Told, Typed
    <3> QED
      BY <3>2, <3>3 DEF Sidecar, Held, Working
  <2>5. CASE Clears(i)
    BY <1>1, <2>5 DEF Clears
  <2> QED
    BY <1>3, <2>2, <2>3, <2>4, <2>5 DEF NameStep
<1> QED
  BY <1>2, <1>3

(* A rename starts only if its sidecar has been written: it is strict, so  *)
(* that every step before it has ended, and it is blocked if that failed.  *)
LEMMA FollowsKept ==
  ASSUME SidecarsOwn, OrderInv, NEW s \in Steps, Trashes(s), NEW i, i = Plan[s].dep,
         Sidecar(i, Plan[i].dst), Follows(s, i), NEW t \in Steps, NameStep(t), TaskStep(t)
  PROVE  Follows(s, i)'
<1>1. /\ i \in Steps /\ i < s /\ Typed /\ ~RedoSafe(s) /\ ~(Plan[s].dep = 0)
  BY SidecarParts DEF OrderInv, Trashes, RedoSafe
<1>2. SUFFICES ASSUME task'[s].at \in Held \/ s \in acted'
               PROVE  task'[i].at = "done" /\ outcomes'[i] = "Succeeded"
  BY DEF Follows
<1>3. task[i].at = "done" /\ outcomes[i] = "Succeeded"
  <2>1. CASE task[s].at \in Held \/ s \in acted
    BY <2>1 DEF Follows
  <2>2. CASE task[s].at \notin Held /\ s \notin acted
    <3>1. t = s
      BY <1>2, <2>2, ActedWhere DEF TaskStep, Alone
    <3>2. Opened(s)
      <4>1. Carries(s)
        BY DEF Trashes, Carries
      <4>2. CASE Holds(s)
        BY <1>2, <2>2, <4>2 DEF Holds
      <4>3. CASE Tells(s)
        BY <1>2, <2>2, <4>3 DEF Tells, Told, Held, Working
      <4>4. CASE Puts(s)
        BY <4>4 DEF Puts
      <4>5. CASE Clears(s)
        BY <4>1, <4>5 DEF Clears
      <4> QED
        BY <3>1, <4>2, <4>3, <4>4, <4>5 DEF NameStep
    <3>3. task[s].at = "run" /\ ~Blocked(s)
      BY <2>2, <3>2 DEF Opened
    <3>4. task[s].at \in Working
      BY <3>3 DEF Working
    <3>5. Heard(i) /\ task[i].at = "done"
      BY <1>1, <3>4, WorkingBehind DEF OrderInv
    <3>6. outcomes[i] \in Outcomes \cup {"none"} /\ outcomes[i] # "Skipped"
            /\ outcomes[i] # "Failed"
      BY <1>1, <3>3 DEF Typed, Sidecar, Blocked
    <3> QED
      BY <3>5, <3>6 DEF Heard, Outcomes
  <2> QED
    BY <2>1, <2>2
<1>4. t # i
  BY <1>3 DEF TaskStep, Alone, Stopped
<1> QED
  BY <1>1, <1>3, <1>4, OutcomesWhere DEF TaskStep, Alone

LEMMA TrashStarts == Init => TrashInv
<1> SUFFICES ASSUME Init, NEW s \in Steps, Trashes(s)
             PROVE  /\ Sidecar(Plan[s].dep, Plan[Plan[s].dep].dst)
                    /\ Follows(s, Plan[s].dep)
  BY OrderStarts DEF TrashInv
<1>1. Plan[s].dep \in Steps
  BY PlanParts DEF Trashes
<1>2. task = [t \in Steps |-> Idle] /\ outcomes = [t \in Steps |-> "none"] /\ acted = {}
  BY DEF Init
<1> QED
  BY <1>1, <1>2 DEF Sidecar, Follows, Idle, Held, Working

LEMMA TrashStep == SidecarsOwn /\ TrashInv /\ [Next]_vars => TrashInv'
<1> SUFFICES ASSUME SidecarsOwn, TrashInv, [Next]_vars
             PROVE  TrashInv'
  OBVIOUS
<1>1. OrderInv /\ Typed /\ Shape /\ OrderInv'
  BY OrderStep DEF TrashInv, OrderInv
<1>2. SUFFICES ASSUME NEW s \in Steps, Trashes(s), NEW i \in Steps, i = Plan[s].dep
               PROVE  Sidecar(i, Plan[i].dst)' /\ Follows(s, i)'
  <2>1. ASSUME NEW s \in Steps, Trashes(s)
        PROVE  /\ Sidecar(Plan[s].dep, Plan[Plan[s].dep].dst)'
               /\ Follows(s, Plan[s].dep)'
    <3>1. Plan[s].dep \in Steps
      BY <2>1, PlanParts DEF Trashes
    <3> QED
      BY <1>2, <2>1, <3>1
  <2> QED
    BY <1>1, <2>1 DEF TrashInv, Trashes
<1>3. Sidecar(i, Plan[i].dst) /\ Follows(s, i)
  BY <1>2 DEF TrashInv
<1>4. CASE \E t \in Steps : Progress(t) \/ ResolverAnswers(t) \/ CallFails(t)
  <2>1. PICK t \in Steps : Progress(t) \/ ResolverAnswers(t) \/ CallFails(t)
    BY <1>4
  <2>2. NameStep(t) /\ TaskStep(t)
    BY <1>1, <2>1, StepsAreNameSteps, StepsAreTaskSteps
  <2> QED
    BY <1>1, <1>2, <1>3, <2>2, SidecarKept, FollowsKept
<1>5. CASE \A t \in Steps : ~(Progress(t) \/ ResolverAnswers(t) \/ CallFails(t))
  <2>1. UNCHANGED <<files, acted, outcomes>>
          /\ \A u \in Steps : Rests(u) /\ (task'[u].at \in Held => task[u].at \in Held)
    BY <1>1, <1>5, OthersRest
  <2>2. task[i].at = "done" => task'[i].at = "done"
    BY <2>1 DEF Rests
  <2> QED
    BY <1>2, <1>3, <2>1, <2>2 DEF Sidecar, Follows
<1> QED
  BY <1>4, <1>5

(* What has been moved to the trash has its sidecar beside it, whichever   *)
(* of the two steps failed, was retried or was refused by the journal.     *)
THEOREM TrashedHasInfoHolds ==
  ASSUME SidecarsOwn
  PROVE  Spec => []TrashedHasInfo
<1>1. TrashInv => TrashedHasInfo
  <2> SUFFICES ASSUME TrashInv, NEW s \in acted, Plan[s].kind = "Rename", Plan[s].dep # 0
               PROVE  files[Plan[Plan[s].dep].dst] = "trashinfo"
    BY DEF TrashedHasInfo
  <2>1. s \in Steps /\ Trashes(s)
    BY DEF TrashInv, OrderInv, Typed, Trashes
  <2> QED
    BY <2>1 DEF TrashInv, Sidecar, Follows
<1>2. TrashInv /\ [Next]_vars => TrashInv'
  BY TrashStep
<1> QED
  BY <1>1, <1>2, TrashStarts, PTL DEF Spec

-----------------------------------------------------------------------------
(* Where the content of a move is: still at its source, or at a name of    *)
(* its own, unless its removal was let past a copy that did not deliver.   *)
Away(c, before) ==
  (\E p \in Makes(c) : files[p] = before[Plan[c].src]) \/ Risked(c)

Somewhere(c, before) ==
  /\ files[Plan[c].src] = before[Plan[c].src] \/ Away(c, before)
  /\ outcomes[c] = "Succeeded" => Away(c, before)
  /\ \A v \in Steps :
       Checks(v, c) /\ outcomes[v] \in {"Succeeded", "Skipped"} => Away(c, before)

Over(s) == outcomes[s] # "none" => task[s].at \in {"closing", "done"}

MoveInv ==
  /\ CarryInv
  /\ \A s \in Steps : Over(s)
  /\ \A c \in Steps : Carries(c) => \A before \in InitialFiles : Somewhere(c, before)

LEMMA KeptIsLast == SourcesKept => SourcesLast
<1> SUFFICES ASSUME SourcesKept, NEW s \in Steps, NEW t \in Steps, Carries(s), t # s,
                    Plan[s].src \in Touches(t)
             PROVE  t > s /\ Plan[t].kind \in OnceOnly
  BY DEF SourcesLast
<1>1. /\ Plan[t].kind = "Remove" /\ Plan[t].dep # 0
      /\ Plan[t].dep = s \/ Plan[Plan[t].dep].dep = s
  BY DEF SourcesKept, Checks
<1>2. /\ Plan[t].dep \in Steps /\ Plan[t].dep < t /\ Plan[Plan[t].dep].dep < Plan[t].dep
      /\ Steps \subseteq Nat
  BY <1>1, PlanParts, SizeOfPlan
<1>3. t > s
  <2>1. PICK d \in Nat : d = Plan[t].dep
    BY <1>2
  <2>2. t \in Nat /\ s \in Nat /\ d < t /\ (s = d \/ s < d)
    BY <1>1, <1>2, <2>1
  <2> QED
    BY <2>2
<1> QED
  BY <1>1, <1>3 DEF OnceOnly

(* A step tells its outcome once. *)
LEMMA OverKept ==
  ASSUME Typed, NEW s \in Steps, Over(s), NEW t \in Steps, NameStep(t), TaskStep(t)
  PROVE  Over(s)' /\ (outcomes[s] # "none" => outcomes'[s] = outcomes[s])
<1>1. CASE s # t
  BY <1>1, OutcomesWhere DEF TaskStep, Alone, Over
<1>2. CASE s = t
  <2>1. CASE UNCHANGED outcomes
    <3>1. task[s].at \in {"closing", "done"} => task'[s].at \in {"closing", "done"}
      BY <1>2 DEF NameStep, Holds, Tells, Puts, Clears, Told, Rests
    <3> QED
      BY <2>1, <3>1 DEF Over
  <2>2. CASE Concludes(s)
    <3>1. task[s].at \in Working /\ task'[s].at \in {"closing", "done"}
      BY <2>2 DEF Concludes
    <3> QED
      BY <3>1 DEF Over, Working
  <2> QED
    BY <1>2, <2>1, <2>2
       DEF TaskStep, Enters, Asks, Admitted, Refuses, Closes, Leaves, Works
<1> QED
  BY <1>1, <1>2

LEMMA RiskedStays ==
  ASSUME NEW c \in Steps, outcomes[c] # "none" => outcomes'[c] = outcomes[c], Risked(c)
  PROVE  Risked(c)'
BY DEF Risked

LEMMA AwayStays ==
  ASSUME NEW c \in Steps, NEW before \in InitialFiles, Away(c, before),
         \A p \in Makes(c) : files'[p] = files[p],
         outcomes[c] # "none" => outcomes'[c] = outcomes[c]
  PROVE  Away(c, before)'
<1>1. CASE Risked(c)
  BY <1>1, RiskedStays DEF Away
<1>2. CASE \E p \in Makes(c) : files[p] = before[Plan[c].src]
  <2>1. Makes(c)' = Makes(c)
    BY DEF Makes
  <2> QED
    BY <1>2, <2>1 DEF Away
<1> QED
  BY <1>1, <1>2 DEF Away

(* A move that is verified removes its source for a verification that      *)
(* held, or that was skipped because its copy had failed.                  *)
LEMMA SomewhereApart ==
  ASSUME SourcesKept, OwnNames, Typed, OrderInv', NEW t \in Steps, NameStep(t), TaskStep(t),
         NEW c \in Steps, Carries(c), c # t, Over(c),
         NEW before \in InitialFiles, Somewhere(c, before)
  PROVE  Somewhere(c, before)'
<1>1. /\ Plan[c].src \in Paths /\ Makes(c) \subseteq Paths /\ Plan[c].dst \in Makes(c)
      /\ \A p \in Makes(c) : files'[p] = files[p]
  <2>1. Plan[c].src \in Paths /\ Makes(c) \subseteq Paths /\ Plan[c].dst \in Makes(c)
    BY CarriedPaths
  <2>2. Makes(c) \cap Touches(t) = {}
    BY DEF OwnNames
  <2> QED
    BY <2>1, <2>2, Untouched
<1>2. \A s \in Steps : s # t => outcomes'[s] = outcomes[s]
  BY OutcomesWhere
<1>3. Away(c, before) => Away(c, before)'
  BY <1>1, <1>2, AwayStays
<1>4. files'[Plan[c].src] = before[Plan[c].src] \/ Away(c, before)'
  <2>1. CASE Away(c, before)
    BY <1>3, <2>1
  <2>2. CASE files'[Plan[c].src] = files[Plan[c].src]
    BY <1>3, <2>2 DEF Somewhere
  <2>3. CASE files'[Plan[c].src] # files[Plan[c].src]
    <3>1. Plan[c].src \in Touches(t)
      BY <1>1, <2>3, Untouched
    <3>2. /\ Plan[t].kind = "Remove" /\ Plan[t].dep # 0
          /\ Plan[t].dep = c \/ Checks(Plan[t].dep, c)
      BY <3>1 DEF SourcesKept
    <3>3. t \in acted'
      BY <2>3 DEF NameStep, Holds, Tells, Puts, Clears, Place
    <3>4. outcomes'[Plan[t].dep] \in {"Succeeded", "Skipped"}
      BY <3>2, <3>3 DEF OrderInv, Gated
    <3>5. Plan[t].dep \in Steps /\ Plan[t].dep # t
      BY <3>2, PlanParts, SizeOfPlan
    <3>6. outcomes[Plan[t].dep] \in {"Succeeded", "Skipped"}
      BY <1>2, <3>4, <3>5
    <3>7. Away(c, before)
      BY <3>2, <3>5, <3>6 DEF Somewhere, Away, Risked
    <3> QED
      BY <1>3, <3>7
  <2> QED
    BY <2>2, <2>3
<1>5. outcomes'[c] = "Succeeded" => Away(c, before)'
  BY <1>2, <1>3 DEF Somewhere
<1>6. ASSUME NEW v \in Steps, Checks(v, c), outcomes'[v] \in {"Succeeded", "Skipped"}
      PROVE  Away(c, before)'
  <2>1. CASE outcomes'[v] = outcomes[v]
    BY <1>3, <1>6, <2>1 DEF Somewhere
  <2>2. CASE outcomes'[v] # outcomes[v]
    <3>1. v = t /\ Plan[v].kind = "Verify"
      BY <1>2, <1>6, <2>2 DEF Checks
    <3>2. Tells(v)
      BY <2>2, <3>1 DEF NameStep, Holds, Puts, Clears, Makers, Drops
    <3>3. PICK o \in Outcomes :
            /\ Told(v, o)
            /\ o = "Succeeded" => files[Plan[v].src] = files[Plan[v].dst]
            /\ o = "Skipped" => Blocked(v)
      BY <3>1, <3>2 DEF Tells
    <3>4. outcomes'[v] = o
      BY <3>3 DEF Told, Typed
    <3>5. CASE o = "Succeeded"
      <4>1. files[Plan[c].src] = files[Plan[c].dst]
        BY <1>6, <3>3, <3>5 DEF Checks
      <4> QED
        BY <1>1, <1>3, <4>1 DEF Somewhere, Away
    <3>6. CASE o = "Skipped"
      <4>1. outcomes[c] = "Failed"
        BY <1>6, <3>3, <3>6 DEF Checks, Blocked
      <4> QED
        BY <1>3, <4>1 DEF Away, Risked
    <3> QED
      BY <1>6, <3>4, <3>5, <3>6
  <2> QED
    BY <2>1, <2>2
<1>7. \A v \in Steps : Checks(v, c)' <=> Checks(v, c)
  BY DEF Checks
<1> QED
  BY <1>4, <1>5, <1>6, <1>7 DEF Somewhere

LEMMA SomewhereMoves ==
  ASSUME SourcesKept, CarryInv, NEW c \in Steps, Carries(c), NameStep(c), TaskStep(c), Over(c),
         NEW before \in InitialFiles, Somewhere(c, before)
  PROVE  Somewhere(c, before)'
<1>1. Typed /\ Waits(c)
  BY DEF CarryInv, OrderInv
<1>2. /\ \A s \in Steps : s # c => outcomes'[s] = outcomes[s]
      /\ \A v \in Steps : Checks(v, c) => v # c
      /\ \A v \in Steps : Checks(v, c)' <=> Checks(v, c)
      /\ outcomes[c] # "none" => outcomes'[c] = outcomes[c]
  BY <1>1, OutcomesWhere, OverKept DEF Checks, Carries
<1>3. CASE UNCHANGED files /\ (outcomes'[c] = "Succeeded" => outcomes[c] = "Succeeded")
  <2>1. Away(c, before) => Away(c, before)'
    BY <1>2, <1>3, AwayStays
  <2> QED
    BY <1>2, <1>3, <2>1 DEF Somewhere
<1>4. CASE Puts(c)
  <2>1. Opened(c)
    BY <1>4 DEF Puts
  <2>2. PICK p \in Makes(c) : Place(c, p)
    BY <1>4 DEF Puts
  <2>3. p \in Paths
    BY <2>2, CarriedPaths
  <2>4. task[c].at \notin {"closing", "done"}
    BY <2>1 DEF Opened, Held, Working
  <2>5. PICK other \in InitialFiles : files[Plan[c].src] = other[Plan[c].src]
    BY <1>1, <2>4 DEF Waits
  <2>6. files'[p] = before[Plan[c].src]
    BY <2>2, <2>3, <2>5 DEF Place, Product, Carries, SourcesKept
  <2>7. Makes(c)' = Makes(c)
    BY DEF Makes
  <2>8. Away(c, before)'
    BY <2>2, <2>6, <2>7 DEF Away
  <2> QED
    BY <2>8 DEF Somewhere
<1>5. CASE Tells(c)
  <2>1. PICK o \in Outcomes : Told(c, o) /\ o # "Succeeded"
    BY <1>5 DEF Tells
  <2>2. outcomes'[c] = o /\ UNCHANGED files
    BY <1>1, <1>5, <2>1 DEF Told, Tells, Typed
  <2> QED
    BY <1>3, <2>1, <2>2
<1>6. CASE Holds(c)
  BY <1>3, <1>6 DEF Holds
<1>7. CASE Clears(c)
  BY <1>7 DEF Clears
<1> QED
  BY <1>4, <1>5, <1>6, <1>7 DEF NameStep

LEMMA MoveStarts == SourcesKept /\ Init => MoveInv
<1> SUFFICES ASSUME SourcesKept, Init
             PROVE  MoveInv
  OBVIOUS
<1>1. files \in InitialFiles /\ outcomes = [s \in Steps |-> "none"]
  BY DEF Init
<1>2. ASSUME NEW c \in Steps, Carries(c), NEW before \in InitialFiles
      PROVE  Somewhere(c, before)
  BY <1>1, <1>2 DEF Somewhere, SourcesKept
<1>3. \A s \in Steps : Over(s)
  BY <1>1 DEF Over
<1> QED
  BY <1>2, <1>3, CarryStarts DEF MoveInv

LEMMA MoveStep == SourcesKept /\ OwnNames /\ MoveInv /\ [Next]_vars => MoveInv'
<1> SUFFICES ASSUME SourcesKept, OwnNames, MoveInv, [Next]_vars
             PROVE  MoveInv'
  OBVIOUS
<1>1. CarryInv /\ CarryInv' /\ Typed /\ Shape /\ OrderInv'
  BY KeptIsLast, CarryStep DEF MoveInv, CarryInv, OrderInv
<1>2. SUFFICES ASSUME NEW c \in Steps
               PROVE  /\ Over(c)'
                      /\ Carries(c) =>
                           \A before \in InitialFiles : Somewhere(c, before)'
  BY <1>1 DEF MoveInv, Carries
<1>3. Over(c) /\ (Carries(c) => \A before \in InitialFiles : Somewhere(c, before))
  BY DEF MoveInv
<1>4. CASE \E t \in Steps : Progress(t) \/ ResolverAnswers(t) \/ CallFails(t)
  <2>1. PICK t \in Steps : Progress(t) \/ ResolverAnswers(t) \/ CallFails(t)
    BY <1>4
  <2>2. NameStep(t) /\ TaskStep(t)
    BY <1>1, <2>1, StepsAreNameSteps, StepsAreTaskSteps
  <2>3. Over(c)'
    BY <1>1, <1>3, <2>2, OverKept
  <2>4. ASSUME Carries(c), NEW before \in InitialFiles
        PROVE  Somewhere(c, before)'
    BY <1>1, <1>3, <2>2, <2>4, SomewhereApart, SomewhereMoves
  <2> QED
    BY <2>3, <2>4
<1>5. CASE \A t \in Steps : ~(Progress(t) \/ ResolverAnswers(t) \/ CallFails(t))
  <2>1. UNCHANGED <<files, outcomes>> /\ Rests(c)
    BY <1>1, <1>5, OthersRest
  <2>2. Over(c)'
    BY <1>3, <2>1 DEF Over, Rests
  <2>3. \A before \in InitialFiles : Somewhere(c, before) => Somewhere(c, before)'
    BY <2>1 DEF Somewhere, Away, Risked, Makes, Checks
  <2> QED
    BY <1>3, <2>2, <2>3
<1> QED
  BY <1>4, <1>5

(* A move loses no content, whatever is retried, interrupted, cancelled,   *)
(* refused or answered, but by a removal that was let past a copy which    *)
(* did not deliver: the two cases of Risked are all there are.             *)
THEOREM NothingLostHolds ==
  ASSUME SourcesKept, OwnNames
  PROVE  Spec => []((\A s \in Steps : Carries(s) => ~Risked(s)) => NothingLost)
<1>1. MoveInv => ((\A s \in Steps : Carries(s) => ~Risked(s)) => NothingLost)
  <2> SUFFICES ASSUME MoveInv, \A s \in Steps : Carries(s) => ~Risked(s),
                      NEW content \in Payload \ {"none"}
               PROVE  \E p \in Paths : files[p] = content
    BY DEF NothingLost
  <2>1. PICK before \in InitialFiles, s \in Steps :
          Plan[s].src # "none" /\ content = before[Plan[s].src]
    BY DEF Payload
  <2>2. PICK c \in Steps : Carries(c) /\ Plan[c].src = Plan[s].src
    BY <2>1 DEF SourcesKept
  <2>3. Somewhere(c, before) /\ ~Risked(c)
    BY <2>2 DEF MoveInv
  <2>4. Makes(c) \subseteq Paths /\ Plan[c].src \in Paths
    BY <2>2, CarriedPaths
  <2> QED
    BY <2>1, <2>2, <2>3, <2>4 DEF Somewhere, Away
<1>2. MoveInv /\ [Next]_vars => MoveInv'
  BY MoveStep
<1>3. Init => MoveInv
  BY MoveStarts
<1> QED
  BY <1>1, <1>2, <1>3, PTL DEF Spec

-----------------------------------------------------------------------------
(* The partials and the report a crash would leave: a copy's Intents are   *)
(* numbered upwards, to the attempt it is at, and a copy that has not      *)
(* ended has no Completion.                                                *)
Asked(i, s) == journal.sent[i].type = "Intent" /\ journal.sent[i].step = s

Shut(s) == task[s].at \in {"closing", "done"}

Numbered(s) ==
  /\ task[s].at = "idle" => task[s].attempt <= 1
  /\ \A i \in 1..Len(journal.sent) : Asked(i, s) =>
       /\ journal.sent[i].partial \in 1..task[s].attempt
       /\ \A j \in 1..(i - 1) :
            Asked(j, s) => journal.sent[j].partial <= journal.sent[i].partial
  /\ ~Shut(s) => \A i \in 1..Len(journal.sent) : ~Completes(i, s)
  /\ Heard(s) => Shut(s)

Advances(s) ==
  /\ task'[s].attempt >= task[s].attempt
  /\ task'[s].at = "idle" => task'[s].attempt <= 1
  /\ Shut(s) => Shut(s)'
  /\ \A i \in (Len(journal.sent) + 1)..Len(journal'.sent) :
       /\ Asked(i, s)' => journal'.sent[i].partial = task'[s].attempt /\ task'[s].attempt >= 1
       /\ Completes(i, s)' => Shut(s)'
  /\ outcomes'[s] = outcomes[s] \/ Shut(s)'

LEMMA AdvancesNumbered ==
  ASSUME Typed, Typed', Grown, NEW s \in Steps, Numbered(s), Advances(s)
  PROVE  Numbered(s)'
<1> DEFINE n == Len(journal.sent)
           m == Len(journal'.sent)
           a == task[s].attempt
           b == task'[s].attempt
<1>1. n \in Nat /\ m \in Nat /\ n <= m
  BY LenProperties DEF Typed, Logged, Grown
<1>2. a \in Nat /\ b \in Nat /\ a <= b
  BY DEF Typed, TaskState, Advances
<1>3. \A i \in 1..n : journal'.sent[i] = journal.sent[i]
  BY DEF Grown
<1>4. \A i \in 1..n : (Asked(i, s)' <=> Asked(i, s)) /\ (Completes(i, s)' <=> Completes(i, s))
  BY <1>3 DEF Asked, Completes
<1>5. \A i \in (n + 1)..m : Asked(i, s)' => journal'.sent[i].partial = b /\ b >= 1
  BY DEF Advances
<1>6. \A i \in 1..n : Asked(i, s) => journal.sent[i].partial \in 1..a
  BY DEF Numbered
<1>7. \A i \in 1..m : i \in 1..n \/ i \in (n + 1)..m
  BY <1>1
<1> HIDE DEF n, m, a, b
<1>8. ASSUME NEW i \in 1..m, Asked(i, s)'
      PROVE  journal'.sent[i].partial \in 1..b
  <2>1. CASE i \in 1..n
    <3>1. journal'.sent[i].partial \in 1..a
      BY <1>3, <1>4, <1>6, <1>8, <2>1
    <3> QED
      BY <1>2, <3>1
  <2>2. CASE i \in (n + 1)..m
    BY <1>2, <1>5, <1>8, <2>2
  <2> QED
    BY <1>7, <2>1, <2>2
<1>9. ASSUME NEW i \in 1..m, Asked(i, s)', NEW j \in 1..(i - 1), Asked(j, s)'
      PROVE  journal'.sent[j].partial <= journal'.sent[i].partial
  <2>1. j \in 1..m
    BY <1>1, <1>9
  <2>2. CASE i \in 1..n
    <3>1. j \in 1..n
      BY <1>1, <2>2
    <3>2. \A k \in 1..(i - 1) :
            Asked(k, s) => journal.sent[k].partial <= journal.sent[i].partial
      BY <1>4, <1>9, <2>2 DEF Numbered, n
    <3> QED
      BY <1>3, <1>4, <1>9, <2>2, <3>1, <3>2
  <2>3. CASE i \in (n + 1)..m
    <3>1. journal'.sent[i].partial = b
      BY <1>5, <1>9, <2>3
    <3>2. journal'.sent[j].partial \in 1..b
      BY <1>8, <1>9, <2>1
    <3> QED
      BY <1>2, <3>1, <3>2
  <2> QED
    BY <1>7, <2>2, <2>3
<1>10. ASSUME ~Shut(s)', NEW i \in 1..m, Completes(i, s)'
       PROVE  FALSE
  <2>1. CASE i \in 1..n
    <3>1. Completes(i, s)
      BY <1>4, <1>10, <2>1
    <3>2. ~Shut(s)
      BY <1>10 DEF Advances
    <3> QED
      BY <2>1, <3>1, <3>2 DEF Numbered, n
  <2>2. CASE i \in (n + 1)..m
    BY <1>10, <2>2 DEF Advances, n, m
  <2> QED
    BY <1>7, <2>1, <2>2
<1>11. Heard(s)' => Shut(s)'
  BY DEF Numbered, Advances, Heard
<1>12. task'[s].at = "idle" => b <= 1
  BY DEF Advances, b
<1> QED
  BY <1>8, <1>9, <1>10, <1>11, <1>12 DEF Numbered, m, b

(* Nothing new is said of a step whose task and whose records stay.        *)
LEMMA SilentAdvances ==
  ASSUME Typed, NEW s \in Steps, Numbered(s), task'[s] = task[s],
         outcomes'[s] = outcomes[s], Len(journal.sent) <= Len(journal'.sent),
         \A i \in (Len(journal.sent) + 1)..Len(journal'.sent) :
           /\ journal'.sent[i].type = "Intent" => journal'.sent[i].step # s
           /\ journal'.sent[i].type = "Completion" => journal'.sent[i].step # s
  PROVE  Advances(s)
<1>1. task[s].attempt \in Nat
  BY DEF Typed, TaskState
<1> QED
  BY <1>1 DEF Advances, Numbered, Asked, Completes, Shut

LEMMA OneRecord ==
  ASSUME Typed, NEW record \in Lines, journal' = Queue(<<record>>)
  PROVE  /\ Len(journal.sent) \in Nat /\ Len(journal'.sent) = Len(journal.sent) + 1
         /\ \A i \in (Len(journal.sent) + 1)..Len(journal'.sent) : journal'.sent[i] = record
<1>1. Len(journal.sent) \in Nat
  BY LenProperties DEF Typed, Logged
<1>2. /\ Len(journal'.sent) = Len(journal.sent) + 1
      /\ journal'.sent[Len(journal.sent) + 1] = record
  BY QueueOne DEF Typed
<1>3. \A i \in (Len(journal.sent) + 1)..Len(journal'.sent) : i = Len(journal.sent) + 1
  BY <1>1, <1>2
<1> QED
  BY <1>1, <1>2, <1>3

LEMMA NoRecord ==
  ASSUME Typed, journal'.sent = journal.sent
  PROVE  /\ Len(journal.sent) <= Len(journal'.sent)
         /\ (Len(journal.sent) + 1)..Len(journal'.sent) = {}
BY LenProperties DEF Typed, Logged

LEMMA TaskStepAdvances ==
  ASSUME Typed, NEW t \in Steps, TaskStep(t), NEW s \in Steps, CopyClass(s), Numbered(s)
  PROVE  Advances(s)
<1>1. /\ Alone(t) /\ task[t] \in TaskState /\ task'[t] \in TaskState
      /\ task[t].attempt \in Nat /\ task'[t].attempt \in Nat
  BY DEF Typed, TaskStep, Alone, TaskState
<1>2. \/ journal' = journal
      \/ Asks(t)
      \/ Concludes(t)
  BY DEF TaskStep, Enters, Admitted, Refuses, Closes, Leaves, Works
<1>3. ASSUME Asks(t)
      PROVE  /\ Len(journal.sent) <= Len(journal'.sent)
             /\ \A i \in (Len(journal.sent) + 1)..Len(journal'.sent) :
                  journal'.sent[i] = Intent(t, PartialOf(t, task'[t].attempt))
  <2>1. Intent(t, PartialOf(t, task'[t].attempt)) \in Lines
    BY <1>1, LinesHave DEF PartialOf, Lines
  <2> QED
    BY <1>3, <2>1, OneRecord DEF Asks
<1>4. ASSUME Concludes(t)
      PROVE  /\ Len(journal.sent) <= Len(journal'.sent)
             /\ \E o \in Outcomes : \A i \in (Len(journal.sent) + 1)..Len(journal'.sent) :
                  journal'.sent[i] = Completion(t, o)
  <2>1. PICK o \in Outcomes : journal' = Queue(<<Completion(t, o)>>)
    BY <1>4 DEF Concludes
  <2>2. Completion(t, o) \in Lines
    BY DEF Lines
  <2> QED
    BY <2>1, <2>2, OneRecord
<1>5. CASE s # t
  <2>1. task'[s] = task[s] /\ outcomes'[s] = outcomes[s]
    BY <1>1, <1>5, OutcomesWhere DEF Alone
  <2>2. CASE journal' = journal
    BY <2>1, <2>2, NoRecord, SilentAdvances
  <2>3. CASE Asks(t)
    BY <1>3, <1>5, <2>1, <2>3, SilentAdvances DEF Intent
  <2>4. CASE Concludes(t)
    <3>1. PICK o \in Outcomes : \A i \in (Len(journal.sent) + 1)..Len(journal'.sent) :
            journal'.sent[i] = Completion(t, o)
      BY <1>4, <2>4
    <3>2. \A i \in (Len(journal.sent) + 1)..Len(journal'.sent) :
            journal'.sent[i].type = "Completion" /\ journal'.sent[i].step = t
      BY <3>1 DEF Completion
    <3> QED
      BY <1>4, <1>5, <2>1, <2>4, <3>2, SilentAdvances
  <2> QED
    BY <1>2, <2>2, <2>3, <2>4
<1>6. CASE s = t
  <2>1. task[s].at \notin Stopped /\ task'[s].at # "idle"
    BY <1>1, <1>6
       DEF TaskStep, Alone, Enters, Asks, Admitted, Refuses, Closes, Leaves, Works,
           Concludes, Working
  <2>2. CASE Asks(t)
    <3>1. task'[s].attempt = task[s].attempt + 1 /\ task[s].at = "gate"
            /\ UNCHANGED outcomes
      BY <1>6, <2>2 DEF Asks
    <3>2. \A i \in (Len(journal.sent) + 1)..Len(journal'.sent) :
            journal'.sent[i] = Intent(s, task'[s].attempt)
      BY <1>3, <1>6, <2>2 DEF PartialOf
    <3> QED
      BY <1>1, <1>6, <2>1, <3>1, <3>2 DEF Advances, Asked, Completes, Shut, Intent
  <2>3. CASE Concludes(t)
    <3>1. task'[s].attempt = task[s].attempt /\ Shut(s)'
      BY <1>6, <2>3 DEF Concludes, Same, Shut
    <3>2. PICK o \in Outcomes : \A i \in (Len(journal.sent) + 1)..Len(journal'.sent) :
            journal'.sent[i] = Completion(s, o)
      BY <1>4, <1>6, <2>3
    <3> QED
      BY <1>1, <1>6, <2>1, <3>1, <3>2 DEF Advances, Asked, Completes, Completion
  <2>4. CASE ~Asks(t) /\ ~Concludes(t)
    <3>1. journal' = journal /\ UNCHANGED outcomes /\ task'[s].attempt = task[s].attempt
            /\ (Shut(s) => Shut(s)')
      BY <1>6, <2>4
         DEF TaskStep, Enters, Admitted, Refuses, Closes, Leaves, Works, Same, Shut, Working
    <3>2. (Len(journal.sent) + 1)..Len(journal'.sent) = {}
      BY <3>1, NoRecord
    <3> QED
      BY <1>1, <1>6, <2>1, <3>1, <3>2 DEF Advances
  <2> QED
    BY <2>2, <2>3, <2>4
<1> QED
  BY <1>5, <1>6

(* A step that is no task's own finds the tasks it moves idle.             *)
LEMMA WindowIdle ==
  ASSUME Typed, Shape, OpenWindow \/ NextWindow, NEW s \in Steps, CopyClass(s), Numbered(s)
  PROVE  Advances(s) /\ (task[s].at # "idle" => task'[s] = task[s])
<1>1. PICK first \in Steps, last \in Steps, hi \in main.next..Len(Plan) :
        /\ main.next \in Nat /\ main.next <= first /\ first <= last /\ last <= hi
        /\ \A t \in main.next..hi : task[t].at = "idle"
        /\ Len(journal'.sent) = Len(journal.sent) + (last - first + 1)
        /\ \A t \in first..last :
             journal'.sent[Len(journal.sent) + (t - first + 1)] = Intent(t, PartialOf(t, 1))
        /\ \A t \in first..last : task'[t].at = task[t].at /\ task'[t].attempt = 1
        /\ \A t \in Steps : t \notin first..last => task'[t] = task[t]
  BY WindowNames
<1> DEFINE n == Len(journal.sent)
           m == Len(journal'.sent)
<1>2. /\ n \in Nat /\ first \in Nat /\ last \in Nat /\ main.next \in Nat
      /\ hi \in Nat /\ main.next <= first /\ first <= last /\ last <= hi
      /\ m = n + (last - first + 1)
  BY <1>1, LenProperties, SizeOfPlan DEF Typed, Logged
<1> HIDE DEF n, m
<1>3. UNCHANGED outcomes
  BY DEF OpenWindow, NextWindow
<1>4. ASSUME NEW i \in (n + 1)..m
      PROVE  \E t \in first..last :
               /\ journal'.sent[i].type = "Intent" /\ journal'.sent[i].step = t
               /\ journal'.sent[i].partial = PartialOf(t, 1)
  <2>1. i - n - 1 + first \in first..last /\ n + ((i - n - 1 + first) - first + 1) = i
    BY <1>2
  <2>2. journal'.sent[n + ((i - n - 1 + first) - first + 1)]
          = Intent(i - n - 1 + first, PartialOf(i - n - 1 + first, 1))
    BY <1>1, <2>1 DEF n
  <2> QED
    BY <2>1, <2>2 DEF Intent
<1>5. CASE s \in first..last
  <2>1. task[s].at = "idle" /\ task'[s].at = "idle" /\ task'[s].attempt = 1
    <3>1. s \in main.next..hi
      BY <1>2, <1>5
    <3> QED
      BY <1>1, <1>5, <3>1
  <2>2. task[s].attempt \in Nat /\ task[s].attempt <= 1
    BY <2>1 DEF Typed, TaskState, Numbered
  <2>3. \A i \in (n + 1)..m : /\ Asked(i, s)' => journal'.sent[i].partial = 1
                              /\ ~Completes(i, s)'
    <3>1. SUFFICES ASSUME NEW i \in (n + 1)..m
                   PROVE  /\ Asked(i, s)' => journal'.sent[i].partial = 1
                          /\ ~Completes(i, s)'
      OBVIOUS
    <3> QED
      BY <1>4 DEF Asked, Completes, PartialOf
  <2>4. ~Shut(s)
    BY <2>1 DEF Shut
  <2>5. (\A i \in (n + 1)..m :
            /\ Asked(i, s)' => journal'.sent[i].partial = task'[s].attempt
                                 /\ task'[s].attempt >= 1
            /\ Completes(i, s)' => Shut(s)') => Advances(s)
    BY <1>3, <2>1, <2>2, <2>4 DEF Advances, n, m
  <2> QED
    BY <1>3, <2>1, <2>2, <2>3, <2>4, <2>5 DEF n, m
<1>6. CASE s \notin first..last
  <2>1. \A i \in (n + 1)..m : /\ journal'.sent[i].type = "Intent" => journal'.sent[i].step # s
                              /\ journal'.sent[i].type = "Completion" => journal'.sent[i].step # s
    BY <1>4, <1>6
  <2>2. n <= m /\ task'[s] = task[s]
    BY <1>1, <1>2, <1>6
  <2> QED
    BY <1>3, <2>1, <2>2, SilentAdvances DEF n, m
<1> QED
  BY <1>5, <1>6

LEMMA MovedIdle ==
  ASSUME Typed, Shape, NEW s \in Steps, Numbered(s), UNCHANGED <<journal, outcomes>>,
         \/ task'[s] = task[s]
         \/ task[s].at = "idle" /\ task'[s].at # "idle" /\ Same(s)
  PROVE  Advances(s) /\ (task[s].at # "idle" => task'[s] = task[s])
<1>1. (Len(journal.sent) + 1)..Len(journal'.sent) = {} /\ task[s].attempt \in Nat
  BY NoRecord DEF Typed, TaskState
<1>2. CASE task'[s] = task[s]
  BY <1>1, <1>2 DEF Advances, Numbered, Shut
<1>3. CASE task[s].at = "idle" /\ task'[s].at # "idle" /\ Same(s)
  BY <1>1, <1>3 DEF Advances, Same, Shut
<1> QED
  BY <1>2, <1>3

LEMMA ReleaseIdle ==
  ASSUME Typed, Shape, WindowDurable \/ WindowRefused, NEW s \in Steps, Numbered(s)
  PROVE  Advances(s) /\ (task[s].at # "idle" => task'[s] = task[s])
<1>1. /\ main \in MainState /\ main.next \in Steps /\ main.hi \in main.next..Len(Plan)
      /\ \A t \in main.next..main.hi : task[t].at = "idle"
  BY SizeOfPlan DEF Shape, Group, WindowShape, MainState, WindowDurable, WindowRefused
<1>2. PICK journaled \in (main.next - 1)..main.hi : Released(journaled)
  BY ReleaseSteps
<1>3. UNCHANGED <<journal, outcomes>>
  BY DEF WindowDurable, WindowRefused
<1>4. CASE s \notin main.next..main.hi
  BY <1>2, <1>3, <1>4, MovedIdle DEF Released
<1>5. CASE s \in main.next..main.hi
  <2>1. task[s].at = "idle" /\ Same(s)
    BY <1>1, <1>2, <1>5 DEF Released
  <2>2. /\ s \in Nat /\ main.next \in Nat /\ main.hi \in Nat /\ journaled \in Int
        /\ main.next <= s /\ s <= main.hi
    BY <1>1, <1>2, <1>5, SizeOfPlan
  <2>3. s \in main.next..journaled \/ s \in (journaled + 1)..main.hi
    BY <2>2
  <2>4. s = main.next \/ s \in (main.next + 1)..main.hi
    BY <2>2
  <2>5. task'[s] = task[s] \/ task'[s].at # "idle"
    BY <1>2, <1>5, <2>3, <2>4 DEF Released
  <2> QED
    BY <1>3, <2>1, <2>5, MovedIdle
<1> QED
  BY <1>4, <1>5

LEMMA StrictIdle ==
  ASSUME Typed, Shape, StrictStep \/ SerialNext, NEW s \in Steps, Numbered(s)
  PROVE  Advances(s) /\ (task[s].at # "idle" => task'[s] = task[s])
<1>1. \/ UNCHANGED task
      \/ \E n \in Steps : task[n].at = "idle" /\ Goes(n, "gate")
  <2>1. CASE StrictStep
    BY <2>1, StrictShape DEF StrictStep, Fresh
  <2>2. CASE SerialNext /\ main.next < main.hi
    <3>1. main \in MainState /\ SerialShape /\ Goes(main.next + 1, "gate") /\ main.hi <= Len(Plan)
      BY <2>2 DEF SerialNext, Shape, MainState
    <3>2. main.next + 1 \in (main.next + 1)..main.hi /\ main.next + 1 \in Steps
      BY <2>2, <3>1, SizeOfPlan DEF MainState
    <3> QED
      BY <3>1, <3>2 DEF SerialShape
  <2>3. CASE SerialNext /\ ~(main.next < main.hi)
    BY <2>3 DEF SerialNext
  <2> QED
    BY <2>1, <2>2, <2>3
<1>2. UNCHANGED <<journal, outcomes>>
  BY DEF StrictStep, SerialNext
<1>3. \/ task'[s] = task[s]
      \/ task[s].at = "idle" /\ task'[s] = [task[s] EXCEPT !.at = "gate"]
  BY <1>1 DEF Goes, Typed
<1>4. task[s] \in TaskState
  BY DEF Typed
<1>5. \/ task'[s] = task[s]
      \/ task[s].at = "idle" /\ task'[s].at # "idle" /\ Same(s)
  BY <1>3, <1>4 DEF TaskState, Same
<1> QED
  BY <1>2, <1>5, MovedIdle

LEMMA AsideIdle ==
  ASSUME Typed, Shape, NEW s \in Steps, Numbered(s),
         \/ Writer \/ BatchFails \/ Pause \/ Resume \/ Cancel \/ UNCHANGED vars
         \/ StartDurable \/ StartRefused \/ FinishAnswered
         \/ SerialCancelled \/ BatchEnds \/ LoopDone \/ LoopCancelled
  PROVE  Advances(s) /\ task'[s] = task[s]
<1>1. UNCHANGED <<task, outcomes>>
  BY DEF Writer, WriteBatch, SyncBatch, BatchFails, Pause, Resume, Cancel, Steer, vars,
         StartDurable, StartRefused, SerialCancelled, BatchEnds, LoopDone,
         LoopCancelled, FinishAnswered
<1>2. CASE journal'.sent = journal.sent
  BY <1>1, <1>2, NoRecord, SilentAdvances
<1>3. ASSUME NEW c \in BOOLEAN, Finish(c)
      PROVE  Advances(s)
  <2>1. OutcomeOf(c) \in Verdicts
    BY DEF OutcomeOf, Verdicts
  <2>2. JobFinished(OutcomeOf(c)) \in Lines
    BY <2>1 DEF Lines
  <2>3. /\ Len(journal.sent) \in Nat /\ Len(journal'.sent) = Len(journal.sent) + 1
        /\ \A i \in (Len(journal.sent) + 1)..Len(journal'.sent) :
             journal'.sent[i] = JobFinished(OutcomeOf(c))
    BY <1>3, <2>2, OneRecord DEF Finish
  <2> QED
    BY <1>1, <2>3, SilentAdvances DEF JobFinished
<1>4. journal'.sent = journal.sent \/ \E c \in BOOLEAN : Finish(c)
  <2>1. CASE Writer \/ BatchFails
    BY <2>1, WriterShape DEF Writer, Typed
  <2>2. CASE Pause \/ Resume \/ Cancel \/ UNCHANGED vars \/ StartDurable \/ StartRefused
             \/ FinishAnswered
    BY <2>2 DEF Pause, Resume, Cancel, Steer, vars, StartDurable, StartRefused,
         FinishAnswered
  <2>3. CASE SerialCancelled \/ BatchEnds \/ LoopDone \/ LoopCancelled
    BY <2>3 DEF SerialCancelled, BatchEnds, LoopDone, LoopCancelled
  <2> QED
    BY <2>1, <2>2, <2>3
<1> QED
  BY <1>1, <1>2, <1>3, <1>4

LEMMA OthersIdle ==
  ASSUME Typed, Shape, [Next]_vars, NEW s \in Steps, CopyClass(s), Numbered(s),
         \A t \in Steps : ~(Progress(t) \/ ResolverAnswers(t) \/ CallFails(t))
  PROVE  Advances(s) /\ (task[s].at # "idle" => task'[s] = task[s])
BY WindowIdle, ReleaseIdle, StrictIdle, AsideIdle DEF Next, Loop, Ended

-----------------------------------------------------------------------------
(* A step is Using the partial of its attempt from the copy's first byte   *)
(* to the call that publishes it or gives it up.                           *)
Using == {"copying", "staged", "conflict", "resolved"}

InUse(p) == task[p.step].at \in Using /\ task[p.step].attempt = p.attempt

NamesInv ==
  /\ WriteAheadInv /\ OrderInv
  /\ \A p \in partials : CopyClass(p.step)
  /\ \A s \in Steps : CopyClass(s) => Numbered(s)

LEMMA NamesStart == Init => NamesInv
<1> SUFFICES ASSUME Init
             PROVE  NamesInv
  OBVIOUS
<1>1. WriteAheadInv /\ OrderInv
  BY WriteAheadStarts, OrderStarts
<1>2. journal.sent = <<JobStarted(0)>> /\ partials = {}
  BY DEF Init
<1>3. \A i \in 1..Len(journal.sent) : journal.sent[i].type = "JobStarted"
  BY <1>2 DEF JobStarted
<1>4. ASSUME NEW s \in Steps
      PROVE  Numbered(s)
  <2>1. task[s].attempt = 0 /\ task[s].at = "idle" /\ outcomes[s] = "none"
    BY DEF Init, Idle
  <2> QED
    BY <1>3, <2>1 DEF Numbered, Asked, Completes, Heard
<1> QED
  BY <1>1, <1>2, <1>4 DEF NamesInv

LEMMA PartialsWhere ==
  ASSUME NEW s \in Steps, TaskStep(s)
  PROVE  partials' \subseteq partials \/ (CopyClass(s) /\ partials' = partials \cup {Staged(s)})
BY DEF TaskStep, Enters, Asks, Admitted, Refuses, Closes, Leaves, Works, Concludes

LEMMA OthersPartials ==
  ASSUME [Next]_vars,
         \A t \in Steps : ~(Progress(t) \/ ResolverAnswers(t) \/ CallFails(t))
  PROVE  UNCHANGED <<partials, outcomes>>
<1>1. CASE \/ Writer \/ BatchFails \/ Pause \/ Resume \/ Cancel \/ UNCHANGED vars
           \/ StartDurable \/ StartRefused \/ SerialCancelled \/ BatchEnds
           \/ LoopDone \/ LoopCancelled \/ FinishAnswered
  BY <1>1 DEF Writer, WriteBatch, SyncBatch, BatchFails, Pause, Resume, Cancel, Steer, vars,
              StartDurable, StartRefused, SerialCancelled, BatchEnds, LoopDone,
              LoopCancelled, FinishAnswered, fs
<1>2. CASE \/ OpenWindow \/ NextWindow \/ WindowDurable \/ WindowRefused
           \/ StrictStep \/ SerialNext
  BY <1>2 DEF OpenWindow, NextWindow, WindowDurable, WindowRefused, StrictStep,
              SerialNext, fs
<1> QED
  BY <1>1, <1>2 DEF Next, Loop, Ended

LEMMA NamesStep == NamesInv /\ [Next]_vars => NamesInv'
<1> SUFFICES ASSUME NamesInv, [Next]_vars
             PROVE  NamesInv'
  OBVIOUS
<1>1. /\ Typed /\ Shape /\ WriteAheadInv' /\ OrderInv' /\ Typed' /\ Grown
  BY WriteAheadStep, OrderStep, ShapeStep DEF NamesInv, OrderInv
<1>2. ASSUME NEW t \in Steps, Progress(t) \/ ResolverAnswers(t) \/ CallFails(t)
      PROVE  /\ \A p \in partials' : CopyClass(p.step)
             /\ \A s \in Steps : CopyClass(s) => Advances(s)
  <2>1. TaskStep(t)
    BY <1>1, <1>2, StepsAreTaskSteps
  <2>2. \A p \in partials' : CopyClass(p.step)
    BY <2>1, PartialsWhere DEF NamesInv, Staged
  <2> QED
    BY <1>1, <2>1, <2>2, TaskStepAdvances DEF NamesInv
<1>3. ASSUME \A t \in Steps : ~(Progress(t) \/ ResolverAnswers(t) \/ CallFails(t))
      PROVE  /\ \A p \in partials' : CopyClass(p.step)
             /\ \A s \in Steps : CopyClass(s) => Advances(s)
  BY <1>1, <1>3, OthersPartials, OthersIdle DEF NamesInv
<1>4. /\ \A p \in partials' : CopyClass(p.step)
      /\ \A s \in Steps : CopyClass(s) => Advances(s)
  BY <1>2, <1>3
<1>5. \A s \in Steps : CopyClass(s) => Numbered(s)'
  BY <1>1, <1>4, AdvancesNumbered DEF NamesInv
<1>6. (\A p \in partials : CopyClass(p.step))'
  BY <1>4 DEF CopyClass
<1>7. (\A s \in Steps : CopyClass(s) => Numbered(s))'
  BY <1>5 DEF CopyClass
<1> QED
  BY <1>1, <1>6, <1>7 DEF NamesInv

(* The last Intent of a step is the one of its attempt, if that is there.  *)
LEMMA LastIs ==
  ASSUME Typed, NEW lines \in CrashPrefixes, NEW s \in Steps, Numbered(s),
         NEW i \in 1..Len(lines), Asked(i, s), journal.sent[i].partial = task[s].attempt
  PROVE  LastPartial(lines, s) = task[s].attempt
<1> DEFINE mine == {k \in 1..Len(lines) : lines[k].type = "Intent" /\ lines[k].step = s}
           c == CHOOSE k \in mine : \A j \in mine : j <= k
<1>1. /\ Len(lines) \in Nat /\ Len(journal.sent) \in Nat /\ Len(lines) <= Len(journal.sent)
      /\ \A k \in 1..Len(lines) : lines[k] = journal.sent[k]
  BY PrefixShape, LenProperties DEF Typed, Logged
<1>2. mine \in SUBSET Nat /\ i \in mine /\ \A k \in mine : k <= Len(lines)
  BY <1>1 DEF Asked
<1>3. LastPartial(lines, s) = lines[c].partial
  BY DEF LastPartial
<1>4. c \in mine /\ \A j \in mine : j <= c
  <2> HIDE DEF mine
  <2>1. \E k \in mine : \A j \in mine : j <= k
    BY <1>1, <1>2, MaxShape
  <2> QED
    BY <2>1
<1>5. /\ c \in 1..Len(lines) /\ lines[c].type = "Intent" /\ lines[c].step = s /\ i <= c
  BY <1>2, <1>4
<1> HIDE DEF c, mine
<1>6. c \in 1..Len(journal.sent) /\ Asked(c, s) /\ lines[c] = journal.sent[c]
  BY <1>1, <1>5 DEF Asked
<1>7. journal.sent[c].partial \in 1..task[s].attempt /\ task[s].attempt \in Nat
  BY <1>6 DEF Numbered, Typed, TaskState
<1>8. journal.sent[i].partial <= journal.sent[c].partial
  <2>1. CASE i = c
    BY <1>7, <2>1
  <2>2. CASE i # c
    <3>1. i \in 1..(c - 1)
      BY <1>1, <1>5, <2>2
    <3> QED
      BY <1>6, <3>1 DEF Numbered
  <2> QED
    BY <2>1, <2>2
<1>9. journal.sent[c].partial = task[s].attempt
  BY <1>7, <1>8
<1> QED
  BY <1>3, <1>6, <1>9

LEMMA NamedWhile ==
  ASSUME NamesInv, NEW lines \in CrashPrefixes, NEW p \in partials, InUse(p)
  PROVE  <<p.step, p.attempt>> \in Replay(lines).orphans
<1>1. /\ Typed /\ Logged /\ Bounded /\ p.step \in Steps /\ p.attempt \in Nat /\ CopyClass(p.step)
      /\ Numbered(p.step)
  BY DEF NamesInv, OrderInv, Typed
<1>2. PICK i \in 1..journal.synced : journal.sent[i] = Intent(p.step, p.attempt)
  BY DEF NamesInv, WriteAheadInv, Effects
<1>3. /\ Len(lines) \in Nat /\ journal.synced \in Nat /\ Len(journal.sent) \in Nat
      /\ journal.synced <= Len(lines) /\ Len(lines) <= Len(journal.sent)
      /\ \A k \in 1..Len(lines) : lines[k] = journal.sent[k]
  BY <1>1, PrefixShape, LenProperties DEF Logged
<1>4. i \in 1..Len(lines) /\ i \in 1..Len(journal.sent)
  BY <1>3
<1>5. Asked(i, p.step) /\ journal.sent[i].partial = p.attempt
  BY <1>2 DEF Asked, Intent
<1>6. LastPartial(lines, p.step) = p.attempt
  BY <1>1, <1>4, <1>5, LastIs DEF InUse
<1>7. p.attempt # 0
  BY <1>1, <1>4, <1>5 DEF Numbered
<1>8. p.step \in Intended(lines)
  BY <1>3, <1>4, <1>5 DEF Intended, Asked
<1>9. p.step \notin Completed(lines)
  <2>1. ~Shut(p.step)
    BY DEF InUse, Using, Shut
  <2>2. \A k \in 1..Len(journal.sent) : ~Completes(k, p.step)
    BY <1>1, <2>1 DEF Numbered
  <2>3. \A k \in 1..Len(lines) : ~(lines[k].type = "Completion" /\ lines[k].step = p.step)
    BY <1>3, <2>2 DEF Completes
  <2> QED
    BY <2>3 DEF Completed
<1>10. lines # <<>>
  BY <1>3, <1>4
<1> QED
  BY <1>1, <1>6, <1>7, <1>8, <1>9, <1>10, ReportShape

(* Whatever fails and whenever the crash comes, the partial a copy is      *)
(* writing, or has staged and not published, is among the orphans of the   *)
(* report: neither an earlier nor a later record hides its name.           *)
THEOREM StagedIsNamed ==
  Spec => [](\A lines \in CrashPrefixes, p \in partials :
               InUse(p) => <<p.step, p.attempt>> \in Replay(lines).orphans)
<1>1. NamesInv => \A lines \in CrashPrefixes, p \in partials :
                    InUse(p) => <<p.step, p.attempt>> \in Replay(lines).orphans
  BY NamedWhile
<1> QED
  BY <1>1, NamesStart, NamesStep, PTL DEF Spec

-----------------------------------------------------------------------------
(* What is left over: unless a call into the file system fails, only a     *)
(* step that ends as failed leaves a partial it no longer uses.            *)
LeftByFailed == \A p \in partials : InUse(p) \/ outcomes[p.step] = "Failed"

LEMMA ConcludedIs ==
  ASSUME Typed, NEW s \in Steps, NEW o \in Outcomes, Conclude(s, o)
  PROVE  outcomes'[s] = o
BY DEF Conclude, Typed

LEMMA GoesTo ==
  ASSUME Typed, NEW s \in Steps, NEW phase \in TaskPlaces, Goes(s, phase)
  PROVE  task'[s].at = phase /\ task'[s].attempt = task[s].attempt
<1>1. task[s] \in TaskState /\ task'[s] = [task[s] EXCEPT !.at = phase]
  BY DEF Goes, Typed
<1> QED
  BY <1>1 DEF TaskState

LEMMA SettlesTo ==
  ASSUME Typed, NEW s \in Steps, PolicySettles(s) \/ ResolverAnswers(s)
  PROVE  task'[s].at = "resolved" /\ task'[s].attempt = task[s].attempt
<1>1. PICK policy : Settle(s, policy)
  BY DEF PolicySettles, ResolverAnswers
<1>2. task[s] \in TaskState
      /\ task'[s] = [task[s] EXCEPT !.at = "resolved", !.policy = policy]
  BY <1>1 DEF Settle, Typed
<1> QED
  BY <1>2 DEF TaskState

LEMMA UsersKeep ==
  ASSUME Typed, FaultKinds = {}, NEW s \in Steps, CopyClass(s), task[s].at \in Using,
         Progress(s) \/ ResolverAnswers(s) \/ CallFails(s),
         Staged(s) \in partials'
  PROVE  \/ task'[s].at \in Using /\ task'[s].attempt = task[s].attempt
         \/ outcomes'[s] = "Failed"
<1>1. ~CallFails(s)
  BY DEF CallFails
<1>2. ~Unstage(s)
  BY DEF Unstage
<1>3. CASE CopyEnds(s) \/ PublishConflicts(s)
  <2>1. \E phase \in Using : phase \in TaskPlaces /\ Goes(s, phase)
    BY <1>3 DEF CopyEnds, PublishConflicts, Using, TaskPlaces, Working
  <2> QED
    BY <2>1, GoesTo
<1>4. CASE PolicySettles(s) \/ ResolverAnswers(s)
  BY <1>4, SettlesTo DEF Using
<1>5. CASE ReplaceImpossible(s) \/ AlternateRefused(s)
  BY <1>5, ConcludedIs DEF ReplaceImpossible, AlternateRefused, Answer, Outcomes
<1>6. CASE CopyInterrupted(s) \/ Publishes(s) \/ ConflictSkips(s) \/ AlternateTaken(s)
           \/ RenameReplaces(s)
  BY <1>2, <1>6 DEF CopyInterrupted, Publishes, ConflictSkips, AlternateTaken, RenameReplaces
<1>7. ~OldRemoved(s)
  BY DEF OldRemoved, CopyClass
<1>8. ~(\/ TakePermit(s) \/ GatePasses(s) \/ GateCancelled(s)
        \/ IntentDurable(s) \/ IntentRefused(s) \/ DependencyBlocks(s)
        \/ CopyBegins(s) \/ CopyImpossible(s)
        \/ CreateSucceeds(s) \/ CreateImpossible(s) \/ DirExists(s) \/ CreateConflicts(s))
  BY DEF TakePermit, GatePasses, GateCancelled, IntentDurable, IntentRefused,
         DependencyBlocks, CopyBegins, CopyImpossible, CreateSucceeds, CreateImpossible,
         DirExists, CreateConflicts, Creates, Dispatch, At, Using
<1>9. ~(\/ NewCreated(s) \/ VerifyEnds(s) \/ VerifyInterrupted(s) \/ SetMetaEnds(s)
        \/ RemoveSucceeds(s) \/ RemoveImpossible(s) \/ DirNotEmpty(s)
        \/ CompletionDurable(s) \/ CompletionRefused(s) \/ BackoffEnds(s))
  BY DEF NewCreated, VerifyEnds, VerifyInterrupted, SetMetaEnds, RemoveSucceeds,
         RemoveImpossible, DirNotEmpty, Removes, CompletionDurable, CompletionRefused,
         BackoffEnds, Dispatch, At, Using
<1> QED
  BY <1>1, <1>3, <1>4, <1>5, <1>6, <1>7, <1>8, <1>9 DEF Progress

LEMMA BeginsUsing ==
  ASSUME Typed, NEW s \in Steps, Progress(s) \/ ResolverAnswers(s) \/ CallFails(s),
         ~(partials' \subseteq partials)
  PROVE  /\ task[s].at = "run" /\ partials' = partials \cup {Staged(s)}
         /\ task'[s].at \in Using /\ task'[s].attempt = task[s].attempt
<1>1. CopyBegins(s)
  BY DEF Progress, ResolverAnswers, CallFails, TakePermit, GatePasses, GateCancelled,
         IntentDurable, IntentRefused, DependencyBlocks, CopyImpossible, CopyEnds,
         CopyInterrupted, Publishes, PublishConflicts, CreateSucceeds, CreateImpossible,
         DirExists, CreateConflicts, PolicySettles, ConflictSkips, AlternateRefused,
         AlternateTaken, ReplaceImpossible, RenameReplaces, OldRemoved, NewCreated,
         VerifyEnds, VerifyInterrupted, SetMetaEnds, RemoveSucceeds, RemoveImpossible,
         DirNotEmpty, CompletionDurable, CompletionRefused, BackoffEnds, Answer, Unstage, fs
<1>2. Goes(s, "copying") /\ "copying" \in TaskPlaces
  BY <1>1 DEF CopyBegins, TaskPlaces, Working
<1> QED
  BY <1>1, <1>2, GoesTo DEF CopyBegins, Dispatch, At, Using

LEMMA LeftStep ==
  ASSUME FaultKinds = {}, NamesInv, LeftByFailed, [Next]_vars
  PROVE  LeftByFailed'
<1>1. /\ Typed /\ Shape /\ partials \subseteq [step : Steps, attempt : Nat]
      /\ \A p \in partials : p.step \in Steps /\ CopyClass(p.step) /\ Numbered(p.step)
  BY DEF NamesInv, OrderInv, Typed
<1>2. ASSUME NEW t \in Steps, Progress(t) \/ ResolverAnswers(t) \/ CallFails(t),
             NEW p \in partials'
      PROVE  InUse(p)' \/ outcomes'[p.step] = "Failed"
  <2>1. TaskStep(t)
    BY <1>1, <1>2, StepsAreTaskSteps
  <2>2. CASE p.step # t
    <3>1. p \in partials
      BY <1>2, <2>1, <2>2, PartialsWhere DEF Staged
    <3>2. p.step \in Steps
      BY <1>1, <3>1
    <3>3. task'[p.step] = task[p.step] /\ outcomes'[p.step] = outcomes[p.step]
      BY <2>1, <2>2, <3>2, OutcomesWhere DEF TaskStep, Alone
    <3> QED
      BY <3>1, <3>3 DEF LeftByFailed, InUse
  <2>3. CASE p.step = t /\ p \in partials /\ outcomes[t] = "Failed"
    <3>1. Shut(t)
      BY <1>1, <2>3 DEF Numbered, Heard
    <3>2. UNCHANGED outcomes
      BY <2>1, <3>1 DEF TaskStep, Alone, Enters, Asks, Admitted, Refuses, Closes, Leaves,
           Works, Concludes, Shut, Working, Stopped
    <3> QED
      BY <2>3, <3>2
  <2>4. CASE p.step = t /\ p \in partials /\ InUse(p)
    <3>1. p = Staged(t)
      BY <1>1, <2>4 DEF InUse, Staged
    <3>2. CopyClass(t) /\ task[t].at \in Using
      BY <1>1, <2>4 DEF InUse
    <3>3. \/ task'[t].at \in Using /\ task'[t].attempt = task[t].attempt
          \/ outcomes'[t] = "Failed"
      BY <1>1, <1>2, <3>1, <3>2, UsersKeep
    <3> QED
      BY <2>4, <3>3 DEF InUse
  <2>5. CASE p.step = t /\ p \notin partials
    <3>1. /\ partials' = partials \cup {Staged(t)}
          /\ task'[t].at \in Using /\ task'[t].attempt = task[t].attempt
      BY <1>1, <1>2, <2>5, BeginsUsing
    <3>2. p = Staged(t)
      BY <1>2, <2>5, <3>1
    <3> QED
      BY <2>5, <3>1, <3>2 DEF InUse, Staged
  <2> QED
    BY <2>2, <2>3, <2>4, <2>5 DEF LeftByFailed
<1>3. ASSUME \A t \in Steps : ~(Progress(t) \/ ResolverAnswers(t) \/ CallFails(t)),
             NEW p \in partials'
      PROVE  InUse(p)' \/ outcomes'[p.step] = "Failed"
  <2>1. p \in partials /\ outcomes' = outcomes
    BY <1>3, OthersPartials
  <2>2. task[p.step].at # "idle" => task'[p.step] = task[p.step]
    BY <1>1, <1>3, <2>1, OthersIdle
  <2> QED
    BY <2>1, <2>2 DEF LeftByFailed, InUse, Using
<1> QED
  BY <1>2, <1>3 DEF LeftByFailed

(* When only the journal's disk fails, every partial on disk is among the  *)
(* orphans of whatever report a crash leaves (docs/crash-safety.md,        *)
(* "Batching", 2), unless its copy met something it may not replace, or    *)
(* was given a name that is taken, and has failed.                         *)
THEOREM OrphansNamedHolds ==
  ASSUME FaultKinds = {}
  PROVE  Spec => []((\A s \in Steps : CopyClass(s) => outcomes[s] # "Failed") => OrphansNamed)
<1>1. Init => LeftByFailed
  BY DEF Init, LeftByFailed
<1>2. NamesInv /\ LeftByFailed /\ [Next]_vars => LeftByFailed'
  BY LeftStep
<1>3. NamesInv /\ LeftByFailed =>
        ((\A s \in Steps : CopyClass(s) => outcomes[s] # "Failed") => OrphansNamed)
  <2> SUFFICES ASSUME NamesInv, LeftByFailed,
                      \A s \in Steps : CopyClass(s) => outcomes[s] # "Failed",
                      NEW lines \in CrashPrefixes, NEW p \in partials
               PROVE  <<p.step, p.attempt>> \in Replay(lines).orphans
    BY DEF OrphansNamed
  <2>1. p.step \in Steps /\ CopyClass(p.step)
    BY DEF NamesInv, OrderInv, Typed
  <2> QED
    BY <2>1, NamedWhile DEF LeftByFailed
<1> QED
  BY <1>1, <1>2, <1>3, NamesStart, NamesStep, PTL DEF Spec

===============================================================================
