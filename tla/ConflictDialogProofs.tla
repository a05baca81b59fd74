------------------------- MODULE ConflictDialogProofs --------------------------
(***************************************************************************)
(* Theorems about ConflictDialog, for any jobs, threads and conflicts: an  *)
(* answer for all remaining, the order in which the user meets the threads *)
(* that wait, and where the keyboard is.                                   *)
(***************************************************************************)
EXTENDS ConflictDialog, PickedProofs

(* The types the proof needs of what a thread does, and what makes the     *)
(* property inductive: of a job that has an answer for all remaining some  *)
(* thread is not blocked, and none becomes so.                             *)
Typed ==
  /\ task \in [Tasks -> {"idle", "working", "blocked"} \cup Answers]
  /\ sticky \in [Jobs -> ForAll \cup {Unset}]

Spared(j) == \E i \in 1..Width[j] : task[<<j, i>>] # "blocked"

-----------------------------------------------------------------------------
LEMMA TaskParts ==
  ASSUME NEW t \in Tasks
  PROVE  t[1] \in Jobs /\ t[2] \in 1..Width[t[1]] /\ t = <<t[1], t[2]>>
BY DEF Tasks

LEMMA JobTasks ==
  ASSUME NEW j \in Jobs, NEW i \in 1..Width[j]
  PROVE  <<j, i>> \in Tasks
BY DEF Tasks

(* A step that lets threads go and blocks none spares whom it found spared. *)
LEMMA NoneBlocked ==
  ASSUME Typed, NEW j \in Jobs, Spared(j),
         \A t \in Tasks : task[t] # "blocked" => task'[t] # "blocked"
  PROVE  Spared(j)'
<1>1. PICK i \in 1..Width[j] : task[<<j, i>>] # "blocked"
  BY DEF Spared
<1>2. task'[<<j, i>>] # "blocked"
  BY <1>1, JobTasks
<1> QED
  BY <1>2 DEF Spared

LEMMA DroppedFrees ==
  ASSUME Typed, NEW held, task' = Dropped(task, held)
  PROVE  /\ task' \in [Tasks -> {"idle", "working", "blocked"} \cup Answers]
         /\ \A t \in Tasks : task[t] # "blocked" => task'[t] # "blocked"
BY DEF Typed, Dropped, Answers, Aborts, ForAll

-----------------------------------------------------------------------------
Sparing == Typed /\ Survivable

LEMMA SparingStarts == Init => Sparing
BY DEF Init, Sparing, Typed, Survivable, Answers, Aborts, ForAll

(* A step that leaves the answers alone and blocks nobody.                 *)
LEMMA SparingKept ==
  ASSUME Sparing, UNCHANGED sticky,
         task' \in [Tasks -> {"idle", "working", "blocked"} \cup Answers],
         \A t \in Tasks : task[t] # "blocked" => task'[t] # "blocked"
  PROVE  Sparing'
<1>1. Typed'
  BY DEF Sparing, Typed
<1>2. ASSUME NEW j \in Jobs, sticky'[j] # Unset
      PROVE  \E i \in 1..Width[j] : task'[<<j, i>>] # "blocked"
  <2>1. Spared(j)
    BY <1>2 DEF Sparing, Survivable, Spared
  <2> QED
    BY <2>1, NoneBlocked DEF Sparing, Spared
<1> QED
  BY <1>1, <1>2 DEF Sparing, Survivable

LEMMA ThreadSpares ==
  ASSUME Sparing, NEW t \in Tasks, Thread(t)
  PROVE  Sparing'
<1> USE DEF Answers, Aborts, ForAll
<1>1. t[1] \in Jobs /\ t[2] \in 1..Width[t[1]] /\ t = <<t[1], t[2]>>
  BY TaskParts
<1>2. CASE BeginStep(t)
  BY <1>2, SparingKept DEF BeginStep, Sparing, Typed
<1>3. CASE ResolveConflict(t)
  <2>1. CASE loop /\ sticky[t[1]] = Unset
    <3>1. task' = [task EXCEPT ![t] = "blocked"] /\ sticky' = sticky
      BY <1>3, <2>1 DEF ResolveConflict
    <3>2. Typed'
      BY <3>1 DEF Sparing, Typed
    <3>3. ASSUME NEW j \in Jobs, sticky'[j] # Unset
          PROVE  \E i \in 1..Width[j] : task'[<<j, i>>] # "blocked"
      <4>1. PICK i \in 1..Width[j] : task[<<j, i>>] # "blocked"
        BY <3>1, <3>3 DEF Sparing, Survivable
      <4>2. <<j, i>> # t /\ <<j, i>> \in Tasks
        BY <1>1, <2>1, <3>1, <3>3, JobTasks
      <4> QED
        BY <3>1, <4>1, <4>2 DEF Sparing, Typed
    <3> QED
      BY <3>2, <3>3 DEF Sparing, Survivable
  <2>2. CASE ~(loop /\ sticky[t[1]] = Unset)
    <3>1. task' = [task EXCEPT ![t] = "idle"] /\ sticky' = sticky
      BY <1>3, <2>2 DEF ResolveConflict
    <3> QED
      BY <3>1, SparingKept DEF Sparing, Typed
  <2> QED
    BY <2>1, <2>2
<1>4. CASE Resume(t)
  <2>1. /\ task' = [task EXCEPT ![t] = "idle"]
        /\ sticky' = [sticky EXCEPT ![t[1]] = IF task[t] \in ForAll THEN task[t] ELSE @]
    BY <1>4 DEF Resume
  <2>2. Typed'
    BY <1>1, <2>1 DEF Sparing, Typed
  <2>3. ASSUME NEW j \in Jobs, sticky'[j] # Unset
        PROVE  \E i \in 1..Width[j] : task'[<<j, i>>] # "blocked"
    <3>1. CASE j = t[1]
      <4>1. task'[<<j, t[2]>>] = "idle"
        BY <1>1, <2>1, <3>1 DEF Sparing, Typed
      <4> QED
        BY <1>1, <3>1, <4>1
    <3>2. CASE j # t[1]
      <4>1. PICK i \in 1..Width[j] : task[<<j, i>>] # "blocked"
        BY <2>1, <2>3, <3>2 DEF Sparing, Survivable, Typed
      <4>2. task'[<<j, i>>] # "blocked"
        BY <2>1, <4>1, JobTasks DEF Sparing, Typed
      <4> QED
        BY <4>2
    <3> QED
      BY <3>1, <3>2
  <2> QED
    BY <2>2, <2>3 DEF Sparing, Survivable
<1> QED
  BY <1>2, <1>3, <1>4 DEF Thread

(* The steps of the workspace that can answer a thread or let it go.       *)
LEMMA WorkspaceSpares ==
  ASSUME Sparing,
         \/ Consume \/ UserAnswers \/ Quit
         \/ \E side \in Sides : HashDone(side)
  PROVE  Sparing'
<1>1. CASE Consume
  <2>1. sticky' = sticky /\ (task' = task \/ task' = Dropped(task, ToSet(requests)))
    BY <1>1 DEF Consume
  <2> QED
    BY <2>1, SparingKept, DroppedFrees DEF Sparing, Typed
<1>2. CASE UserAnswers
  <2>1. PICK a \in Answers : task' = [task EXCEPT ![shown] = a] /\ sticky' = sticky
    BY <1>2 DEF UserAnswers, Answer
  <2> QED
    BY <2>1, SparingKept DEF Sparing, Typed, Answers, Aborts, ForAll
<1>3. CASE Quit
  <2>1. PICK held : task' = Dropped(task, held)
    BY <1>3 DEF Quit
  <2>2. sticky' = sticky
    BY <1>3 DEF Quit
  <2> QED
    BY <2>1, <2>2, SparingKept, DroppedFrees DEF Sparing
<1>4. CASE \E side \in Sides : HashDone(side)
  <2>1. sticky' = sticky /\ (task' = task \/ task' = Dropped(task, {shown}))
    BY <1>4 DEF HashDone
  <2> QED
    BY <2>1, SparingKept, DroppedFrees DEF Sparing, Typed
<1> QED
  BY <1>1, <1>2, <1>3, <1>4

(* What the other steps do is about the keyboard and the copy dialog.      *)
LEMMA OthersSpare ==
  ASSUME Sparing,
         \/ Render \/ StartRename \/ CycleFocus \/ OpenForm \/ CloseForm \/ ClickPanel
         \/ \E side \in Sides : StartHash(side)
         \/ \E j \in Jobs : Cancel(j) \/ Confirm(j) \/ PlanDone(j) \/ PlanHeard(j) \/ PlanFails(j)
         \/ UNCHANGED vars
  PROVE  Sparing'
<1>1. UNCHANGED <<task, sticky>>
  BY DEF Render, StartRename, CycleFocus, OpenForm, CloseForm, ClickPanel, StartHash,
         Cancel, Confirm, PlanDone, PlanHeard, PlanFails, vars, threads
<1> QED
  BY <1>1, SparingKept DEF Sparing, Typed

LEMMA SparingStep == Sparing /\ [Next]_vars => Sparing'
BY ThreadSpares, WorkspaceSpares, OthersSpare DEF Next

(* An answer for all remaining leaves a job, of however many threads, one  *)
(* that no question blocks (conflict_dialog.rs:163): what is still asked   *)
(* had been asked before.                                                  *)
THEOREM AnswerForAllHolds == Spec => []Survivable
<1>1. Sparing => Survivable
  BY DEF Sparing
<1> QED
  BY <1>1, SparingStarts, SparingStep, PTL DEF Spec

-----------------------------------------------------------------------------
(* Who waits, and where.  Whoever is answered or dropped is taken out of   *)
(* what was asked, whose order the dialog, its queue and the channel keep. *)
Waiting == (IF shown = Nobody THEN << >> ELSE <<shown>>) \o pending \o requests

Turned ==
  /\ task \in [Tasks -> {"idle", "working", "blocked"} \cup Answers]
  /\ asked \in Seq(Tasks) /\ pending \in Seq(Tasks) /\ requests \in Seq(Tasks)
  /\ shown \in Tasks \cup {Nobody} /\ open \in BOOLEAN
  /\ Once(asked)
  /\ shown = Nobody \/ ~open => pending = << >>
  /\ ToSet(asked) = {t \in Tasks : task[t] = "blocked"}
  /\ open => asked = Waiting

LEMMA NobodyIsNoTask == Nobody \notin Tasks
<1>1. ASSUME Nobody \in Tasks
      PROVE  FALSE
  <2>1. PICK j \in Jobs : Nobody \in {j} \X (1..Width[j])
    BY <1>1 DEF Tasks
  <2>2. PICK i \in 1..Width[j] : Nobody = <<j, i>>
    BY <2>1
  <2> QED
    BY <2>2 DEF Nobody
<1> QED
  BY <1>1

(* The first of a tail joined to it goes over to the end of what is before. *)
LEMMA Handed ==
  ASSUME NEW S
  PROVE  \A s, t, u, v \in Seq(S) : (s \o t) \o (u \o v) = (s \o (t \o u)) \o v
<1> DEFINE J(a, b) == a \o b
<1>1. ASSUME NEW a \in Seq(S), NEW b \in Seq(S), NEW c \in Seq(S)
      PROVE  J(J(a, b), c) = J(a, J(b, c))
  BY ConcatAssociative
<1>2. \A a, b \in Seq(S) : J(a, b) \in Seq(S)
  BY ConcatProperties
<1> HIDE DEF J
<1>3. ASSUME NEW s \in Seq(S), NEW t \in Seq(S), NEW u \in Seq(S), NEW v \in Seq(S)
      PROVE  J(J(s, t), J(u, v)) = J(J(s, J(t, u)), v)
  <2>1. J(s, J(t, u)) = J(J(s, t), u)
    BY <1>1
  <2>2. J(J(J(s, t), u), v) = J(J(s, t), J(u, v))
    BY <1>1, <1>2
  <2> QED
    BY <2>1, <2>2
<1> QED
  BY <1>3 DEF J

LEMMA KeptFacts ==
  ASSUME asked \in Seq(Tasks), Once(asked), NEW ts
  PROVE  /\ Kept(ts) \in Seq(Tasks) /\ Once(Kept(ts))
         /\ ToSet(Kept(ts)) = ToSet(asked) \cap ts
<1> DEFINE I == {i \in 1..Len(asked) : asked[i] \in ts}
<1>1. Within(I, Len(asked))
  BY DEF Within
<1>2. Kept(ts) = Picked(asked, I)
  BY DEF Kept
<1>3. ToSet(asked) \cap ts = {asked[i] : i \in I}
  <2>1. ToSet(asked) = {asked[i] : i \in 1..Len(asked)}
    BY ElementsOf
  <2> QED
    BY <2>1
<1> HIDE DEF I
<1>4. /\ Picked(asked, I) \in Seq(Tasks) /\ Once(Picked(asked, I))
      /\ Len(Picked(asked, I)) = Cardinality(I)
  BY <1>1, PickedType, PickedOnce
<1>5. {Picked(asked, I)[k] : k \in 1..Cardinality(I)} = {asked[i] : i \in I}
  BY <1>1, PickedElements
<1>6. ToSet(Picked(asked, I)) = {Picked(asked, I)[k] : k \in 1..Cardinality(I)}
  BY <1>4, ElementsOf
<1> QED
  BY <1>2, <1>3, <1>4, <1>5, <1>6

(* Some threads are let go, and nothing else moves of who waits.           *)
LEMMA DroppedTurns ==
  ASSUME Turned, NEW held, task' = Dropped(task, held), asked' = Kept(Tasks \ held)
  PROVE  /\ task' \in [Tasks -> {"idle", "working", "blocked"} \cup Answers]
         /\ asked' \in Seq(Tasks) /\ Once(asked')
         /\ ToSet(asked') = {t \in Tasks : task'[t] = "blocked"}
<1>1. task' \in [Tasks -> {"idle", "working", "blocked"} \cup Answers]
  BY DEF Turned, Dropped, Answers, Aborts, ForAll
<1>2. /\ asked' \in Seq(Tasks) /\ Once(asked')
      /\ ToSet(asked') = ToSet(asked) \cap (Tasks \ held)
  BY KeptFacts DEF Turned
<1>3. {t \in Tasks : task'[t] = "blocked"}
        = {t \in Tasks : task[t] = "blocked"} \cap (Tasks \ held)
  BY DEF Dropped
<1> QED
  BY <1>1, <1>2, <1>3 DEF Turned

LEMMA TurnedStarts == Init => Turned
<1> SUFFICES ASSUME Init PROVE Turned
  OBVIOUS
<1>1. /\ task = [t \in Tasks |-> "idle"] /\ asked = << >> /\ pending = << >>
      /\ requests = << >> /\ shown = Nobody /\ open = TRUE
  BY DEF Init
<1>2. << >> \in Seq(Tasks) /\ << >> \o << >> = << >> /\ Once(<< >>) /\ ToSet(<< >>) = {}
  <2>1. << >> \in Seq(Tasks) /\ << >> \o << >> = << >> /\ Len(<< >>) = 0
    BY EmptySeq, ConcatEmptySeq
  <2>2. Once(<< >>)
    BY <2>1 DEF Once
  <2>3. ToSet(<< >>) = {<< >>[i] : i \in 1..Len(<< >>)}
    BY <2>1, ElementsOf
  <2> QED
    BY <2>1, <2>2, <2>3
<1>3. task \in [Tasks -> {"idle", "working", "blocked"} \cup Answers]
  BY <1>1 DEF Answers
<1>4. {t \in Tasks : task[t] = "blocked"} = {}
  BY <1>1
<1> QED
  BY <1>1, <1>2, <1>3, <1>4 DEF Turned, Waiting

(* A step that changes nobody's waiting.                                   *)
LEMMA TurnedKept ==
  ASSUME Turned, UNCHANGED <<asked, pending, requests, shown, open>>,
         task' \in [Tasks -> {"idle", "working", "blocked"} \cup Answers],
         \A t \in Tasks : task[t] = "blocked" <=> task'[t] = "blocked"
  PROVE  Turned'
BY DEF Turned, Waiting

LEMMA ThreadTurns ==
  ASSUME Turned, NEW t \in Tasks, Thread(t)
  PROVE  Turned'
<1>1. CASE BeginStep(t)
  <2>1. /\ task[t] = "idle" /\ task' = [task EXCEPT ![t] = "working"]
        /\ UNCHANGED <<asked, pending, requests, shown, open>>
    BY <1>1 DEF BeginStep, channel, prompt
  <2> QED
    BY <2>1, TurnedKept DEF Turned
<1>2. CASE Resume(t)
  <2>1. /\ task[t] # "blocked" /\ task' = [task EXCEPT ![t] = "idle"]
        /\ UNCHANGED <<asked, pending, requests, shown, open>>
    BY <1>2 DEF Resume, channel, prompt, Answers, Aborts, ForAll
  <2> QED
    BY <2>1, TurnedKept DEF Turned
<1>3. CASE ResolveConflict(t)
  <2>1. CASE ~(loop /\ sticky[t[1]] = Unset)
    <3>1. /\ task[t] = "working" /\ task' = [task EXCEPT ![t] = "idle"]
          /\ UNCHANGED <<asked, pending, requests, shown, open>>
      BY <1>3, <2>1 DEF ResolveConflict, channel, prompt
    <3> QED
      BY <3>1, TurnedKept DEF Turned
  <2>2. CASE loop /\ sticky[t[1]] = Unset
    <3>1. /\ task[t] = "working" /\ task' = [task EXCEPT ![t] = "blocked"]
          /\ requests' = Append(requests, t) /\ asked' = Append(asked, t)
          /\ UNCHANGED <<pending, shown, open>>
      BY <1>3, <2>2 DEF ResolveConflict, prompt
    <3>2. task' \in [Tasks -> {"idle", "working", "blocked"} \cup Answers]
      BY <3>1 DEF Turned
    <3>3. asked' \in Seq(Tasks) /\ requests' \in Seq(Tasks)
      BY <3>1, AppendProperties DEF Turned
    <3>4. ToSet(asked') = ToSet(asked) \cup {t}
      <4>1. /\ Len(asked') = Len(asked) + 1 /\ Len(asked) \in Nat
            /\ \A i \in 1..Len(asked) : asked'[i] = asked[i]
            /\ asked'[Len(asked) + 1] = t
        BY <3>1, AppendProperties, LenProperties DEF Turned
      <4>2. 1..Len(asked') = 1..Len(asked) \cup {Len(asked) + 1}
        BY <4>1
      <4>3. /\ ToSet(asked') = {asked'[i] : i \in 1..Len(asked')}
            /\ ToSet(asked) = {asked[i] : i \in 1..Len(asked)}
        BY <3>3, ElementsOf DEF Turned
      <4> QED
        BY <4>1, <4>2, <4>3
    <3>5. Once(asked')
      <4>1. /\ Len(asked') = Len(asked) + 1 /\ Len(asked) \in Nat
            /\ \A i \in 1..Len(asked) : asked'[i] = asked[i]
            /\ asked'[Len(asked) + 1] = t
        BY <3>1, AppendProperties, LenProperties DEF Turned
      <4>2. \A i \in 1..Len(asked) : asked[i] # t
        <5>1. \A i \in 1..Len(asked) : asked[i] \in ToSet(asked)
          BY ElementsOf DEF Turned
        <5> QED
          BY <3>1, <5>1 DEF Turned
      <4>3. \A i, j \in 1..Len(asked) : asked[i] = asked[j] => i = j
        BY DEF Once, Turned
      <4> SUFFICES ASSUME NEW i \in 1..Len(asked'), NEW j \in 1..Len(asked'),
                          asked'[i] = asked'[j]
                   PROVE  i = j
        BY DEF Once
      <4>4. CASE i \in 1..Len(asked) /\ j \in 1..Len(asked)
        BY <4>1, <4>3, <4>4
      <4>5. CASE i = Len(asked) + 1 \/ j = Len(asked) + 1
        BY <4>1, <4>2, <4>5
      <4> QED
        BY <4>1, <4>4, <4>5
    <3>6. ToSet(asked') = {u \in Tasks : task'[u] = "blocked"}
      BY <3>1, <3>4 DEF Turned
    <3>7. open => asked' = Waiting'
      <4> DEFINE front == IF shown = Nobody THEN << >> ELSE <<shown>>
      <4>1. front \in Seq(Tasks)
        BY EmptySeq DEF Turned
      <4> HIDE DEF front
      <4>2. front \o pending \in Seq(Tasks)
        BY <4>1, ConcatProperties DEF Turned
      <4>3. /\ Append(requests, t) = requests \o <<t>> /\ Append(asked, t) = asked \o <<t>>
            /\ <<t>> \in Seq(Tasks)
        BY AppendIsConcat DEF Turned
      <4>4. ((front \o pending) \o requests) \o <<t>> = (front \o pending) \o (requests \o <<t>>)
        <5> DEFINE before == front \o pending
                   last == <<t>>
        <5>1. before \in Seq(Tasks) /\ requests \in Seq(Tasks) /\ last \in Seq(Tasks)
          BY <4>2, <4>3 DEF Turned
        <5> HIDE DEF before, last
        <5>2. (before \o requests) \o last = before \o (requests \o last)
          BY <5>1, ConcatAssociative
        <5> QED
          BY <5>2 DEF before, last
      <4>5. Waiting = (front \o pending) \o requests
        BY DEF Waiting, front
      <4>6. Waiting' = (front \o pending) \o requests'
        BY <3>1 DEF Waiting, front
      <4> QED
        BY <3>1, <4>3, <4>4, <4>5, <4>6 DEF Turned
    <3> QED
      BY <3>1, <3>2, <3>3, <3>5, <3>6, <3>7 DEF Turned
  <2> QED
    BY <2>1, <2>2
<1> QED
  BY <1>1, <1>2, <1>3 DEF Thread

LEMMA ConsumeTurns == ASSUME Turned, Consume PROVE Turned'
<1>1. CASE ~open
  <2>1. /\ task' = Dropped(task, ToSet(requests)) /\ asked' = Kept(Tasks \ ToSet(requests))
        /\ requests' = << >> /\ UNCHANGED <<pending, shown, open>>
    BY <1>1 DEF Consume, prompt
  <2>2. /\ task' \in [Tasks -> {"idle", "working", "blocked"} \cup Answers]
        /\ asked' \in Seq(Tasks) /\ Once(asked')
        /\ ToSet(asked') = {t \in Tasks : task'[t] = "blocked"}
    BY <2>1, DroppedTurns
  <2> QED
    BY <1>1, <2>1, <2>2, EmptySeq DEF Turned
<1>2. CASE open
  <2>1. /\ requests # << >> /\ OpenDeferred(Head(requests)) /\ requests' = Tail(requests)
        /\ UNCHANGED <<task, asked, open>>
    BY <1>2 DEF Consume
  <2> DEFINE t == Head(requests)
             rest == Tail(requests)
  <2>2. t \in Tasks /\ rest \in Seq(Tasks) /\ <<t>> \in Seq(Tasks)
    BY <2>1, HeadTailProperties DEF Turned
  <2>3. requests = <<t>> \o rest
    BY <2>1, HeadAndTail DEF Turned
  <2> HIDE DEF rest
  <2>4. CASE shown # Nobody
    <3>1. pending' = Append(pending, t) /\ shown' = shown
      BY <2>1, <2>4 DEF OpenDeferred, prompt
    <3>2. pending' \in Seq(Tasks) /\ pending' = pending \o <<t>>
      BY <2>2, <3>1, AppendProperties, AppendIsConcat DEF Turned
    <3>3. <<shown>> \in Seq(Tasks)
      BY <2>4 DEF Turned
    <3> HIDE DEF t
    <3>4. (<<shown>> \o pending) \o (<<t>> \o rest) = (<<shown>> \o (pending \o <<t>>)) \o rest
      <4>1. pending \in Seq(Tasks)
        BY DEF Turned
      <4> QED
        BY <2>2, <3>3, <4>1, Handed
    <3>6. Waiting = (<<shown>> \o pending) \o (<<t>> \o rest)
      BY <2>3, <2>4 DEF Waiting
    <3>7. Waiting' = (<<shown>> \o (pending \o <<t>>)) \o rest
      BY <2>1, <2>4, <3>1, <3>2 DEF Waiting, rest
    <3> QED
      BY <1>2, <2>1, <2>2, <2>4, <3>1, <3>2, <3>4, <3>6, <3>7 DEF Turned, rest
  <2>5. CASE shown = Nobody
    <3>1. pending' = pending /\ shown' = t
      BY <2>1, <2>5 DEF OpenDeferred, Spawned
    <3> HIDE DEF t
    <3>2. pending = << >> /\ t # Nobody
      BY <2>2, <2>5, NobodyIsNoTask DEF Turned
    <3>3. Waiting = requests
      BY <2>5, <3>2, ConcatEmptySeq, EmptySeq DEF Waiting, Turned
    <3>4. Waiting' = <<t>> \o rest
      BY <2>1, <2>2, <3>1, <3>2, ConcatEmptySeq DEF Waiting, rest
    <3> QED
      BY <1>2, <2>1, <2>2, <2>3, <3>1, <3>2, <3>3, <3>4 DEF Turned, rest
  <2> QED
    BY <2>4, <2>5
<1> QED
  BY <1>1, <1>2 DEF Turned

(* The one who is answered is the first of those who wait.                 *)
LEMMA AnswerTurns == ASSUME Turned, NEW a \in Answers, Answer(a) PROVE Turned'
<1>1. /\ open /\ shown # Nobody /\ task' = [task EXCEPT ![shown] = a]
      /\ asked' = Kept(Tasks \ {shown}) /\ CloseDialog
      /\ UNCHANGED <<requests, open>>
  BY DEF Answer, Drawn, channel
<1>2. shown \in Tasks /\ <<shown>> \in Seq(Tasks)
  BY <1>1 DEF Turned
<1>3. task' \in [Tasks -> {"idle", "working", "blocked"} \cup Answers]
  BY <1>1 DEF Turned
<1>4. /\ asked' \in Seq(Tasks) /\ Once(asked')
      /\ ToSet(asked') = ToSet(asked) \cap (Tasks \ {shown})
  BY <1>1, KeptFacts DEF Turned
<1>5. ToSet(asked') = {t \in Tasks : task'[t] = "blocked"}
  <2>1. a # "blocked"
    BY DEF Answers, Aborts, ForAll
  <2>2. {t \in Tasks : task'[t] = "blocked"}
          = {t \in Tasks : task[t] = "blocked"} \cap (Tasks \ {shown})
    BY <1>1, <1>2, <2>1 DEF Turned
  <2> QED
    BY <1>4, <2>2 DEF Turned
<1> DEFINE rest == pending \o requests
<1>6. rest \in Seq(Tasks)
  BY ConcatProperties DEF Turned
<1>7. asked = <<shown>> \o rest
  <2>1. asked = (<<shown>> \o pending) \o requests
    BY <1>1 DEF Turned, Waiting
  <2> QED
    BY <1>2, <2>1, ConcatAssociative DEF Turned
<1> HIDE DEF rest
<1>8. asked' = rest
  <2>1. /\ Len(asked) = 1 + Len(rest) /\ Len(rest) \in Nat /\ asked # << >>
        /\ \A i \in 1..(1 + Len(rest)) : asked[i] = IF i <= 1 THEN shown ELSE rest[i - 1]
    <3>1. /\ Len(asked) = Len(<<shown>>) + Len(rest)
          /\ \A i \in 1..(Len(<<shown>>) + Len(rest)) :
               asked[i] = IF i <= Len(<<shown>>) THEN <<shown>>[i] ELSE rest[i - Len(<<shown>>)]
      BY <1>2, <1>6, <1>7, ConcatProperties
    <3>2. Len(<<shown>>) = 1 /\ <<shown>>[1] = shown /\ Len(rest) \in Nat
      BY <1>6, LenProperties
    <3>3. Len(asked) = 1 + Len(rest)
      BY <3>1, <3>2
    <3>4. ASSUME NEW i \in 1..(1 + Len(rest))
          PROVE  asked[i] = IF i <= 1 THEN shown ELSE rest[i - 1]
      <4>1. asked[i] = IF i <= 1 THEN <<shown>>[i] ELSE rest[i - 1]
        BY <3>1, <3>2
      <4>2. i <= 1 => i = 1
        BY <3>2
      <4> QED
        BY <3>2, <4>1, <4>2
    <3>5. asked # << >>
      BY <3>2, <3>3, EmptySeq
    <3> QED
      BY <3>2, <3>3, <3>4, <3>5
  <2>2. asked[1] = shown
    BY <2>1
  <2>3. \A i \in 2..Len(asked) : asked[i] # shown
    BY <2>1, <2>2 DEF Turned, Once
  <2>4. {i \in 1..Len(asked) : asked[i] \in Tasks \ {shown}} = 2..Len(asked)
    <3>1. \A i \in 1..Len(asked) : asked[i] \in Tasks
      BY ElementOfSeq DEF Turned
    <3>2. \A i \in 1..Len(asked) : i = 1 \/ i \in 2..Len(asked)
      BY <2>1
    <3>3. 2..Len(asked) \subseteq 1..Len(asked)
      BY <2>1
    <3> QED
      BY <2>2, <2>3, <3>1, <3>2, <3>3
  <2>5. asked' = Tail(asked)
    BY <1>1, <2>1, <2>4, PickedTail DEF Kept, Turned
  <2>6. /\ Tail(asked) \in Seq(Tasks) /\ Len(Tail(asked)) = Len(asked) - 1
        /\ \A i \in 1..(Len(asked) - 1) : Tail(asked)[i] = asked[i + 1]
    BY <2>1, HeadTailProperties DEF Turned
  <2>7. ASSUME NEW i \in 1..Len(rest)
        PROVE  Tail(asked)[i] = rest[i]
    <3>1. i \in 1..(Len(asked) - 1) /\ i + 1 \in 1..(1 + Len(rest)) /\ ~ (i + 1 <= 1)
          /\ (i + 1) - 1 = i
      BY <2>1
    <3> QED
      BY <2>1, <2>6, <3>1
  <2>8. Len(Tail(asked)) = Len(rest)
    BY <2>1, <2>6
  <2> QED
    BY <1>6, <2>5, <2>6, <2>7, <2>8, SeqEqual
<1>9. CASE pending # << >>
  <2>1. shown' = Head(pending) /\ pending' = Tail(pending)
    BY <1>1, <1>9 DEF CloseDialog, Spawned
  <2>2. shown' \in Tasks /\ pending' \in Seq(Tasks)
    BY <1>9, <2>1, HeadTailProperties DEF Turned
  <2>3. pending = <<shown'>> \o pending'
    BY <1>9, <2>1, HeadAndTail DEF Turned
  <2>4. Waiting' = (<<shown'>> \o pending') \o requests
    BY <1>1, <2>2, NobodyIsNoTask DEF Waiting
  <2> QED
    BY <1>1, <1>3, <1>4, <1>5, <1>8, <2>2, <2>3, <2>4, NobodyIsNoTask DEF Turned, rest
<1>10. CASE pending = << >>
  <2>1. shown' = Nobody /\ pending' = << >>
    BY <1>1, <1>10 DEF CloseDialog
  <2>2. Waiting' = (<< >> \o << >>) \o requests
    BY <1>1, <2>1 DEF Waiting
  <2>3. << >> \o << >> = << >>
    BY ConcatEmptySeq, EmptySeq
  <2>4. Waiting' = asked'
    BY <1>8, <1>10, <2>2, <2>3 DEF rest
  <2> QED
    BY <1>1, <1>3, <1>4, <1>5, <2>1, <2>4, EmptySeq DEF Turned
<1> QED
  BY <1>9, <1>10

LEMMA HashDoneTurns == ASSUME Turned, NEW side \in Sides, HashDone(side) PROVE Turned'
<1>1. CASE open \/ hashing' # {}
  <2>1. UNCHANGED <<task, asked, pending, requests, shown, open>>
    BY <1>1 DEF HashDone, channel
  <2> QED
    BY <2>1, TurnedKept DEF Turned
<1>2. CASE ~(open \/ hashing' # {})
  <2>1. /\ task' = Dropped(task, {shown}) /\ asked' = Kept(Tasks \ {shown})
        /\ shown' = Nobody /\ ~open /\ UNCHANGED <<pending, requests, open>>
    BY <1>2 DEF HashDone, channel
  <2>2. /\ task' \in [Tasks -> {"idle", "working", "blocked"} \cup Answers]
        /\ asked' \in Seq(Tasks) /\ Once(asked')
        /\ ToSet(asked') = {t \in Tasks : task'[t] = "blocked"}
    BY <2>1, DroppedTurns
  <2> QED
    BY <2>1, <2>2 DEF Turned
<1> QED
  BY <1>1, <1>2

LEMMA QuitTurns == ASSUME Turned, Quit PROVE Turned'
<1> DEFINE held == ToSet(pending) \cup (IF hashing = {} THEN {shown} ELSE {})
<1>1. /\ task' = Dropped(task, held) /\ asked' = Kept(Tasks \ held)
      /\ shown' \in Tasks \cup {Nobody} /\ open' = FALSE /\ pending' = << >>
      /\ UNCHANGED requests
  BY DEF Quit, channel, Turned
<1> HIDE DEF held
<1>2. /\ task' \in [Tasks -> {"idle", "working", "blocked"} \cup Answers]
      /\ asked' \in Seq(Tasks) /\ Once(asked')
      /\ ToSet(asked') = {t \in Tasks : task'[t] = "blocked"}
  BY <1>1, DroppedTurns
<1> QED
  BY <1>1, <1>2, EmptySeq DEF Turned

(* Whatever else happens moves nobody who waits.                           *)
LEMMA OthersTurn ==
  ASSUME Turned,
         \/ Render \/ StartRename \/ CycleFocus \/ OpenForm \/ CloseForm \/ ClickPanel
         \/ \E side \in Sides : StartHash(side)
         \/ \E j \in Jobs : Cancel(j) \/ Confirm(j) \/ PlanDone(j) \/ PlanHeard(j) \/ PlanFails(j)
         \/ UNCHANGED vars
  PROVE  Turned'
<1>1. UNCHANGED <<task, asked, pending, requests, shown, open>>
  <2>1. CASE Render \/ StartRename \/ CycleFocus
    BY <2>1 DEF Render, StartRename, CycleFocus, threads, channel, prompt
  <2>2. CASE OpenForm \/ CloseForm \/ ClickPanel
    BY <2>2 DEF OpenForm, CloseForm, ClickPanel, threads, channel, prompt
  <2>3. CASE \E side \in Sides : StartHash(side)
    BY <2>3 DEF StartHash, threads, channel
  <2>4. CASE \E j \in Jobs : Cancel(j) \/ Confirm(j) \/ PlanDone(j) \/ PlanHeard(j) \/ PlanFails(j)
    BY <2>4 DEF Cancel, Confirm, PlanDone, PlanHeard, PlanFails, threads, channel, prompt
  <2>5. CASE UNCHANGED vars
    BY <2>5 DEF vars, threads, channel, prompt
  <2> QED
    BY <2>1, <2>2, <2>3, <2>4, <2>5
<1> QED
  BY <1>1, TurnedKept DEF Turned

LEMMA TurnedStep == Turned /\ [Next]_vars => Turned'
<1> SUFFICES ASSUME Turned, [Next]_vars PROVE Turned'
  OBVIOUS
<1>1. CASE \E t \in Tasks : Thread(t)
  BY <1>1, ThreadTurns
<1>2. CASE Consume
  BY <1>2, ConsumeTurns
<1>3. CASE UserAnswers
  BY <1>3, AnswerTurns DEF UserAnswers
<1>4. CASE \E side \in Sides : HashDone(side)
  BY <1>4, HashDoneTurns
<1>5. CASE Quit
  BY <1>5, QuitTurns
<1>6. CASE \/ Render \/ StartRename \/ CycleFocus \/ OpenForm \/ CloseForm \/ ClickPanel
           \/ \E side \in Sides : StartHash(side)
           \/ \E j \in Jobs : Cancel(j) \/ Confirm(j) \/ PlanDone(j) \/ PlanHeard(j) \/ PlanFails(j)
           \/ UNCHANGED vars
  BY <1>6, OthersTurn
<1> QED
  BY <1>1, <1>2, <1>3, <1>4, <1>5, <1>6 DEF Next

(* Whatever is answered, dropped, hashed, queued or closed, the threads    *)
(* that wait are those of the dialog, of its queue and of the channel, one *)
(* after the other in the order they asked (conflict_dialog.rs:           *)
(* close_conflict_dialog and the loop over the channel).                   *)
THEOREM AskedInTurn == Spec => []InTurn
<1>1. Turned => InTurn
  BY DEF Turned, InTurn, Waiting
<1> QED
  BY <1>1, TurnedStarts, TurnedStep, PTL DEF Spec

-----------------------------------------------------------------------------
(* Where the keyboard is, between the frames too: each dialog that is open *)
(* knows whom to give it back to, in the order the two were opened, and a  *)
(* claim or a return that waits for the next frame counts as made.         *)
InConflict == {"dialog", "field"}
Given == IF restore # Unset THEN restore ELSE focus

Rest ==
  /\ shown = Nobody => previous = Unset /\ ~claim
  /\ form = "closed" => formPrevious = Unset
  /\ form # "closed" => restore = Unset
  /\ claim => previous = Unset

Alone == shown = Nobody /\ form = "closed" => Given = "panel"
FormOnly == shown = Nobody /\ form # "closed" => focus = "form" /\ formPrevious = "panel"
DialogOnly ==
  shown # Nobody /\ form = "closed" =>
    IF claim THEN Given = "panel" ELSE Given \in InConflict /\ previous = "panel"
FormLast ==
  /\ later = "form" /\ focus = "form"
  /\ formPrevious \in InConflict /\ previous = "panel"
DialogLast ==
  /\ later = "dialog" /\ focus \in InConflict
  /\ previous = "form" /\ formPrevious = "panel"
Both ==
  shown # Nobody /\ form # "closed" =>
    IF claim THEN focus = "form" /\ formPrevious = "panel" ELSE DialogLast \/ FormLast

Ordered == Alone /\ FormOnly /\ DialogOnly /\ Both
Fronted == open => Rest /\ (~crossed => Ordered)

LEMMA FrontedStarts == Init => Fronted
BY DEF Init, Fronted, Rest, Ordered, Alone, FormOnly, DialogOnly, Both, Given, Unset

(* A step that leaves the screen and the keyboard alone.                   *)
LEMMA FrontedKept ==
  ASSUME Fronted, UNCHANGED <<open, shown, form, keyboard>>
  PROVE  Fronted'
BY DEF Fronted, keyboard, Rest, Ordered, Alone, FormOnly, DialogOnly, Both, Given,
       DialogLast, FormLast

LEMMA FrontedUnseen ==
  ASSUME Fronted,
         \/ \E t \in Tasks : Thread(t)
         \/ \E side \in Sides : StartHash(side)
         \/ \E j \in Jobs : Cancel(j) \/ PlanDone(j)
         \/ UNCHANGED vars
  PROVE  Fronted'
<1>1. UNCHANGED <<open, shown, form, keyboard>>
  <2>1. CASE \E t \in Tasks : Thread(t)
    BY <2>1 DEF Thread, BeginStep, ResolveConflict, Resume, prompt
  <2>2. CASE \E side \in Sides : StartHash(side)
    BY <2>2 DEF StartHash
  <2>3. CASE \E j \in Jobs : Cancel(j) \/ PlanDone(j)
    BY <2>3 DEF Cancel, PlanDone, prompt
  <2>4. CASE UNCHANGED vars
    BY <2>4 DEF vars, prompt
  <2> QED
    BY <2>1, <2>2, <2>3, <2>4
<1> QED
  BY <1>1, FrontedKept

LEMMA FrontedHash == ASSUME Fronted, NEW side \in Sides, HashDone(side) PROVE Fronted'
<1>1. CASE open
  <2>1. UNCHANGED <<open, shown, form, keyboard>>
    BY <1>1 DEF HashDone
  <2> QED
    BY <2>1, FrontedKept
<1>2. CASE ~open
  BY <1>2 DEF HashDone, Fronted
<1> QED
  BY <1>1, <1>2

(* A dialog for a conflict that finds none there claims the next frame.    *)
LEMMA FrontedConsume == ASSUME Turned, Fronted, Consume PROVE Fronted'
<1>1. CASE ~open
  BY <1>1 DEF Consume, Fronted
<1>2. CASE open
  <2>1. /\ requests # << >> /\ OpenDeferred(Head(requests))
        /\ UNCHANGED <<open, form, focus, previous, formPrevious, restore, later, crossed>>
    BY <1>2 DEF Consume
  <2>2. Head(requests) # Nobody
    BY <2>1, HeadTailProperties, NobodyIsNoTask DEF Turned
  <2>3. CASE shown # Nobody
    <3>1. UNCHANGED <<shown, claim>>
      BY <2>1, <2>3 DEF OpenDeferred, prompt
    <3> QED
      BY <2>1, <3>1, FrontedKept DEF keyboard
  <2>4. CASE shown = Nobody
    <3>1. shown' # Nobody /\ claim' = TRUE
      BY <2>1, <2>2, <2>4 DEF OpenDeferred, Spawned
    <3>2. Rest'
      BY <1>2, <2>1, <2>4, <3>1 DEF Fronted, Rest
    <3>3. ~crossed => Ordered'
      BY <1>2, <2>1, <2>4, <3>1
         DEF Fronted, Rest, Ordered, Alone, FormOnly, DialogOnly, Both, Given
    <3> QED
      BY <2>1, <3>2, <3>3 DEF Fronted
  <2> QED
    BY <2>3, <2>4
<1> QED
  BY <1>1, <1>2

LEMMA FrontedRender == ASSUME Fronted, Render PROVE Fronted'
<1>1. /\ open /\ claim' = FALSE /\ restore' = Unset
      /\ previous' = (IF claim /\ previous = Unset THEN Given ELSE previous)
      /\ focus' = (IF claim THEN "dialog" ELSE Given)
      /\ later' = (IF claim /\ form # "closed" THEN "dialog" ELSE later)
      /\ UNCHANGED <<open, shown, form, formPrevious, crossed>>
  BY DEF Render, Given, prompt
<1>2. Rest'
  BY <1>1 DEF Fronted, Rest
<1>3. ASSUME ~crossed
      PROVE  Ordered'
  <2>1. Rest /\ Ordered
    BY <1>1, <1>3 DEF Fronted
  <2>2. Given' = focus'
    BY <1>1 DEF Given
  <2>3. Alone' /\ FormOnly'
    BY <1>1, <2>1, <2>2 DEF Ordered, Rest, Alone, FormOnly, Given
  <2>4. DialogOnly'
    BY <1>1, <2>1, <2>2 DEF Ordered, Rest, DialogOnly, InConflict
  <2>5. Both'
    BY <1>1, <2>1, <2>2 DEF Ordered, Rest, Both, DialogLast, FormLast, InConflict, Given
  <2> QED
    BY <2>3, <2>4, <2>5 DEF Ordered
<1> QED
  BY <1>1, <1>2, <1>3 DEF Fronted

(* The next conflict in the queue, or the keyboard back to whom it was      *)
(* taken from.                                                             *)
LEMMA FrontedAnswer == ASSUME Turned, Fronted, NEW a \in Answers, Answer(a) PROVE Fronted'
<1>1. /\ open /\ ~claim /\ restore = Unset /\ shown # Nobody /\ CloseDialog
      /\ crossed' = (crossed \/ (form # "closed" /\ later = "form"))
      /\ formPrevious' = Gone(formPrevious, "dialog")
      /\ UNCHANGED <<open, form, claim, restore>>
  BY DEF Answer, Drawn
<1>2. formPrevious' = (IF formPrevious \in InConflict THEN "nowhere" ELSE formPrevious)
  BY <1>1, Zenon DEF Gone, Handles, InConflict
<1>3. CASE pending # << >>
  <2>1. /\ shown' # Nobody /\ focus' = "dialog" /\ UNCHANGED previous
        /\ later' = (IF form = "closed" THEN "none" ELSE "dialog")
    BY <1>1, <1>3, HeadTailProperties, NobodyIsNoTask DEF CloseDialog, Spawned, Turned
  <2>2. Rest'
    BY <1>1, <1>2, <2>1 DEF Fronted, Rest, InConflict, Unset
  <2>3. ASSUME ~crossed'
        PROVE  Ordered'
    BY <1>1, <1>2, <2>1, <2>3
       DEF Fronted, Ordered, Rest, Alone, FormOnly, DialogOnly, Both, DialogLast, FormLast,
           InConflict, Given
  <2> QED
    BY <1>1, <2>2, <2>3 DEF Fronted
<1>4. CASE pending = << >>
  <2>1. /\ shown' = Nobody /\ previous' = Unset
        /\ focus' = (IF previous # Unset THEN previous ELSE Gone(focus, "dialog"))
    BY <1>1, <1>4 DEF CloseDialog
  <2>2. Rest'
    BY <1>1, <1>2, <2>1 DEF Fronted, Rest, InConflict, Unset
  <2>3. ASSUME ~crossed'
        PROVE  Ordered'
    BY <1>1, <1>2, <2>1, <2>3
       DEF Fronted, Ordered, Rest, Alone, FormOnly, DialogOnly, Both, DialogLast, FormLast,
           InConflict, Given, Unset
  <2> QED
    BY <1>1, <2>2, <2>3 DEF Fronted
<1> QED
  BY <1>3, <1>4

LEMMA FrontedField == ASSUME Fronted, StartRename \/ CycleFocus PROVE Fronted'
<1>1. /\ open /\ ~claim /\ restore = Unset
      /\ UNCHANGED <<open, shown, form, previous, formPrevious, claim, restore, later>>
  BY DEF StartRename, CycleFocus, Drawn, prompt
<1>2. Rest'
  BY <1>1 DEF Fronted, Rest
<1>3. CASE StartRename
  <2>1. /\ shown # Nobody /\ focus' = "field"
        /\ crossed' = (crossed \/ (form # "closed" /\ later = "form"))
    BY <1>3 DEF StartRename
  <2>2. ASSUME ~crossed'
        PROVE  Ordered'
    BY <1>1, <2>1, <2>2
       DEF Fronted, Ordered, Rest, Alone, FormOnly, DialogOnly, Both, DialogLast, FormLast,
           InConflict, Given
  <2> QED
    BY <1>1, <1>2, <2>2 DEF Fronted
<1>4. CASE CycleFocus
  <2>1. focus \in InConflict /\ focus' \in InConflict /\ crossed' = crossed
    BY <1>4, Zenon DEF CycleFocus, InDialog, Handles, InConflict
  <2>2. ASSUME ~crossed'
        PROVE  Ordered'
    BY <1>1, <2>1, <2>2
       DEF Fronted, Ordered, Rest, Alone, FormOnly, DialogOnly, Both, DialogLast, FormLast,
           InConflict, Given
  <2> QED
    BY <1>1, <1>2, <2>2 DEF Fronted
<1> QED
  BY <1>3, <1>4

LEMMA FrontedOpenForm == ASSUME Fronted, OpenForm PROVE Fronted'
<1>1. /\ open /\ ~claim /\ restore = Unset /\ form = "closed"
      /\ form' = "editing" /\ formPrevious' = focus /\ focus' = "form"
      /\ later' = (IF shown = Nobody THEN "none" ELSE "form")
      /\ UNCHANGED <<open, shown, previous, claim, restore, crossed>>
  BY DEF OpenForm, Drawn, prompt
<1>2. Rest'
  BY <1>1 DEF Fronted, Rest
<1>3. ASSUME ~crossed'
      PROVE  Ordered'
  BY <1>1, <1>3
     DEF Fronted, Ordered, Rest, Alone, FormOnly, DialogOnly, Both, FormLast, InConflict, Given
<1> QED
  BY <1>1, <1>2, <1>3 DEF Fronted

LEMMA GoneForm == \A h : Gone(h, "form") = IF h = "form" THEN "nowhere" ELSE h
BY Zenon DEF Gone, Handles

(* The copy dialog goes: by a key or the mouse, or when its plan is done,  *)
(* which has no window and leaves the keyboard to the next frame.          *)
LEMMA FrontedFormCloses ==
  ASSUME Fronted, open, FormCloses, UNCHANGED <<open, shown, claim>>,
         \/ /\ ~claim /\ form # "closed" /\ UNCHANGED restore
            /\ focus' = IF formPrevious # Unset THEN formPrevious ELSE Gone(focus, "form")
         \/ restore' = formPrevious /\ focus' = Gone(focus, "form")
  PROVE  Fronted'
<1>1. /\ form' = "closed" /\ later' = "none" /\ formPrevious' = Unset
      /\ previous' = (IF previous = "form" THEN "nowhere" ELSE previous)
      /\ crossed' = (crossed \/ restore # Unset \/ (shown # Nobody /\ ~claim /\ later = "dialog"))
  BY GoneForm DEF FormCloses
<1>2. Rest'
  BY <1>1 DEF Fronted, Rest, Unset
<1>3. ASSUME ~crossed'
      PROVE  Ordered'
  <2>1. Rest /\ Ordered /\ restore = Unset /\ ~(shown # Nobody /\ ~claim /\ later = "dialog")
    BY <1>1, <1>3 DEF Fronted
  <2>2. Given' = (IF formPrevious # Unset THEN formPrevious ELSE Gone(focus, "form"))
    BY <2>1 DEF Given
  <2>3. Alone' /\ FormOnly' /\ Both'
    BY <1>1, <2>1, <2>2, GoneForm DEF Ordered, Rest, Alone, FormOnly, Both, Given, Unset
  <2>4. DialogOnly'
    <3>1. CASE form = "closed"
      BY <1>1, <2>1, <2>2, <3>1, GoneForm DEF Ordered, Rest, DialogOnly, Given, InConflict, Unset
    <3>2. CASE form # "closed"
      BY <1>1, <2>1, <2>2, <3>2, GoneForm
         DEF Ordered, Rest, DialogOnly, Both, DialogLast, FormLast, Given, InConflict, Unset
    <3> QED
      BY <3>1, <3>2
  <2> QED
    BY <2>3, <2>4 DEF Ordered
<1> QED
  BY <1>2, <1>3 DEF Fronted

LEMMA FrontedCloseForm == ASSUME Fronted, CloseForm PROVE Fronted'
BY FrontedFormCloses DEF CloseForm, Drawn, prompt

LEMMA FrontedPlanHeard == ASSUME Fronted, NEW j \in Jobs, PlanHeard(j) PROVE Fronted'
BY FrontedFormCloses DEF PlanHeard, prompt

(* The copy dialog plans, or is edited again: it is there all the same.    *)
LEMMA FrontedPlans ==
  ASSUME Fronted, NEW j \in Jobs, Confirm(j) \/ PlanFails(j)
  PROVE  Fronted'
<1>1. j # "closed"
  BY ConflictAssumption DEF ConflictAssumption
<1>2. UNCHANGED <<open, shown, keyboard>> /\ (form = "closed" <=> form' = "closed")
  BY <1>1 DEF Confirm, PlanFails, prompt
<1> QED
  BY <1>2 DEF Fronted, keyboard, Rest, Ordered, Alone, FormOnly, DialogOnly, Both, Given,
              DialogLast, FormLast

LEMMA FrontedClick == ASSUME Fronted, ClickPanel PROVE Fronted'
<1>1. /\ open /\ ~claim /\ restore = Unset /\ shown = Nobody /\ form = "closed"
      /\ focus' = "panel"
      /\ UNCHANGED <<open, shown, form, previous, formPrevious, claim, restore>>
  BY DEF ClickPanel, Drawn, prompt
<1> QED
  BY <1>1 DEF Fronted, Rest, Ordered, Alone, FormOnly, DialogOnly, Both, Given

LEMMA FrontedStep == Turned /\ Fronted /\ [Next]_vars => Fronted'
<1> SUFFICES ASSUME Turned, Fronted, [Next]_vars PROVE Fronted'
  OBVIOUS
<1>1. CASE \/ \E t \in Tasks : Thread(t)
           \/ \E side \in Sides : StartHash(side)
           \/ \E j \in Jobs : Cancel(j) \/ PlanDone(j)
           \/ UNCHANGED vars
  BY <1>1, FrontedUnseen
<1>2. CASE \E side \in Sides : HashDone(side)
  BY <1>2, FrontedHash
<1>3. CASE Consume
  BY <1>3, FrontedConsume
<1>4. CASE Render
  BY <1>4, FrontedRender
<1>5. CASE UserAnswers
  BY <1>5, FrontedAnswer DEF UserAnswers
<1>6. CASE StartRename \/ CycleFocus
  BY <1>6, FrontedField
<1>7. CASE OpenForm
  BY <1>7, FrontedOpenForm
<1>8. CASE CloseForm
  BY <1>8, FrontedCloseForm
<1>9. CASE \E j \in Jobs : PlanHeard(j)
  BY <1>9, FrontedPlanHeard
<1>10. CASE \E j \in Jobs : Confirm(j) \/ PlanFails(j)
  BY <1>10, FrontedPlans
<1>11. CASE ClickPanel
  BY <1>11, FrontedClick
<1>12. CASE Quit
  BY <1>12 DEF Quit, Fronted
<1> QED
  BY <1>1, <1>2, <1>3, <1>4, <1>5, <1>6, <1>7, <1>8, <1>9, <1>10, <1>11, <1>12 DEF Next

(* The keyboard is with the dialog opened last, or with the panels when    *)
(* none is open, through conflicts that come while a copy is set up,       *)
(* planned or closed, as long as the dialogs are closed last first         *)
(* (workspace.rs and conflict_dialog.rs: who saves and restores the focus).*)
THEOREM KeysReachFrontHolds == Spec => []KeysReachFront
<1>1. Fronted => KeysReachFront
  <2> SUFFICES ASSUME Fronted, Drawn, ~crossed
               PROVE  focus \in Handles(InFront)
    BY DEF KeysReachFront
  <2>1. open /\ ~claim /\ Given = focus /\ Ordered
    BY DEF Fronted, Drawn, Given
  <2>2. /\ Handles("dialog") = InConflict /\ Handles("form") = {"form"}
        /\ Handles("panel") = {"panel"}
    BY Zenon DEF Handles, InConflict
  <2>3. CASE shown = Nobody /\ form = "closed"
    BY <2>1, <2>2, <2>3 DEF InFront, Ordered, Alone
  <2>4. CASE shown = Nobody /\ form # "closed"
    BY <2>1, <2>2, <2>4 DEF InFront, Ordered, FormOnly
  <2>5. CASE shown # Nobody /\ form = "closed"
    BY <2>1, <2>2, <2>5 DEF InFront, Ordered, DialogOnly
  <2>6. CASE shown # Nobody /\ form # "closed"
    BY <2>1, <2>2, <2>6 DEF InFront, Ordered, Both, DialogLast, FormLast
  <2> QED
    BY <2>3, <2>4, <2>5, <2>6
<1>2. Init => Turned /\ Fronted
  BY TurnedStarts, FrontedStarts
<1>3. (Turned /\ Fronted) /\ [Next]_vars => (Turned /\ Fronted)'
  BY TurnedStep, FrontedStep
<1> QED
  BY <1>1, <1>2, <1>3, PTL DEF Spec

===============================================================================
