------------------------------- MODULE PlanRuns -------------------------------
(***************************************************************************)
(* A plan's life: run by an executor that may fail, skip, be cancelled or  *)
(* die, then what is left of it run again, from the job's report           *)
(* (job_report_dialog.rs, rerun.rs) or from its journal (recovery.rs).     *)
(* The executor is reduced to the order of its steps, its gate, and what a *)
(* step does to the two trees; how it keeps its journal is in Executor,    *)
(* and Redo says what a journal can have missed.                           *)
(***************************************************************************)
EXTENDS Planner

CONSTANTS
  Jobs,         \* what may be asked for: moves, near, verify, policy, taken (the
                \* destination files in the way) and weather, the set of "fail",
                \* "cancel" and "crash" that may happen to it
  Alternate,    \* [name -> its "name (2)"]
  MaxFaults,    \* bound on what happens of its weather
  MaxRounds     \* bound on the runs of what is left

VARIABLES
  job,       \* the one of Jobs
  plan,      \* the plan that runs
  outcomes,  \* how each of its steps ended
  phase,     \* "running" or "over"
  disk,      \* what each path of the two trees names
  spoiled,   \* history: an earlier round was cancelled or crashed
  budget     \* faults and rounds left

vars == <<job, plan, outcomes, phase, disk, spoiled, budget>>

Absent == [kind |-> "none", data |-> "none", ino |-> None, meta |-> "none"]

Present(path) == disk[path].kind # "none"

Steps == 1..Len(plan)

AlternateOf(path) == Append(Front(path), Alternate[Last(path)])

Sources == DOMAIN Tree
Dests == {DestOf(p) : p \in Sources}
Paths == Sources \cup Dests \cup {AlternateOf(p) : p \in Dests}

(* A tree's inode is the path of its first name, so that a copy's is new.  *)
FirstDisk(taken) ==
  [p \in Paths |->
     IF p \in Sources
     THEN [kind |-> Tree[p].kind, data |-> Tree[p].data, ino |-> <<Tree[p].ino>>,
           meta |-> "source"]
     ELSE IF p \in taken
     THEN [kind |-> "file", data |-> "old", ino |-> p, meta |-> "old"]
     ELSE Absent]

Init ==
  /\ job \in Jobs
  /\ plan = IF job.moves THEN PlanMove(job.near, job.verify) ELSE PlanCopy(job.verify)
  /\ outcomes = [s \in 1..Len(plan) |-> "none"]
  /\ phase = "running"
  /\ disk = FirstDisk(job.taken)
  /\ spoiled = FALSE
  /\ budget = [faults |-> MaxFaults, rounds |-> MaxRounds]

-----------------------------------------------------------------------------
(* What a step does.                                                       *)

ParentExists(path) == Len(path) = 2 \/ disk[Front(path)].kind = "dir"

(* A new name touches the directory that holds it, and what is new has an   *)
(* inode of its own.                                                        *)
Put(path, node) ==
  [p \in Paths |-> IF p = path
                   THEN [node EXCEPT !.ino = IF @ = None THEN path ELSE @]
                   ELSE IF p = Front(path) THEN [disk[p] EXCEPT !.meta = "touched"]
                   ELSE disk[p]]

Ends(s, outcome, after) ==
  /\ outcomes' = [outcomes EXCEPT ![s] = outcome]
  /\ disk' = after
  /\ UNCHANGED <<job, plan, phase, spoiled, budget>>

Succeeds(s, after) == Ends(s, "succeeded", after)
Skips(s) == Ends(s, "skipped", disk)
FailsAt(s) == Ends(s, "failed", disk)

(* The destination a policy leaves a step.                                 *)
Placed(s, node) ==
  LET dst == plan[s].dst
  IN IF ~ParentExists(dst) THEN FailsAt(s)
     ELSE IF ~Present(dst) THEN Succeeds(s, Put(dst, node))
     ELSE CASE job.policy = "Skip" -> Skips(s)
            [] job.policy = "Overwrite" ->
                 IF disk[dst].kind = "dir" THEN FailsAt(s)
                 ELSE Succeeds(s, Put(dst, node))
            [] job.policy = "AutoRename" ->
                 IF Present(AlternateOf(dst)) THEN FailsAt(s)
                 ELSE Succeeds(s, Put(AlternateOf(dst), node))

CreateDir(s) ==
  IF disk[plan[s].dst].kind = "dir" THEN Succeeds(s, disk)
  ELSE Placed(s, [kind |-> "dir", data |-> "none", ino |-> None, meta |-> "new"])

CopyFile(s) ==
  IF Present(plan[s].src)
  THEN Placed(s, [disk[plan[s].src] EXCEPT !.ino = None, !.meta = "new"])
  ELSE FailsAt(s)

Link(s) ==
  IF Present(plan[s].src) THEN Placed(s, disk[plan[s].src]) ELSE FailsAt(s)

Verify(s) ==
  IF Present(plan[s].src) /\ disk[plan[s].src].data = disk[plan[s].dst].data
  THEN Succeeds(s, disk) ELSE FailsAt(s)

SetMeta(s) ==
  IF Present(plan[s].dst)
  THEN Succeeds(s, [p \in Paths |-> IF disk[p].ino = disk[plan[s].dst].ino
                                    THEN [disk[p] EXCEPT !.meta = "source"] ELSE disk[p]])
  ELSE FailsAt(s)

Under(path, dir) == Len(path) > Len(dir) /\ SubSeq(path, 1, Len(dir)) = dir

RemoveStep(s) ==
  LET target == plan[s].dst
  IN IF ~Present(target) THEN FailsAt(s)
     ELSE IF plan[s].kind = "RemoveDir"
             /\ \E p \in Paths : Under(p, target) /\ Present(p)
     THEN Skips(s)
     ELSE Succeeds(s, [disk EXCEPT ![target] = Absent])

(* The whole tree below the source changes its name.                       *)
Rename(s) ==
  LET src == plan[s].src
      Moved(dst) ==
        [p \in Paths |->
           IF p = src \/ Under(p, src) THEN Absent
           ELSE IF p = dst THEN disk[src]
           ELSE IF Under(p, dst) /\ src \o SubSeq(p, Len(dst) + 1, Len(p)) \in Sources
           THEN disk[src \o SubSeq(p, Len(dst) + 1, Len(p))]
           ELSE disk[p]]
      dst == plan[s].dst
  IN IF ~Present(src) THEN FailsAt(s)
     ELSE IF ~Present(dst) \/ job.policy = "Overwrite" THEN Succeeds(s, Moved(dst))
     ELSE IF job.policy = "Skip" THEN Skips(s)
     ELSE IF Present(AlternateOf(dst)) THEN FailsAt(s)
     ELSE Succeeds(s, Moved(AlternateOf(dst)))

Dispatch(s) ==
  CASE plan[s].kind = "CreateDir" -> CreateDir(s)
    [] plan[s].kind = "CopyFile" -> CopyFile(s)
    [] plan[s].kind = "Link" -> Link(s)
    [] plan[s].kind = "Verify" -> Verify(s)
    [] plan[s].kind = "SetMeta" -> SetMeta(s)
    [] plan[s].kind \in {"Remove", "RemoveDir"} -> RemoveStep(s)
    [] plan[s].kind = "Rename" -> Rename(s)

-----------------------------------------------------------------------------
(* The executor.                                                           *)

Ended(s) == outcomes[s] # "none"

Concurrent(s, t) == \A u \in s..t : plan[u].kind = "CopyFile"

Eligible(s) ==
  ~Ended(s) /\ \A t \in 1..(s - 1) : Ended(t) \/ Concurrent(t, s)

Blocked(s) == plan[s].dep \in Steps /\ outcomes[plan[s].dep] = "failed"

StepRuns ==
  /\ phase = "running"
  /\ \E s \in Steps :
       Eligible(s) /\ (IF Blocked(s) THEN Skips(s) ELSE Dispatch(s))

Spend == budget' = [budget EXCEPT !.faults = @ - 1]

StepFails ==
  /\ phase = "running" /\ "fail" \in job.weather /\ budget.faults > 0
  /\ \E s \in Steps :
       /\ Eligible(s) /\ ~Blocked(s)
       /\ outcomes' = [outcomes EXCEPT ![s] = "failed"]
  /\ Spend
  /\ UNCHANGED <<job, plan, phase, disk, spoiled>>

JobEnds ==
  /\ phase = "running" /\ \A s \in Steps : Ended(s)
  /\ phase' = "over"
  /\ UNCHANGED <<job, plan, outcomes, disk, spoiled, budget>>

(* Cancelled, or a conflict's Abort.                                       *)
JobCancelled ==
  /\ phase = "running" /\ "cancel" \in job.weather /\ budget.faults > 0
  /\ phase' = "over"
  /\ spoiled' = TRUE
  /\ Spend
  /\ UNCHANGED <<job, plan, outcomes, disk>>

-----------------------------------------------------------------------------
(* What is left.                                                           *)

Again(redo) ==
  LET p == Rebuilt(plan, redo)
  IN /\ budget.rounds > 0
     /\ budget' = [budget EXCEPT !.rounds = @ - 1]
     /\ plan' = p
     /\ outcomes' = [s \in 1..Len(p) |-> "none"]
     /\ phase' = "running"
     /\ UNCHANGED <<job, disk>>

(* plan_from_report.                                                       *)
Reported == {s \in Steps : outcomes[s] \in {"failed", "skipped"}}

Rerun ==
  /\ phase = "over" /\ Reported # {}
  /\ Again(Reported)
  /\ UNCHANGED spoiled

RedoSafe(s) == plan[s].kind \in {"CreateDir", "CopyFile", "SetMeta", "Verify"}

(* A step may have its Intent durable when all that is not over before it  *)
(* is redo-safe like it.                                                   *)
Intended(s) == \A t \in 1..(s - 1) : Ended(t) \/ \A u \in t..s : RedoSafe(u)

(* The steps a journal may show with an Intent and no Completion.  Records *)
(* are lost from the end; a strict step waits for all before it to be      *)
(* durable, a redo-safe one only for its Intent.                           *)
Unsynced == {s \in Steps : Ended(s) /\ \A t \in Steps : t > s /\ Ended(t) => RedoSafe(t)}

Redo ==
  LET Losses == {lost \in SUBSET Unsynced : \A s \in lost, t \in Unsynced :
                   t > s => Concurrent(s, t) \/ t \in lost}
      Begun == {fresh \in SUBSET {s \in Steps : ~Ended(s) /\ Intended(s)} :
                  \A s \in fresh, t \in Steps : t < s /\ ~Ended(t) => t \in fresh}
  IN {lost \cup fresh : lost \in Losses, fresh \in {f \in Begun : \A s \in f : RedoSafe(s)}}
       \cup Begun

CrashAndResume ==
  /\ phase = "running" /\ "crash" \in job.weather /\ budget.faults > 0
  /\ \E redo \in Redo :
       LET p == Rebuilt(plan, redo)
       IN /\ redo # {}
          /\ budget.rounds > 0
          /\ budget' = [faults |-> budget.faults - 1, rounds |-> budget.rounds - 1]
          /\ plan' = p
          /\ outcomes' = [s \in 1..Len(p) |-> "none"]
  /\ spoiled' = TRUE
  /\ UNCHANGED <<job, phase, disk>>

Next ==
  \/ StepRuns \/ StepFails \/ JobEnds \/ JobCancelled \/ Rerun \/ CrashAndResume

Spec == Init /\ [][Next]_vars

-----------------------------------------------------------------------------
(* Every variable is of its type. *)
TypeOK ==
  /\ DOMAIN outcomes = Steps
  /\ Range(outcomes) \subseteq {"none", "succeeded", "failed", "skipped"}
  /\ phase \in {"running", "over"}
  /\ \A p \in Paths : disk[p].kind \in Kinds \cup {"none"}
  /\ budget.faults \in 0..MaxFaults /\ budget.rounds \in 0..MaxRounds

(* The order of any plan, of what is left of one included, is one its steps *)
(* can be run in: a directory before what is put into it, what is in a      *)
(* directory gone before it is, and nothing put into one whose attributes   *)
(* are already set.                                                         *)
Makes == {"CreateDir", "CopyFile", "Link"}

PlanOrdered ==
  \A s, t \in Steps :
    /\ plan[s].dep < s
    /\ plan[s].kind = "CreateDir" /\ plan[t].kind \in Makes /\ Under(plan[t].dst, plan[s].dst)
         => s < t
    /\ plan[s].kind = "RemoveDir" /\ plan[t].kind \in {"Remove", "RemoveDir"}
         /\ Under(plan[t].dst, plan[s].dst) => t < s
    /\ plan[s].kind = "SetMeta" /\ plan[t].kind \in Makes
         /\ (plan[t].dst = plan[s].dst \/ Under(plan[t].dst, plan[s].dst)) => t < s

(* mover.rs:30, a Remove must never run if its CopyFile failed: what the    *)
(* sources held is under some name, however often what failed of a move is  *)
(* run again, or wherever it died and was resumed.                          *)
NothingLost ==
  \A p \in Sources : Tree[p].kind = "file" =>
    \E q \in Paths : disk[q].data = Tree[p].data

(* A job whose last round has nothing to report has done all of it, though  *)
(* that round was only what earlier ones had failed at: every file is at    *)
(* its place with its content and attributes, names of one inode are still  *)
(* of one, and a move has left nothing it could take.                       *)
CleanMeansDone ==
  LET Walked == {p \in Sources : Tree[p].kind # "symlink"}
      Files == {p \in Walked : Tree[p].kind = "file"}
  IN phase = "over" /\ ~spoiled /\ Reported = {} =>
       /\ \A p \in Walked : /\ disk[DestOf(p)].kind = Tree[p].kind
                            /\ disk[DestOf(p)].data = Tree[p].data
                            /\ job.moves => ~Present(p)
       /\ \A p \in Files : disk[DestOf(p)].meta = "source"
       /\ \A p, q \in Files : Tree[p].ino = Tree[q].ino
                              => disk[DestOf(p)].ino = disk[DestOf(q)].ino
       /\ budget.rounds = MaxRounds =>
            \A p \in Walked : disk[DestOf(p)].meta = "source"

===============================================================================
