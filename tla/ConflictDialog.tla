---------------------------- MODULE ConflictDialog ----------------------------
(***************************************************************************)
(* How a conflict met by an executor's thread is put to the user and the   *)
(* answer brought back (crates/duet-ui/src/conflict_dialog.rs, the parts   *)
(* of workspace.rs it names, executor.rs: resolve_conflict), next to the   *)
(* copy dialog (copy_move_dialog.rs), which starts the jobs and competes   *)
(* for the keyboard.                                                       *)
(*                                                                         *)
(* A handle of the keyboard's focus is named by what it belongs to; when   *)
(* that goes from the screen every copy of the handle becomes "nowhere",   *)
(* for it never comes back.                                                *)
(***************************************************************************)
EXTENDS Naturals, Sequences, FiniteSets, SequencesExt, Picked

CONSTANTS
  Jobs,
  Started,       \* those that run from the start; the copy dialog plans the others
  Width,         \* [job -> how many of its steps run at once]
  MaxConflicts,  \* bound on the conflicts met in a run
  Sides          \* what can be hashed

ASSUME ConflictAssumption ==
  /\ Width \in [Jobs -> Nat \ {0}] /\ MaxConflicts \in Nat
  /\ Started \subseteq Jobs /\ Jobs \cap {"closed", "editing"} = {}

VARIABLES
  job,        \* [job -> "none", "planning", "running" or "cancelled"]
  left,       \* how many conflicts may still be met
  sticky,     \* [job -> its answer for all remaining, or Unset]
  task,       \* [thread -> "idle", "working", "blocked" or the answer it was sent]
  requests,   \* the channel to the workspace, as the threads that wait
  loop,       \* whether the loop that reads the channel still runs
  open,       \* whether the workspace exists
  pending,    \* pending_conflict_requests
  shown,      \* the thread the conflict dialog is about, or Nobody
  hashing,    \* the sides it is hashing
  renaming,   \* whether its rename field is there
  form,       \* the copy dialog: "closed", "editing" or the job it plans
  planned,    \* the jobs enqueued whose copy dialog has not been told yet
  focus,      \* the handle that has the keyboard
  previous,   \* conflict_dialog_previous_focus
  formPrevious, \* copy_move_dialog_previous_focus
  claim,      \* pending_conflict_focus, as whether it is set
  restore,    \* pending_focus_restore
  asked,      \* history: the threads that wait, in the order they asked
  later,      \* history: of two dialogs, the one that took the keyboard last
  crossed     \* history: one was closed before the one opened over it, or the
              \* focus to give back was set twice in one frame

threads == <<job, left, sticky, task, asked>>
channel == <<requests, loop>>
keyboard == <<focus, previous, formPrevious, claim, restore, later, crossed>>
prompt == <<shown, hashing, renaming>>
vars == <<threads, channel, open, pending, prompt, form, planned, keyboard>>

Tasks == UNION {{j} \X (1..Width[j]) : j \in Jobs}
Nobody == << >>
Unset == "unset"

(* What the user decides is told apart by whether it stops the job and      *)
(* whether it is for all remaining.                                        *)
Aborts == {"abort", "abort all"}
ForAll == {"skip all", "abort all"}
Answers == {"skip"} \cup Aborts \cup ForAll

Init ==
  /\ job = [j \in Jobs |-> IF j \in Started THEN "running" ELSE "none"]
  /\ left = MaxConflicts
  /\ sticky = [j \in Jobs |-> Unset]
  /\ task = [t \in Tasks |-> "idle"]
  /\ requests = << >> /\ loop = TRUE /\ open = TRUE /\ pending = << >>
  /\ shown = Nobody /\ hashing = {} /\ renaming = FALSE
  /\ form = "closed" /\ planned = {} /\ focus = "panel"
  /\ previous = Unset /\ formPrevious = Unset /\ claim = FALSE /\ restore = Unset
  /\ asked = << >> /\ later = "none" /\ crossed = FALSE

-----------------------------------------------------------------------------
(* The executor's threads.                                                 *)

(* A step that has passed its gate.                                        *)
BeginStep(t) ==
  /\ job[t[1]] = "running" /\ left > 0 /\ task[t] = "idle"
  /\ task' = [task EXCEPT ![t] = "working"]
  /\ left' = left - 1
  /\ UNCHANGED <<job, sticky, asked, channel, open, pending, prompt, form, planned, keyboard>>

Cancelled(j, answer) ==
  [job EXCEPT ![j] = IF answer \in Aborts /\ @ = "running" THEN "cancelled" ELSE @]

(* Deviation of ResolveConflict: the answer for all remaining is not looked *)
(* up.                                                                     *)
ResolveForgetting(t) ==
  /\ task[t] = "working"
  /\ IF loop
       THEN /\ task' = [task EXCEPT ![t] = "blocked"]
            /\ requests' = Append(requests, t)
            /\ asked' = Append(asked, t)
            /\ UNCHANGED <<job, loop>>
       ELSE /\ task' = [task EXCEPT ![t] = "idle"]
            /\ UNCHANGED <<job, asked, channel>>
  /\ UNCHANGED <<left, sticky, open, pending, prompt, form, planned, keyboard>>

(* resolve_conflict: the answer for all remaining, or a request and a wait; *)
(* a channel nobody reads skips.                                           *)
ResolveConflict(t) ==
  /\ task[t] = "working"
  /\ IF loop /\ sticky[t[1]] = Unset
       THEN /\ task' = [task EXCEPT ![t] = "blocked"]
            /\ requests' = Append(requests, t)
            /\ asked' = Append(asked, t)
            /\ UNCHANGED <<job, loop>>
       ELSE /\ task' = [task EXCEPT ![t] = "idle"]
            /\ job' = IF sticky[t[1]] = Unset THEN job ELSE Cancelled(t[1], sticky[t[1]])
            /\ UNCHANGED <<asked, channel>>
  /\ UNCHANGED <<left, sticky, open, pending, prompt, form, planned, keyboard>>

(* The thread wakes up with its answer.                                    *)
Resume(t) ==
  /\ task[t] \in Answers
  /\ task' = [task EXCEPT ![t] = "idle"]
  /\ sticky' = [sticky EXCEPT ![t[1]] = IF task[t] \in ForAll THEN task[t] ELSE @]
  /\ job' = Cancelled(t[1], task[t])
  /\ UNCHANGED <<left, asked, channel, open, pending, prompt, form, planned, keyboard>>

(* Somebody cancels the job elsewhere.                                     *)
Cancel(j) ==
  /\ job[j] = "running"
  /\ job' = [job EXCEPT ![j] = "cancelled"]
  /\ UNCHANGED <<left, sticky, task, asked, channel, open, pending, prompt, form, planned, keyboard>>

-----------------------------------------------------------------------------
(* The workspace.  What leaves the screen takes its handles with it.       *)

Handles(overlay) ==
  CASE overlay = "dialog" -> {"dialog", "field"}
    [] overlay = "form" -> {"form"}
    [] OTHER -> {"panel"}

Gone(h, overlay) == IF h \in Handles(overlay) THEN "nowhere" ELSE h

(* The requests of these threads are dropped, and with them their senders. *)
Dropped(answers, ts) == [t \in Tasks |-> IF t \in ts THEN "skip" ELSE answers[t]]

Kept(ts) == Picked(asked, {i \in 1..Len(asked) : asked[i] \in ts})

Spawned(t) == shown' = t /\ hashing' = {} /\ renaming' = FALSE

(* open_conflict_dialog_deferred: without a window the focus has to wait.  *)
OpenDeferred(t) ==
  IF shown # Nobody
    THEN pending' = Append(pending, t) /\ UNCHANGED <<prompt, claim>>
    ELSE Spawned(t) /\ claim' = TRUE /\ UNCHANGED pending

(* The loop over the channel; it ends when it finds the workspace gone, and *)
(* whatever else was in the channel goes with its receiver.                *)
Consume ==
  /\ loop /\ requests # << >>
  /\ IF open
       THEN /\ OpenDeferred(Head(requests))
            /\ requests' = Tail(requests)
            /\ UNCHANGED <<task, loop, asked>>
       ELSE /\ task' = Dropped(task, ToSet(requests))
            /\ asked' = Kept(Tasks \ ToSet(requests))
            /\ requests' = << >> /\ loop' = FALSE
            /\ UNCHANGED <<pending, prompt, claim>>
  /\ UNCHANGED <<job, left, sticky, open, form, planned, focus, previous, formPrevious,
                 restore, later, crossed>>

(* Deviation of Render: the focus given back is applied after the claim.   *)
RenderRestoresLast ==
  /\ open /\ (claim \/ restore # Unset)
  /\ claim' = FALSE /\ restore' = Unset
  /\ previous' = IF claim /\ previous = Unset THEN focus ELSE previous
  /\ focus' = IF restore # Unset THEN restore ELSE "dialog"
  /\ later' = IF claim /\ form # "closed" THEN "dialog" ELSE later
  /\ UNCHANGED <<threads, channel, open, pending, prompt, form, planned, formPrevious, crossed>>

(* The start of render, where there is a window again.                     *)
Render ==
  /\ open /\ (claim \/ restore # Unset)
  /\ claim' = FALSE /\ restore' = Unset
  /\ LET given == IF restore # Unset THEN restore ELSE focus
     IN /\ previous' = IF claim /\ previous = Unset THEN given ELSE previous
        /\ focus' = IF claim THEN "dialog" ELSE given
  /\ later' = IF claim /\ form # "closed" THEN "dialog" ELSE later
  /\ UNCHANGED <<threads, channel, open, pending, prompt, form, planned, formPrevious, crossed>>

(* Keys and clicks find a window that has been drawn.                      *)
Drawn == open /\ ~claim /\ restore = Unset

InDialog == focus \in Handles("dialog")

(* Deviation of CloseDialog: the conflicts that wait are forgotten.        *)
CloseAndForget ==
  /\ shown' = Nobody /\ hashing' = {} /\ renaming' = FALSE
  /\ focus' = IF previous # Unset THEN previous ELSE Gone(focus, "dialog")
  /\ previous' = Unset
  /\ later' = "none"
  /\ UNCHANGED pending

(* close_conflict_dialog: the next conflict, or the focus back.            *)
CloseDialog ==
  IF pending # << >>
    THEN /\ Spawned(Head(pending))
         /\ pending' = Tail(pending)
         /\ focus' = "dialog"
         /\ later' = IF form = "closed" THEN "none" ELSE "dialog"
         /\ UNCHANGED previous
    ELSE /\ shown' = Nobody /\ hashing' = {} /\ renaming' = FALSE
         /\ focus' = IF previous # Unset THEN previous ELSE Gone(focus, "dialog")
         /\ previous' = Unset /\ later' = "none"
         /\ UNCHANGED pending

(* answer_with: the thread gets its answer and the dialog closes.  A click *)
(* answers too, wherever the focus is; a new name counts as one more       *)
(* answer for this conflict only.                                          *)
Answer(a) ==
  /\ Drawn /\ shown # Nobody
  /\ task' = [task EXCEPT ![shown] = a]
  /\ asked' = Kept(Tasks \ {shown})
  /\ CloseDialog
  /\ crossed' = (crossed \/ (form # "closed" /\ later = "form"))
  /\ formPrevious' = Gone(formPrevious, "dialog")
  /\ UNCHANGED <<job, left, sticky, channel, open, form, planned, claim, restore>>

StartRename ==
  /\ Drawn /\ shown # Nobody
  /\ renaming' = TRUE
  /\ focus' = "field"
  /\ crossed' = (crossed \/ (form # "closed" /\ later = "form"))
  /\ UNCHANGED <<threads, channel, open, pending, shown, hashing, form, planned,
                 previous, formPrevious, claim, restore, later>>

CycleFocus ==
  /\ Drawn /\ InDialog /\ renaming
  /\ focus' = IF focus = "dialog" THEN "field" ELSE "dialog"
  /\ UNCHANGED <<threads, channel, open, pending, prompt, form, planned, previous,
                 formPrevious, claim, restore, later, crossed>>

StartHash(side) ==
  /\ Drawn /\ shown # Nobody /\ side \notin hashing
  /\ hashing' = hashing \cup {side}
  /\ UNCHANGED <<threads, channel, open, pending, shown, renaming, form, planned, keyboard>>

(* Deviation of HashDone: the task goes without letting go of the dialog.  *)
HashDoneHolding(side) ==
  /\ side \in hashing
  /\ hashing' = hashing \ {side}
  /\ UNCHANGED <<threads, channel, open, pending, shown, renaming, form, planned, keyboard>>

(* The task that waits for a hash holds the dialog: when the workspace has *)
(* gone, the last of them lets the sender go.                              *)
HashDone(side) ==
  /\ side \in hashing
  /\ hashing' = hashing \ {side}
  /\ IF open \/ hashing' # {}
       THEN UNCHANGED <<task, asked, shown>>
       ELSE /\ task' = Dropped(task, {shown})
            /\ asked' = Kept(Tasks \ {shown})
            /\ shown' = Nobody
  /\ UNCHANGED <<job, left, sticky, channel, open, pending, renaming, form, planned, keyboard>>

-----------------------------------------------------------------------------
(* The copy dialog.  F5 is bound to the workspace, so it works from within *)
(* the conflict dialog too.                                                *)

OpenForm ==
  /\ Drawn /\ form = "closed" /\ focus # "nowhere"
  /\ form' = "editing"
  /\ formPrevious' = focus
  /\ focus' = "form"
  /\ later' = IF shown = Nobody THEN "none" ELSE "form"
  /\ UNCHANGED <<threads, channel, open, pending, prompt, planned, previous, claim, restore, crossed>>

FormCloses ==
  /\ form' = "closed" /\ later' = "none"
  /\ formPrevious' = Unset
  /\ previous' = Gone(previous, "form")
  /\ crossed' = (crossed \/ restore # Unset \/ (shown # Nobody /\ ~claim /\ later = "dialog"))

(* close_copy_move_dialog: Escape, or a press of the mouse outside of it,  *)
(* over a conflict dialog as well.                                         *)
CloseForm ==
  /\ Drawn /\ form # "closed"
  /\ FormCloses
  /\ focus' = IF formPrevious # Unset THEN formPrevious ELSE Gone(focus, "form")
  /\ UNCHANGED <<threads, channel, open, pending, prompt, planned, claim, restore>>

Confirm(j) ==
  /\ Drawn /\ form = "editing" /\ focus = "form" /\ job[j] = "none"
  /\ form' = j
  /\ job' = [job EXCEPT ![j] = "planning"]
  /\ UNCHANGED <<left, sticky, task, asked, channel, open, pending, prompt, planned, keyboard>>

(* The task that plans enqueues the job, which runs from here on; a        *)
(* workspace that has gone is not told.                                    *)
PlanDone(j) ==
  /\ job[j] = "planning"
  /\ job' = [job EXCEPT ![j] = "running"]
  /\ planned' = IF open THEN planned \cup {j} ELSE planned
  /\ UNCHANGED <<left, sticky, task, asked, channel, open, pending, prompt, form, keyboard>>

(* The UI hears of it, and the dialog closes: whichever one is there by    *)
(* now, even none (close_copy_move_dialog_deferred).                       *)
PlanHeard(j) ==
  /\ open /\ j \in planned
  /\ planned' = planned \ {j}
  /\ FormCloses
  /\ restore' = formPrevious
  /\ focus' = Gone(focus, "form")
  /\ UNCHANGED <<threads, channel, open, pending, prompt, claim>>

PlanFails(j) ==
  /\ job[j] = "planning"
  /\ job' = [job EXCEPT ![j] = "none"]
  /\ form' = IF form = j THEN "editing" ELSE form
  /\ UNCHANGED <<left, sticky, task, asked, channel, open, pending, prompt, planned, keyboard>>

(* A click on a panel, when nothing covers it.                             *)
ClickPanel ==
  /\ Drawn /\ shown = Nobody /\ form = "closed" /\ focus # "panel"
  /\ focus' = "panel" /\ crossed' = FALSE
  /\ UNCHANGED <<threads, channel, open, pending, prompt, form, planned, previous,
                 formPrevious, claim, restore, later>>

(* The workspace is dropped, and the requests it held with it; the loop    *)
(* over the channel sleeps on, and the keyboard is nobody's.               *)
Quit ==
  /\ open
  /\ open' = FALSE
  /\ LET held == ToSet(pending) \cup (IF hashing = {} THEN {shown} ELSE {})
     IN /\ task' = Dropped(task, held)
        /\ asked' = Kept(Tasks \ held)
        /\ shown' = IF hashing = {} THEN Nobody ELSE shown
  /\ pending' = << >> /\ form' = "closed" /\ planned' = {} /\ renaming' = FALSE
  /\ focus' = "nowhere" /\ previous' = Unset /\ formPrevious' = Unset
  /\ claim' = FALSE /\ restore' = Unset /\ later' = "none" /\ crossed' = FALSE
  /\ UNCHANGED <<job, left, sticky, channel, hashing>>

-----------------------------------------------------------------------------
Thread(t) == BeginStep(t) \/ ResolveConflict(t) \/ Resume(t)
UserAnswers == \E a \in Answers : Answer(a)

Next ==
  \/ \E t \in Tasks : Thread(t)
  \/ Consume \/ Render \/ UserAnswers \/ StartRename \/ CycleFocus
  \/ \E side \in Sides : StartHash(side) \/ HashDone(side)
  \/ OpenForm \/ CloseForm \/ ClickPanel \/ Quit
  \/ \E j \in Jobs : Cancel(j) \/ Confirm(j) \/ PlanDone(j) \/ PlanHeard(j) \/ PlanFails(j)

(* The two loops and the hashing go on; and a user who has a conflict      *)
(* dialog in front answers it in the end, for there is nothing else to do  *)
(* with it.                                                                *)
Fairness ==
  /\ WF_vars(Consume) /\ WF_vars(Render) /\ WF_vars(UserAnswers)
  /\ \A side \in Sides : WF_vars(HashDone(side))

Spec == Init /\ [][Next]_vars /\ Fairness

-----------------------------------------------------------------------------
(* Every variable is of its type. *)
TypeOK ==
  /\ job \in [Jobs -> {"none", "planning", "running", "cancelled"}]
  /\ task \in [Tasks -> {"idle", "working", "blocked"} \cup Answers]
  /\ shown \in Tasks \cup {Nobody} /\ hashing \subseteq Sides
  /\ requests \in Seq(Tasks) /\ pending \in Seq(Tasks) /\ planned \subseteq Jobs

(* Every thread that waits for the user is in exactly one place, the       *)
(* dialog, its queue or the channel, and the user meets them in the order  *)
(* they asked, whatever is answered, closed and opened meanwhile.          *)
InTurn ==
  /\ ToSet(asked) = {t \in Tasks : task[t] = "blocked"}
  /\ open => asked = (IF shown = Nobody THEN << >> ELSE <<shown>>) \o pending \o requests

(* Once an answer for all remaining has come, what the job still asks is   *)
(* what its other threads had asked before (conflict_dialog.rs:163).       *)
Survivable ==
  \A j \in Jobs : sticky[j] # Unset => \E i \in 1..Width[j] : task[<<j, i>>] # "blocked"

(* No thread waits for ever: the user answers, or the workspace goes and   *)
(* the thread skips.                                                       *)
PromptEnds == \A t \in Tasks : task[t] = "blocked" ~> task[t] # "blocked"

(* The keyboard is with the dialog opened last, or else with the panels,   *)
(* for as long as no dialog was closed before the one opened over it and   *)
(* no two plans ended within a frame: through conflicts that come while a  *)
(* copy is being set up, planned or closed, before or after the next frame. *)
InFront ==
  IF shown # Nobody /\ form # "closed" THEN later
  ELSE IF shown # Nobody THEN "dialog" ELSE IF form # "closed" THEN "form" ELSE "panel"

KeysReachFront == Drawn /\ ~crossed => focus \in Handles(InFront)

===============================================================================
