-------------------------------- MODULE Viewer --------------------------------
(***************************************************************************)
(* The viewer and its worker threads (crates/duet-ui/src/viewer: mod.rs,   *)
(* worker.rs).  The view belongs to the UI thread; every file opened gets  *)
(* a worker of its own, with a channel of requests to it and one of        *)
(* replies from it, and a worker that is let go may still have replies on  *)
(* their way.                                                              *)
(*                                                                         *)
(* What a page shows is abstracted to which request asked for it, the hit  *)
(* it marks and whether its line numbers are final: made with all lines    *)
(* counted, so that it tells their total, or of a file whose lines are not *)
(* counted at all.  Mode Binary is Hex.                                    *)
(***************************************************************************)
EXTENDS Naturals, Sequences, FiniteSets, SequencesExt, Picked

CONSTANTS
  Files,       \* [file -> the mode that fits it: "Text", "Hex" or "Image"]
  Flavours,    \* whether it may be the quick view, embedded in a panel
  Chunks,      \* how many windows a search reads
  MaxOpens,    \* bound on the files opened
  MaxActs,     \* bound on what the user does
  OpenCost,    \* how much of that an opening counts for
  MaxFaults    \* bound on the errors of reading and of starting a thread

Modes == {"Text", "Hex", "Image"}
None == "none"

ASSUME ViewerAssumption ==
  /\ None \notin DOMAIN Files
  /\ \A f \in DOMAIN Files : Files[f] \in Modes
  /\ Flavours \subseteq BOOLEAN
  /\ {Chunks, MaxOpens, MaxActs, OpenCost, MaxFaults} \subseteq Nat /\ Chunks > 0

VARIABLES
  embedded,  \* whether this is the quick view
  view,      \* ViewerState
  current,   \* the worker the view holds, 0 for none
  opened,    \* the number of workers so far
  workers,   \* [number -> its thread and its channels]
  misled,    \* history: this file's view was told of another, or chose too soon
  budget     \* acts and faults left

vars == <<embedded, view, current, opened, workers, misled, budget>>

NoPage == [by |-> 0, id |-> 0, hit |-> 0, final |-> FALSE]

Blank(mode) ==
  [mode |-> mode, forced |-> FALSE, detected |-> None, text |-> NoPage, hex |-> NoPage,
   image |-> NoPage, highlight |-> 0, searching |-> FALSE, bar |-> FALSE]

(* Deviation of Reset: the next file is shown in the mode of this one.      *)
ResetButMode(v) ==
  [Blank(v.mode) EXCEPT !.forced = v.forced, !.bar = embedded /\ v.bar]

Reset(v) ==
  [Blank(IF v.forced THEN v.mode ELSE None) EXCEPT !.forced = v.forced, !.bar = embedded /\ v.bar]

(* sent counts the requests, asked is the last of them for a page; failed  *)
(* is the last that was answered with an error; index is None where there  *)
(* is none, and "partial" for good when its thread ended before its time.  *)
Fresh(file) ==
  [file |-> file, at |-> "opening", stop |-> FALSE, cancel |-> FALSE,
   requests |-> << >>, replies |-> << >>, todo |-> << >>, chunks |-> 0,
   index |-> None, sent |-> 0, asked |-> 0, failed |-> 0]

Unused == [Fresh(None) EXCEPT !.at = "ended"]

Init ==
  /\ embedded \in Flavours
  /\ view = Blank(None)
  /\ current = 0 /\ opened = 0
  /\ workers = [g \in 1..MaxOpens |-> Unused]
  /\ misled = FALSE
  /\ budget = [acts |-> MaxActs, faults |-> MaxFaults]

Pages == {"Text", "Hex"}

-----------------------------------------------------------------------------
(* Requests.                                                               *)

(* To a worker whose thread has ended nothing is sent.                     *)
Send(v, kind) ==
  IF current = 0 \/ workers[current].at = "ended" THEN workers
  ELSE LET id == workers[current].sent + 1
       IN [workers EXCEPT
             ![current].requests = Append(@, [kind |-> kind, id |-> id, hit |-> v.highlight]),
             ![current].sent = id,
             ![current].asked = IF kind \in Pages THEN id ELSE @]

(* request_current, and show_offset but for images.                        *)
RequestCurrent(v) ==
  IF v.mode \in Pages \/ (v.mode = "Image" /\ v.image = NoPage)
  THEN Send(v, v.mode) ELSE workers

RequestPage(v) == IF v.mode \in Pages THEN Send(v, v.mode) ELSE workers

AutoMode(v) == IF v.detected = None THEN "Text" ELSE Files[v.detected]

Act == budget.acts > 0 /\ budget' = [budget EXCEPT !.acts = @ - 1]

(* Scrolling, going to a line, wrapping, another encoding or width.        *)
Navigate ==
  /\ Act
  /\ view.mode \in Pages
  /\ workers' = RequestPage(view)
  /\ UNCHANGED <<embedded, view, current, opened, misled>>

(* record_viewport                                                         *)
Resize ==
  /\ Act
  /\ view.mode # None
  /\ workers' = RequestCurrent(view)
  /\ UNCHANGED <<embedded, view, current, opened, misled>>

SetMode ==
  /\ Act
  /\ \E mode \in Modes :
       LET v == [view EXCEPT !.mode = mode, !.forced = TRUE]
       IN /\ view' = v
          /\ workers' = IF view.mode = mode THEN workers ELSE RequestCurrent(v)
  /\ UNCHANGED <<embedded, current, opened, misled>>

(* Before the file's head is known, this takes it for text.                *)
SetModeAuto ==
  /\ Act
  /\ LET v == [view EXCEPT !.mode = AutoMode(view), !.forced = FALSE]
     IN /\ view' = v
        /\ workers' = IF view.mode = v.mode THEN workers ELSE RequestCurrent(v)
  /\ misled' = (misled \/ view.detected = None)
  /\ UNCHANGED <<embedded, current, opened>>

(* From the bar, or with the last query once more.                         *)
Find ==
  /\ Act
  /\ current # 0
  /\ view' = [view EXCEPT !.searching = TRUE]
  /\ workers' = Send(view, "Search")
  /\ UNCHANGED <<embedded, current, opened, misled>>

OpenBar ==
  /\ ~view.bar
  /\ view' = [view EXCEPT !.bar = TRUE]
  /\ Act
  /\ UNCHANGED <<embedded, current, opened, workers, misled>>

BarClosed == [view EXCEPT !.bar = FALSE, !.searching = FALSE]
Cancelled(ws) == IF current = 0 THEN ws ELSE [ws EXCEPT ![current].cancel = TRUE]

(* Esc, or Enter in the goto bar, which asks for a page first.             *)
CloseBar ==
  /\ view.bar
  /\ view' = BarClosed
  /\ workers' = Cancelled(workers) \/ workers' = Cancelled(RequestPage(view))
  /\ UNCHANGED <<embedded, current, opened, misled, budget>>

(* What it was still asked for it will not look at.                        *)
LetGo(ws) ==
  IF current = 0 THEN ws
  ELSE [ws EXCEPT ![current] =
          [@ EXCEPT !.stop = TRUE, !.cancel = TRUE, !.requests = << >>,
                    !.sent = 0, !.asked = 0, !.failed = 0]]

(* Another file of the panel, or what is under its cursor now.             *)
OpenCurrent ==
  /\ opened < MaxOpens /\ budget.acts >= OpenCost
  /\ budget' = [budget EXCEPT !.acts = @ - OpenCost]
  /\ \E f \in DOMAIN Files :
       /\ opened' = opened + 1
       /\ current' = opened + 1
       /\ workers' = [LetGo(workers) EXCEPT ![opened + 1] = Fresh(f)]
  /\ view' = Reset(view)
  /\ misled' = FALSE
  /\ UNCHANGED embedded

ClearFile ==
  /\ embedded /\ current # 0
  /\ view' = Reset(view)
  /\ current' = 0
  /\ workers' = LetGo(workers)
  /\ UNCHANGED <<embedded, opened, misled, budget>>

-----------------------------------------------------------------------------
(* The worker's thread.                                                    *)

Becomes(g, w) ==
  /\ workers' = [workers EXCEPT ![g] = w]
  /\ UNCHANGED <<embedded, view, current, opened, misled>>

Reply(kind, page) == [kind |-> kind, page |-> page]
Replied(w, kind) == [w EXCEPT !.replies = Append(@, Reply(kind, NoPage))]

Fault == budget.faults > 0 /\ budget' = [budget EXCEPT !.faults = @ - 1]

Opens(g) ==
  LET w == workers[g]
  IN /\ w.at = "opening"
     /\ Becomes(g, [Replied(w, "Opened") EXCEPT
                      !.at = "idle",
                      !.index = IF ~embedded /\ Files[w.file] = "Text" THEN "building" ELSE @])
     /\ UNCHANGED budget

OpenFails(g) ==
  /\ workers[g].at = "opening"
  /\ Becomes(g, [Replied(workers[g], "Error") EXCEPT !.at = "ended", !.requests = << >>])
  /\ Fault

(* The thread could not be started: the log is told, the view is not.      *)
NeverStarts(g) ==
  /\ workers[g].at = "opening"
  /\ Becomes(g, [workers[g] EXCEPT !.at = "ended", !.requests = << >>])
  /\ Fault

(* The index thread, which a stop ends without a word, at the latest when  *)
(* it has all the lines.                                                   *)
IndexEnds(g) ==
  LET w == workers[g]
  IN /\ w.index = "building"
     /\ \/ /\ ~w.stop
           /\ Becomes(g, [Replied(w, "IndexComplete") EXCEPT !.index = "complete"])
        \/ /\ w.stop
           /\ \E index \in {"partial", "complete"} : Becomes(g, [w EXCEPT !.index = index])
     /\ UNCHANGED budget

(* It could not be started, open the file or read on: as far as it came it *)
(* stays, and nobody is told.  (Of an empty file there is nothing to read.) *)
IndexFails(g) ==
  /\ workers[g].index = "building"
  /\ Becomes(g, [workers[g] EXCEPT !.index = "partial"])
  /\ Fault

IsPage(request) == request.kind \in Pages
Kept(requests, pages) ==
  Picked(requests, {i \in 1..Len(requests) : IsPage(requests[i]) = pages})

(* Deviation of Coalesced: the first page asked for is kept.                *)
CoalescedFirst(requests) ==
  LET pages == Kept(requests, TRUE)
  IN Kept(requests, FALSE) \o (IF pages = << >> THEN << >> ELSE <<Head(pages)>>)

(* The newest page wins, and comes last.                                   *)
Coalesced(requests) ==
  LET pages == Kept(requests, TRUE)
  IN Kept(requests, FALSE) \o (IF pages = << >> THEN << >> ELSE <<Last(pages)>>)

Receives(g) ==
  LET w == workers[g]
  IN /\ w.at = "idle" /\ w.requests # << >> /\ ~w.stop
     /\ Becomes(g, [w EXCEPT !.at = "serving", !.requests = << >>,
                             !.todo = Coalesced(w.requests)])
     /\ UNCHANGED budget

Ended(w) == [w EXCEPT !.at = "ended", !.todo = << >>, !.requests = << >>, !.chunks = 0]

(* Deviation of Stops: the flag is seen, the channel is still open.         *)
StopsServing(g) ==
  /\ workers[g].at = "serving" /\ workers[g].stop
  /\ Becomes(g, Ended(workers[g]))
  /\ UNCHANGED budget

(* The handle is gone: recv fails, or the flag is seen after it.           *)
Stops(g) ==
  /\ workers[g].at \in {"idle", "serving"} /\ workers[g].stop
  /\ Becomes(g, Ended(workers[g]))
  /\ UNCHANGED budget

(* A search clears the flag that cancels it.                               *)
Serves(g) ==
  LET w == workers[g]
  IN /\ w.at = "serving" /\ ~w.stop
     /\ Becomes(g, IF w.todo = << >> THEN [w EXCEPT !.at = "idle"]
                   ELSE IF Head(w.todo).kind = "Search"
                   THEN [w EXCEPT !.at = "searching", !.cancel = FALSE, !.chunks = Chunks]
                   ELSE [w EXCEPT !.at = "handling"])
     /\ UNCHANGED budget

Done(w) == [w EXCEPT !.at = "serving", !.todo = Tail(@), !.chunks = 0]

PageOf(g, request) ==
  [by |-> g, id |-> request.id, hit |-> request.hit,
   final |-> workers[g].index \in {"complete", None}]

Answers(g) ==
  LET w == workers[g]
      request == Head(w.todo)
  IN /\ w.at = "handling"
     /\ Becomes(g, [Done(w) EXCEPT
                      !.replies = Append(@, Reply(request.kind, PageOf(g, request)))])
     /\ UNCHANGED budget

(* The file cannot be read there, or the line is not indexed in time.      *)
AnswerFails(g) ==
  LET w == workers[g]
  IN /\ w.at = "handling"
     /\ Becomes(g, [Replied(Done(w), "Error") EXCEPT
                      !.failed = IF IsPage(Head(w.todo)) /\ ~w.stop
                                 THEN Head(w.todo).id ELSE @])
     /\ Fault

(* Deviation of SearchEnds: a search that was given up says nothing.        *)
SearchEndsSilently(g) ==
  LET w == workers[g]
  IN /\ w.at = "searching"
     /\ \/ /\ w.cancel
           /\ Becomes(g, Done(w))
        \/ /\ ~w.cancel /\ w.chunks = 0
           /\ Becomes(g, Replied(Done(w), "Miss"))
        \/ /\ ~w.cancel /\ w.chunks > 0
           /\ Becomes(g, [Done(w) EXCEPT
                            !.replies = Append(@, Reply("Hit", [NoPage EXCEPT !.hit = Head(w.todo).id]))])
     /\ UNCHANGED budget

SearchEnds(g) ==
  LET w == workers[g]
  IN /\ w.at = "searching"
     /\ \/ /\ w.cancel \/ w.chunks = 0
           /\ Becomes(g, Replied(Done(w), "Miss"))
        \/ /\ ~w.cancel /\ w.chunks > 0
           /\ Becomes(g, [Done(w) EXCEPT
                            !.replies = Append(@, Reply("Hit", [NoPage EXCEPT !.hit = Head(w.todo).id]))])
     /\ UNCHANGED budget

(* A window without a hit, told of when the last word is old enough.       *)
SearchReads(g) ==
  LET w == workers[g]
      next == [w EXCEPT !.chunks = @ - 1]
  IN /\ w.at = "searching" /\ ~w.cancel /\ w.chunks > 0
     /\ Becomes(g, next) \/ Becomes(g, Replied(next, "Progress"))
     /\ UNCHANGED budget

-----------------------------------------------------------------------------
(* on_reply.  The task of every worker goes on until its channel is empty, *)
(* whichever worker the view holds by then.                                *)

Told(g, v, ws) ==
  /\ view' = v
  /\ workers' = [ws EXCEPT ![g].replies = Tail(workers[g].replies)]
  /\ misled' = (misled \/ g # current)
  /\ UNCHANGED <<embedded, current, opened, budget>>

(* Deviation of OnIndexComplete: the page stays as it is.                   *)
OnIndexCompleteOnly(g) ==
  /\ Head(workers[g].replies).kind = "IndexComplete"
  /\ Told(g, view, workers)

OnIndexComplete(g) ==
  /\ Head(workers[g].replies).kind = "IndexComplete"
  /\ Told(g, view, IF view.mode = "Text" THEN RequestPage(view) ELSE workers)

OnOpened(g) ==
  /\ Head(workers[g].replies).kind = "Opened"
  /\ LET known == [view EXCEPT !.detected = workers[g].file]
         v == [known EXCEPT !.mode = IF @ = None THEN AutoMode(known) ELSE @]
     IN Told(g, v, RequestCurrent(v))

OnPage(g) ==
  LET reply == Head(workers[g].replies)
  IN /\ reply.kind \in Modes
     /\ Told(g, CASE reply.kind = "Text" -> [view EXCEPT !.text = reply.page]
                  [] reply.kind = "Hex" -> [view EXCEPT !.hex = reply.page]
                  [] reply.kind = "Image" -> [view EXCEPT !.image = reply.page],
             workers)

OnHit(g) ==
  LET reply == Head(workers[g].replies)
      v == [view EXCEPT !.highlight = reply.page.hit, !.searching = FALSE]
  IN reply.kind = "Hit" /\ Told(g, v, RequestPage(v))

OnSearchWord(g) ==
  LET kind == Head(workers[g].replies).kind
  IN /\ kind \in {"Miss", "Progress", "Error"}
     /\ Told(g, [view EXCEPT !.searching = kind = "Progress"], workers)

OnReply(g) ==
  /\ workers[g].replies # << >>
  /\ OnOpened(g) \/ OnPage(g) \/ OnHit(g) \/ OnSearchWord(g) \/ OnIndexComplete(g)

-----------------------------------------------------------------------------
Thread(g) ==
  \/ Opens(g) \/ OpenFails(g) \/ NeverStarts(g) \/ Receives(g) \/ Stops(g) \/ Serves(g)
  \/ Answers(g) \/ AnswerFails(g) \/ SearchEnds(g) \/ SearchReads(g)

Index(g) == IndexEnds(g) \/ IndexFails(g)

User ==
  \/ Navigate \/ Resize \/ SetMode \/ SetModeAuto \/ Find \/ OpenBar \/ CloseBar
  \/ OpenCurrent \/ ClearFile

Next == User \/ \E g \in 1..MaxOpens : Thread(g) \/ Index(g) \/ OnReply(g)

Spec == Init /\ [][Next]_vars

-----------------------------------------------------------------------------
(* Every variable is of its type. *)
TypeOK ==
  /\ view.mode \in Modes \cup {None}
  /\ view.detected \in DOMAIN Files \cup {None}
  /\ current \in 0..opened /\ opened \in 0..MaxOpens
  /\ \A g \in 1..MaxOpens :
       /\ workers[g].at \in {"opening", "idle", "serving", "handling", "searching", "ended"}
       /\ workers[g].index \in {None, "building", "partial", "complete"}
       /\ g # current <=> workers[g].stop \/ g > opened
       /\ workers[g].at \in {"serving", "handling", "searching"} =>
            \A i \in 1..Len(workers[g].todo) : IsPage(workers[g].todo[i]) => i = Len(workers[g].todo)

(* Nothing is on its way, and the file could be opened.                    *)
Settled ==
  /\ current # 0
  /\ workers[current].at = "idle" /\ workers[current].index # "building"
  /\ \A g \in 1..MaxOpens : workers[g].requests = << >> /\ workers[g].replies = << >>
                            /\ (g # current => workers[g].at = "ended")

Shown == IF view.mode = "Text" THEN view.text ELSE view.hex

(* The page on screen is the last one asked for, in the mode that is on,   *)
(* though requests were merged, answered behind a search or ordered by a   *)
(* hit or the index, and a mode the user has not chosen is the one that    *)
(* fits the file: unless that request failed, or a worker that was let go  *)
(* still had a reply to give.                                              *)
LastAskedShown ==
  Settled /\ ~misled =>
    /\ view.mode \in Pages =>
         /\ workers[current].asked # 0
         /\ \/ Shown.by = current /\ Shown.id = workers[current].asked
            \/ workers[current].failed = workers[current].asked
    /\ ~view.forced => view.mode = Files[workers[current].file]

(* What is on that page is up to date: its hit is the last one found, and  *)
(* its line numbers are final (mod.rs:544) just when the index thread has  *)
(* not failed (worker.rs:238): else no page can be, and none is sent for.  *)
ShownIsComplete ==
  Settled /\ ~misled /\ view.mode \in Pages
    /\ workers[current].failed # workers[current].asked =>
      /\ Shown.hit = view.highlight
      /\ view.mode = "Text" => (Shown.final <=> workers[current].index # "partial")

(* No search is shown to run when none does.                               *)
NoSearchLeft == Settled => ~view.searching

(* When nothing moves but the user, every worker that was let go has ended, *)
(* and the one the view holds has answered all it was asked, or could not  *)
(* open its file.                                                          *)
NeverStuck ==
  (\A g \in 1..MaxOpens : ~ENABLED (Thread(g) \/ Index(g) \/ OnReply(g)))
    => \/ Settled
       \/ /\ current = 0 \/ workers[current].at = "ended"
          /\ \A g \in 1..MaxOpens : g # current => workers[g].at = "ended"

===============================================================================
