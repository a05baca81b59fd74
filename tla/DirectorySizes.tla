---------------------------- MODULE DirectorySizes ----------------------------
(***************************************************************************)
(* The recursive sizes of directories and what keeps them true             *)
(* (crates/duet-index/src): size_service.rs walks a tree and caches its    *)
(* size, watch.rs coalesces what the kernel tells of changes, poll.rs      *)
(* compares snapshots where the kernel tells nothing, and the updates of   *)
(* either take sizes out of the cache.                                     *)
(*                                                                         *)
(* A directory's own files are one number of bytes.  A changed path below  *)
(* a directory is written as that directory: no cached path lies between.  *)
(***************************************************************************)
EXTENDS Naturals, Sequences, FiniteSets, SequencesExt

CONSTANTS
  Dirs,          \* the paths a directory may be at, as sequences of names
  FirstDirs,     \* those it is at when the program starts
  Sources,       \* which kinds of update source: "watch", "poll"
  Walkers,       \* the calls of compute
  QueueCap,      \* the length of the kernel's event queue
  MaxChanges,    \* bound on the changes other programs make
  MaxFaults      \* bound on cancels, invalidations and errors

Under(q, p) == IsStrictPrefix(p, q)
AtOrUnder(q, p) == IsPrefix(p, q)
Children(p) == {q \in Dirs : Under(q, p) /\ Len(q) = Len(p) + 1}
Root == CHOOSE p \in Dirs : \A q \in Dirs : AtOrUnder(q, p)

(* Where r is once q is called p.                                          *)
Moved(r, q, p) == p \o SubSeq(r, Len(q) + 1, Len(r))

(* The paths are a tree: one root, every path between two of them, and     *)
(* below the names in a directory the same names.                          *)
ASSUME TreeAssumption ==
  /\ IsFiniteSet(Dirs) /\ Dirs \subseteq Seq(STRING) \ {<< >>}
  /\ \E p \in Dirs : \A q \in Dirs : AtOrUnder(q, p)
  /\ \A p, q \in Dirs : Under(q, p) => \A n \in Len(p)..Len(q) : SubSeq(q, 1, n) \in Dirs
  /\ \A p, q, r \in Dirs :
       q \in Children(Front(p)) /\ AtOrUnder(r, q) => Moved(r, q, p) \in Dirs

ASSUME SizesAssumption ==
  /\ FirstDirs \subseteq Dirs
  /\ \A p \in Dirs, q \in FirstDirs : AtOrUnder(q, p) => p \in FirstDirs
  /\ Sources \subseteq {"watch", "poll"}
  /\ QueueCap \in Nat \ {0} /\ {MaxChanges, MaxFaults} \subseteq Nat

VARIABLES
  disk,      \* [path -> the directory there, or Gone]
  source,    \* where the updates come from
  raw,       \* watch: the events not yet read, sets of paths or "rescan"
  batch,     \* watch: what debounce_loop holds
  last,      \* poll: poll_loop's last fingerprint
  updates,   \* the channel of WatchUpdates, sets of paths or "rescan"
  cache,     \* [path -> its CacheEntry, or Nothing]
  walk,      \* [walker -> where its thread stands]
  unseen,    \* history, poll: the paths whose sizes the last fingerprint missed
  budget     \* changes and faults left

vars == <<disk, source, raw, batch, last, updates, cache, walk, unseen, budget>>
feed == <<raw, batch, last, updates, unseen>>

Gone == [ino |-> << >>, mtime |-> 0, version |-> 0, bytes |-> 0]
Nothing == [key |-> << >>, size |-> 0, excused |-> FALSE]
Idle == [at |-> "idle", path |-> << >>, stack |-> << >>, total |-> 0, key |-> << >>,
         cancelled |-> FALSE, excused |-> FALSE]
NoBatch == [held |-> FALSE, changed |-> {}, rescan |-> FALSE]

Rescan == {"rescan"}
NoFingerprint == << >>

Init ==
  /\ disk = [p \in Dirs |-> IF p \in FirstDirs
                            THEN [ino |-> p, mtime |-> 0, version |-> 0, bytes |-> 1]
                            ELSE Gone]
  /\ source \in Sources
  /\ raw = << >> /\ batch = NoBatch /\ last = NoFingerprint /\ updates = << >>
  /\ cache = [p \in Dirs |-> Nothing]
  /\ walk = [w \in Walkers |-> Idle]
  /\ unseen = {}
  /\ budget = [changes |-> MaxChanges, faults |-> MaxFaults]

Present(p) == disk[p] # Gone
(* DirSizeKey, of the directory at a path; the device is one.              *)
KeyOf(p) == <<disk[p].ino, disk[p].mtime>>

(* LocalDirPoller's snapshot of the root: its files, and the names and     *)
(* times of its directories.                                               *)
Fingerprint(d) ==
  <<d[Root].version, {<<p, d[p].mtime>> : p \in {q \in Children(Root) : d[q] # Gone}}>>

Spend(what) == budget' = [budget EXCEPT ![what] = @ - 1]

-----------------------------------------------------------------------------
(* What other programs do.                                                 *)

(* The kernel's queue: full, it takes one notice of that and no more.      *)
Notified(paths) ==
  IF source # "watch" THEN raw
  ELSE IF Len(raw) < QueueCap THEN Append(raw, paths)
  ELSE IF Last(raw) = Rescan THEN raw ELSE Append(raw, Rescan)

(* History: the walks and the cached sizes of which the code cannot know.  *)
Excuse(unknown) ==
  /\ walk' = [w \in Walkers |-> IF walk[w].path \in unknown
                                THEN [walk[w] EXCEPT !.excused = TRUE] ELSE walk[w]]
  /\ cache' = [p \in Dirs |-> IF p \in unknown /\ cache[p] # Nothing
                              THEN [cache[p] EXCEPT !.excused = TRUE] ELSE cache[p]]

(* The poller compares the root's entries, once it has seen them, and does *)
(* not notice what is as it was when it looks again.                       *)
Unpolled(after) == last = NoFingerprint \/ Fingerprint(after) = last

(* The sizes of "above", of the paths changed and of those they are in,    *)
(* and of "below", of which no event tells.                                *)
Changes(after, paths, below) ==
  LET above == {p \in Dirs : \E q \in paths : AtOrUnder(q, p)}
      missed == unseen \cup above \cup below
  IN /\ budget.changes > 0
     /\ disk' = after
     /\ raw' = Notified(paths)
     /\ Excuse(IF source # "poll" THEN below ELSE IF Unpolled(after) THEN missed ELSE {})
     /\ unseen' = IF source # "poll" \/ Unpolled(after) THEN {} ELSE missed
     /\ Spend("changes")
     /\ UNCHANGED <<source, batch, last, updates>>

(* A file is written in place, or one comes or goes.                       *)
FileChanges ==
  \E p \in Dirs, stamped \in {0, 1} :
    /\ Present(p)
    /\ Changes([disk EXCEPT ![p].bytes = 1 - @, ![p].version = @ + 1,
                            ![p].mtime = @ + stamped], {p}, {})

(* A directory is renamed, with all that is in it.  No update tells of the *)
(* paths below the two names.                                              *)
DirRenamed ==
  \E p, q \in Dirs :
    /\ Present(p) /\ ~Present(q) /\ q \in Children(Front(p)) /\ Present(Front(p))
    /\ Changes([r \in Dirs |->
                  IF AtOrUnder(r, q) THEN disk[Moved(r, q, p)]
                  ELSE IF AtOrUnder(r, p) THEN Gone
                  ELSE IF r = Front(p) THEN [disk[r] EXCEPT !.mtime = @ + 1]
                  ELSE disk[r]],
               {p, q}, {r \in Dirs : Under(r, p) \/ Under(r, q)})

-----------------------------------------------------------------------------
(* debounce_loop                                                           *)

(* Deviation of Ingested: an overflow leaves the paths of the batch.        *)
IngestedPathsOnly(b, event) ==
  [b EXCEPT !.held = TRUE, !.changed = IF event = Rescan THEN @ ELSE @ \cup event]

Ingested(b, event) ==
  IF event = Rescan THEN [b EXCEPT !.held = TRUE, !.rescan = TRUE]
  ELSE [b EXCEPT !.held = TRUE, !.changed = @ \cup event]

(* The first event of a batch, or one more of it.                          *)
BatchTakes ==
  /\ raw # << >>
  /\ batch' = Ingested(batch, Head(raw))
  /\ raw' = Tail(raw)
  /\ UNCHANGED <<disk, source, last, updates, cache, walk, unseen, budget>>

(* After a quiet DEBOUNCE, or after MAX_BATCH_HOLD whatever still comes.   *)
BatchEnds ==
  /\ batch.held
  /\ updates' = Append(updates, IF batch.rescan THEN Rescan ELSE batch.changed)
  /\ batch' = NoBatch
  /\ UNCHANGED <<disk, source, raw, last, cache, walk, unseen, budget>>

-----------------------------------------------------------------------------
(* poll_loop                                                               *)

Polls ==
  /\ source = "poll"
  /\ last # Fingerprint(disk)
  /\ last' = Fingerprint(disk)
  /\ updates' = IF last # NoFingerprint THEN Append(updates, Rescan) ELSE updates
  /\ unseen' = {}
  /\ UNCHANGED <<disk, source, raw, batch, cache, walk, budget>>

(* Deviation of PollFails: a failed snapshot only forgets the last one.     *)
PollForgets ==
  /\ source = "poll" /\ budget.faults > 0
  /\ last' = NoFingerprint
  /\ Spend("faults")
  /\ UNCHANGED <<disk, source, raw, batch, updates, cache, walk, unseen>>

PollFails ==
  /\ source = "poll" /\ budget.faults > 0
  /\ updates' = Append(updates, Rescan)
  /\ Spend("faults")
  /\ UNCHANGED <<disk, source, raw, batch, last, cache, walk, unseen>>

-----------------------------------------------------------------------------
(* DirSizeService                                                          *)

Covered(update, p) == update = Rescan \/ \E q \in update : AtOrUnder(q, p)

(* Of a walk that runs there is nothing to remove yet.                     *)
HandleWatchUpdate ==
  /\ updates # << >>
  /\ LET update == Head(updates)
     IN /\ cache' = [p \in Dirs |-> IF Covered(update, p) THEN Nothing ELSE cache[p]]
        /\ walk' = [w \in Walkers |->
                      IF walk[w].at # "idle" /\ Covered(update, walk[w].path)
                      THEN [walk[w] EXCEPT !.excused = TRUE] ELSE walk[w]]
  /\ updates' = Tail(updates)
  /\ UNCHANGED <<disk, source, raw, batch, last, unseen, budget>>

Invalidate ==
  /\ budget.faults > 0
  /\ \E p \in Dirs :
       /\ cache[p] # Nothing
       /\ cache' = [cache EXCEPT ![p] = Nothing]
  /\ Spend("faults")
  /\ UNCHANGED <<disk, source, feed, walk>>

Step(w, to) == walk' = [walk EXCEPT ![w] = to]

Compute(w) ==
  /\ walk[w].at = "idle"
  /\ \E p \in Dirs :
       /\ Present(p)
       /\ Step(w, [Idle EXCEPT !.at = "walking", !.path = p, !.stack = <<p>>])
  /\ UNCHANGED <<disk, source, feed, cache, budget>>

(* SizeHandle::cancel                                                      *)
Cancel(w) ==
  /\ walk[w].at # "idle" /\ ~walk[w].cancelled /\ budget.faults > 0
  /\ Step(w, [walk[w] EXCEPT !.cancelled = TRUE])
  /\ Spend("faults")
  /\ UNCHANGED <<disk, source, feed, cache>>

(* One directory is popped and its entries gone through.                   *)
WalkVisits(w) ==
  /\ walk[w].at = "walking" /\ walk[w].stack # << >>
  /\ LET dir == Last(walk[w].stack)
         below == SetToSeq({q \in Children(dir) : Present(q)})
     IN /\ Present(dir)
        /\ Step(w, [walk[w] EXCEPT !.stack = Front(@) \o below,
                                   !.total = @ + disk[dir].bytes])
  /\ UNCHANGED <<disk, source, feed, cache, budget>>

(* Cancelled at an entry, which there may be none of any more; or a        *)
(* directory cannot be read.                                               *)
WalkStops(w) ==
  /\ walk[w].at = "walking" /\ walk[w].stack # << >>
  /\ walk[w].cancelled \/ ~Present(Last(walk[w].stack))
  /\ Step(w, Idle)
  /\ UNCHANGED <<disk, source, feed, cache, budget>>

(* The key is read after the walk.                                         *)
WalkEnds(w) ==
  /\ walk[w].at = "walking" /\ walk[w].stack = << >>
  /\ Step(w, IF Present(walk[w].path)
             THEN [walk[w] EXCEPT !.at = "keyed", !.key = KeyOf(walk[w].path)]
             ELSE Idle)
  /\ UNCHANGED <<disk, source, feed, cache, budget>>

Inserts(w) ==
  /\ walk[w].at = "keyed"
  /\ cache' = [cache EXCEPT ![walk[w].path] =
                 [key |-> walk[w].key, size |-> walk[w].total,
                  excused |-> walk[w].excused]]
  /\ Step(w, Idle)
  /\ UNCHANGED <<disk, source, feed, budget>>

(* What cached_size would answer with.                                     *)
Served(p) == cache[p] # Nothing /\ Present(p) /\ cache[p].key = KeyOf(p)

-----------------------------------------------------------------------------
Thread(w) == WalkVisits(w) \/ WalkStops(w) \/ WalkEnds(w) \/ Inserts(w)

Next ==
  \/ FileChanges \/ DirRenamed
  \/ BatchTakes \/ BatchEnds \/ Polls \/ PollFails
  \/ HandleWatchUpdate \/ Invalidate
  \/ \E w \in Walkers : Compute(w) \/ Cancel(w) \/ Thread(w)

Spec == Init /\ [][Next]_vars

(* The threads run, and whoever owns the channel reads it.                 *)
FairSpec ==
  /\ Spec
  /\ WF_vars(BatchTakes) /\ WF_vars(BatchEnds) /\ WF_vars(Polls)
  /\ WF_vars(HandleWatchUpdate)
  /\ \A w \in Walkers : WF_vars(Thread(w))

-----------------------------------------------------------------------------
(* Every variable is of its type. *)
Entry ==
  [ino : Dirs \cup {<< >>}, mtime : Nat, version : Nat, bytes : {0, 1}]

Told == (SUBSET Dirs) \cup {Rescan}

WalkState ==
  [at : {"idle", "walking", "keyed"}, path : Dirs \cup {<< >>}, stack : Seq(Dirs),
   total : Nat, key : {<< >>} \cup ((Dirs \cup {<< >>}) \X Nat),
   cancelled : BOOLEAN, excused : BOOLEAN]

TypeOK ==
  /\ disk \in [Dirs -> Entry]
  /\ source \in Sources
  /\ raw \in Seq(Told)
  /\ batch \in [held : BOOLEAN, changed : SUBSET Dirs, rescan : BOOLEAN]
  /\ source # "poll" => last = NoFingerprint
  /\ updates \in Seq(Told)
  /\ cache \in [Dirs -> [key : {<< >>} \cup ((Dirs \cup {<< >>}) \X Nat), size : Nat,
                        excused : BOOLEAN]]
  /\ walk \in [Walkers -> WalkState]
  /\ unseen \subseteq Dirs
  /\ budget \in [changes : 0..MaxChanges, faults : 0..MaxFaults]

SizeOf(p) == Cardinality({q \in Dirs : AtOrUnder(q, p) /\ disk[q].bytes = 1})

Drained ==
  /\ raw = << >> /\ ~batch.held /\ updates = << >>
  /\ source = "poll" => last # NoFingerprint /\ last = Fingerprint(disk)

(* size_service.rs:6, "invalidated by watch events": a wrong size that is  *)
(* still served once every update has been handled is one of which no      *)
(* update could tell: a change came and was handled while its walk ran, a  *)
(* directory above it has been renamed and back, or the poller does not    *)
(* look at what changed.                                                   *)
WrongIsUnknown ==
  Drained => \A p \in Dirs :
    Served(p) /\ ~cache[p].excused => cache[p].size = SizeOf(p)

(* A wrong size does not stay, whatever of the events overflowed, failed or *)
(* was held back.                                                          *)
WrongIsDropped ==
  LET Wrong(p) == Served(p) /\ ~cache[p].excused /\ cache[p].size # SizeOf(p)
  IN (\E p \in Dirs : Wrong(p)) ~> (\A p \in Dirs : ~Wrong(p))

===============================================================================
