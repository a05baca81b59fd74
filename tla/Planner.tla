------------------------------- MODULE Planner --------------------------------
(***************************************************************************)
(* The planners (crates/duet-ops/src: planner.rs plan_copy, mover.rs       *)
(* plan_move) and the plans of what is left (rerun.rs, recovery.rs), as    *)
(* functions: a breadth-first walk of the sources, then the steps it has   *)
(* put off.                                                                *)
(*                                                                         *)
(* A path is the sequence of its names under a root: S for the directory   *)
(* the sources are in, D for the destination.  Steps count from 1, and a   *)
(* dep of 0 is no depends_on.                                              *)
(***************************************************************************)
EXTENDS Naturals, Sequences, FiniteSets, SequencesExt

CONSTANTS
  Tree,       \* [path of a source -> its kind, data, ino and nlink]
  Listing,    \* [path of a directory -> its names, in read_dir's order]
  Tops        \* the sources, in the panel's order

Kinds == {"dir", "file", "symlink"}

ASSUME PlannerAssumption ==
  /\ \A p \in DOMAIN Tree : p \in Seq(STRING) /\ Len(p) > 1 /\ p[1] = "S"
                            /\ Tree[p].kind \in Kinds /\ Tree[p].nlink \in Nat
  /\ DOMAIN Listing = {p \in DOMAIN Tree : Tree[p].kind = "dir"}
  /\ \A p \in DOMAIN Listing : \A n \in Range(Listing[p]) : Append(p, n) \in DOMAIN Tree
  /\ Range(Tops) \subseteq DOMAIN Tree

(* dest_dir.join(name), down the tree.                                     *)
DestOf(path) == <<"D">> \o Tail(path)

Step(kind, src, dst, dep) == [kind |-> kind, src |-> src, dst |-> dst, dep |-> dep]

None == << >>

-----------------------------------------------------------------------------
(* The walk: the steps so far, the directories to descend into, and what   *)
(* is deferred to the end of the plan.                                     *)

Start(steps) ==
  [steps |-> steps, queue |-> << >>, dirs |-> << >>, files |-> << >>,
   links |-> << >>, metas |-> << >>, seen |-> << >>]

Planned(w, path) ==
  LET node == Tree[path]
      dst == DestOf(path)
      here == Len(w.steps) + 1
      first == SelectSeq(w.seen, LAMBDA e : e.ino = node.ino)
  IN IF node.kind = "dir"
     THEN [w EXCEPT !.steps = Append(@, Step("CreateDir", None, dst, 0)),
                    !.metas = Append(@, [dst |-> dst, by |-> here]),
                    !.dirs = Append(@, path),
                    !.queue = Append(@, path)]
     ELSE IF node.kind = "symlink" THEN w
     ELSE IF node.nlink > 1 /\ first # << >>
     THEN [w EXCEPT !.links = Append(@, [src |-> path, of |-> first[1].dst,
                                         dst |-> dst, by |-> first[1].by])]
     ELSE [w EXCEPT !.steps = Append(@, Step("CopyFile", path, dst, 0)),
                    !.files = Append(@, [src |-> path, dst |-> dst, by |-> here]),
                    !.metas = Append(@, [dst |-> dst, by |-> here]),
                    !.seen = IF node.nlink > 1
                             THEN Append(@, [ino |-> node.ino, dst |-> dst, by |-> here])
                             ELSE @]

Descended(w) ==
  IF w.queue = << >> THEN w
  ELSE LET dir == Head(w.queue)
           paths == [i \in 1..Len(Listing[dir]) |-> Append(dir, Listing[dir][i])]
       IN FoldLeft(Planned, [w EXCEPT !.queue = Tail(@)], paths)

Walk(steps, sources) ==
  LET walk[n \in 0..Cardinality(DOMAIN Listing)] ==
        IF n = 0 THEN FoldLeft(Planned, Start(steps), sources)
        ELSE Descended(walk[n - 1])
  IN walk[Cardinality(DOMAIN Listing)]

LinkSteps(w) ==
  [i \in 1..Len(w.links) |-> Step("Link", w.links[i].of, w.links[i].dst, w.links[i].by)]

MetaSteps(w) ==
  [i \in 1..Len(w.metas) |-> Step("SetMeta", None, w.metas[i].dst, w.metas[i].by)]

VerifySteps(files) ==
  [i \in 1..Len(files) |-> Step("Verify", files[i].src, files[i].dst, files[i].by)]

(* Deviation of PlanCopy: the attributes are set before the last links.     *)
PlanCopyEarly(verify) ==
  LET w == Walk(<< >>, Tops)
  IN w.steps \o MetaSteps(w) \o LinkSteps(w)
       \o (IF verify THEN VerifySteps(w.files) ELSE << >>)

PlanCopy(verify) ==
  LET w == Walk(<< >>, Tops)
  IN w.steps \o LinkSteps(w)
       \o (IF verify THEN VerifySteps(w.files) ELSE << >>) \o MetaSteps(w)

-----------------------------------------------------------------------------
(* plan_move; near are the sources on the destination's device.            *)

Renames(near) ==
  LET here == SelectSeq(Tops, LAMBDA p : p \in near /\ Tree[p].kind # "symlink")
  IN [i \in 1..Len(here) |-> Step("Rename", here[i], DestOf(here[i]), 0)]

(* Every file's source goes once what produced its destination, or the     *)
(* verification of that, has ended.                                        *)
Removals(steps, files, verify) ==
  LET Removed(s, f) ==
        IF verify
        THEN s \o <<Step("Verify", f.src, f.dst, f.by),
                    Step("Remove", None, f.src, Len(s) + 1)>>
        ELSE Append(s, Step("Remove", None, f.src, f.by))
  IN FoldLeft(Removed, steps, files)

(* Deviation of DirRemovals: the directories go in the order of discovery.  *)
DirRemovalsForward(dirs) ==
  [i \in 1..Len(dirs) |-> Step("RemoveDir", None, dirs[i], 0)]

DirRemovals(dirs) ==
  [i \in 1..Len(dirs) |-> Step("RemoveDir", None, Reverse(dirs)[i], 0)]

PlanMove(near, verify) ==
  LET w == Walk(Renames(near), SelectSeq(Tops, LAMBDA p : p \notin near))
      linked == w.steps \o LinkSteps(w)
      links == [i \in 1..Len(w.links) |->
                  [src |-> w.links[i].src, dst |-> w.links[i].dst,
                   by |-> Len(w.steps) + i]]
  IN Removals(linked, w.files \o links, verify)
       \o DirRemovals(w.dirs) \o MetaSteps(w)

-----------------------------------------------------------------------------
(* rebuild_subset: some steps of a plan, in their order.  A dependency on  *)
(* a step that is left out is lifted.                                      *)

InOrder(redo, plan) == SelectSeq([i \in 1..Len(plan) |-> i], LAMBDA i : i \in redo)

(* Deviation of Rebuilt: the indices of the larger plan are kept.           *)
RebuiltStale(plan, redo) ==
  LET kept == InOrder(redo, plan)
  IN [i \in 1..Len(kept) |-> plan[kept[i]]]

Rebuilt(plan, redo) ==
  LET kept == InOrder(redo, plan)
      IndexOf(old) == IF old \in redo THEN CHOOSE i \in 1..Len(kept) : kept[i] = old ELSE 0
  IN [i \in 1..Len(kept) |-> [plan[kept[i]] EXCEPT !.dep = IndexOf(@)]]

===============================================================================
