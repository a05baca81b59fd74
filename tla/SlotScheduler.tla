----------------------------- MODULE SlotScheduler -----------------------------
(***************************************************************************)
(* What QueueManager promises to whoever submits jobs (the module comment  *)
(* of crates/duet-ops/src/queue.rs), without its threads, channels and     *)
(* bookkeeping: jobs wait in an order given by weight and then submission, *)
(* at most Limit of them are active, the best waiting one is next, nothing *)
(* starts while the queue is held, and a job that is over stays over.      *)
(***************************************************************************)
EXTENDS Integers, FiniteSets

CONSTANTS Ids,     (* job ids, naturals handed out in ascending order       *)
          Weights, (* lower goes first                                    *)
          Limit    (* jobs active at once                                 *)

VARIABLES waiting, weight, active, over, onHold

vars == <<waiting, weight, active, over, onHold>>

Submitted == waiting \cup active \cup over

Init ==
  /\ waiting = {}
  /\ weight = [j \in Ids |-> 0]
  /\ active = {}
  /\ over = {}
  /\ onHold = FALSE

Submit(j) ==
  /\ \A k \in Submitted : k < j
  /\ waiting' = waiting \cup {j}
  /\ \E p \in Weights : weight' = [weight EXCEPT ![j] = p]
  /\ UNCHANGED <<active, over, onHold>>

Reweigh(j) ==
  /\ j \in waiting
  /\ \E p \in Weights : weight' = [weight EXCEPT ![j] = p]
  /\ UNCHANGED <<waiting, active, over, onHold>>

Withdraw(j) ==
  /\ j \in waiting
  /\ waiting' = waiting \ {j}
  /\ over' = over \cup {j}
  /\ UNCHANGED <<weight, active, onHold>>

First(j) ==
  /\ j \in waiting
  /\ \A k \in waiting : weight[j] < weight[k] \/ (weight[j] = weight[k] /\ j <= k)

Start(j) ==
  /\ First(j)
  /\ ~onHold
  /\ Cardinality(active) < Limit
  /\ waiting' = waiting \ {j}
  /\ active' = active \cup {j}
  /\ UNCHANGED <<weight, over, onHold>>

Finish(j) ==
  /\ j \in active
  /\ active' = active \ {j}
  /\ over' = over \cup {j}
  /\ UNCHANGED <<waiting, weight, onHold>>

Hold ==
  /\ onHold' = TRUE
  /\ UNCHANGED <<waiting, weight, active, over>>

Release ==
  /\ onHold' = FALSE
  /\ UNCHANGED <<waiting, weight, active, over>>

Next ==
  \/ Hold
  \/ Release
  \/ \E j \in Ids : Submit(j) \/ Reweigh(j) \/ Withdraw(j) \/ Start(j) \/ Finish(j)

Spec == Init /\ [][Next]_vars

===============================================================================
