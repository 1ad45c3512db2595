--------------------------- MODULE SyncController ---------------------------
(***************************************************************************)
(* The per-PE controller of the two-stage barrier between timesteps: a     *)
(* REPORT climbs the tree when a subtree has finished, then NEXTTIMESTEP   *)
(* descends it (sim/src/functional/sync_fsm.cpp).  The module gives what   *)
(* one PE's compute does to its controller; how sync flits travel is left  *)
(* to the modules that extend this one.                                    *)
(***************************************************************************)
EXTENDS Integers, FiniteSets

CONSTANTS
  NumPe,          \* num_pe: PEs in the tree
  NumTimesteps    \* sim.num_timesteps

(* From 32768 PEs on the right child of PE 32767 wraps to the root: the heap
   is a tree only below that. *)
ASSUME NumPeAssumption == NumPe \in Nat \ {0} /\ NumPe <= 32767
ASSUME NumTimestepsAssumption == NumTimesteps \in Nat \ {0}

Pe == 0 .. NumPe - 1
Timestep == 0 .. NumTimesteps - 1
SyncFlit == [type : {"Report", "NextTimestep"}, src : Pe, dst : Pe,
             timestep : Timestep]

-----------------------------------------------------------------------------
(* The tree: PeIds as a binary heap rooted at 0
   (sim/include/neurort/functional/tree_topology.hpp).  A PeId is 16 bits
   wide, so the child arithmetic wraps. *)

is_root(i) == i = 0
parent(i) == (i - 1) \div 2
left_child(i)  == (2 * i + 1) % 65536
right_child(i) == (2 * i + 2) % 65536
children(i, n) == {c \in {left_child(i), right_child(i)} : c < n}

(* Faulty variants of definitions stand before them, each with one mistake,
   to show that the properties notice it; nothing else uses them. *)
child_count_left(i, n) == IF left_child(i) < n THEN 1 ELSE 0

child_count(i, n) ==
  (IF left_child(i) < n THEN 1 ELSE 0) + (IF right_child(i) < n THEN 1 ELSE 0)

-----------------------------------------------------------------------------

VARIABLES
  state,             \* state_
  current_t,         \* current_t_
  children_reported, \* children_reported_
  next_received      \* next_received_

syncVars == <<state, current_t, children_reported, next_received>>

PeSyncState == {"Computing", "WaitingChildren", "WaitingNext", "Advancing"}

SyncInit ==
  /\ state = [i \in Pe |-> "Computing"]
  /\ current_t = [i \in Pe |-> 0]
  /\ children_reported = [i \in Pe |-> 0]
  /\ next_received = [i \in Pe |-> FALSE]

make_report(i) ==
  [type |-> "Report", src |-> i, dst |-> parent(i), timestep |-> current_t[i]]

make_next_entered(i, child) ==
  [type |-> "NextTimestep", src |-> i, dst |-> child,
   timestep |-> (current_t[i] + 1) % NumTimesteps]

make_next(i, child) ==
  [type |-> "NextTimestep", src |-> i, dst |-> child, timestep |-> current_t[i]]

FreshBefore(i, f) == f.timestep < current_t[i]

(* on_received ignores, silently, a flit of any other timestep. *)
Fresh(i, f) == f.timestep = current_t[i]

(* on_received for each flit of the sequence fs. *)
Reported(i, fs) ==
  children_reported[i]
    + Cardinality({k \in DOMAIN fs : fs[k].type = "Report" /\ Fresh(i, fs[k])})
Nexted(i, fs) ==
  \/ next_received[i]
  \/ \E k \in DOMAIN fs : fs[k].type = "NextTimestep" /\ Fresh(i, fs[k])

LocalStageAtOnce(i, localDone) ==
  IF state[i] = "Computing" THEN "WaitingChildren" ELSE state[i]

(* The stages of SyncController::step, which loops until none applies. *)
LocalStage(i, localDone) ==
  IF state[i] = "Computing" /\ localDone THEN "WaitingChildren" ELSE state[i]

ChildrenStage(i, localDone, reported) ==
  LET s == LocalStage(i, localDone)
  IN  IF s = "WaitingChildren" /\ reported >= child_count(i, NumPe)
      THEN IF is_root(i) THEN "Advancing" ELSE "WaitingNext"
      ELSE s

NextStageAtOnce(i, localDone, reported, nexted) ==
  LET s == ChildrenStage(i, localDone, reported)
  IN  IF s = "WaitingNext" THEN "Advancing" ELSE s

NextStage(i, localDone, reported, nexted) ==
  LET s == ChildrenStage(i, localDone, reported)
  IN  IF s = "WaitingNext" /\ nexted THEN "Advancing" ELSE s

(* What it emits on the way: a REPORT when it leaves WaitingChildren below
   the root, NEXTTIMESTEP to every child when it becomes Advancing. *)
Emitted(i, localDone, reported, nexted) ==
  LET before == LocalStage(i, localDone)
      middle == ChildrenStage(i, localDone, reported)
      after  == NextStage(i, localDone, reported, nexted)
  IN  (IF before = "WaitingChildren" /\ middle = "WaitingNext"
       THEN {make_report(i)} ELSE {})
      \cup
      (IF state[i] # "Advancing" /\ after = "Advancing"
       THEN {make_next(i, c) : c \in children(i, NumPe)} ELSE {})

(* One compute of PE i: on_received for the flits fs, then step. *)
SyncStep(i, fs, localDone) ==
  LET reported == Reported(i, fs)
      nexted   == Nexted(i, fs)
  IN  /\ state' = [state EXCEPT ![i] = NextStage(i, localDone, reported, nexted)]
      /\ children_reported' = [children_reported EXCEPT ![i] = reported]
      /\ next_received' = [next_received EXCEPT ![i] = nexted]
      /\ UNCHANGED current_t

SyncEmits(i, fs, localDone) ==
  Emitted(i, localDone, Reported(i, fs), Nexted(i, fs))

(* The flits of a set in the order step() emits them: parent, left, right. *)
InOrder(flits) ==
  CHOOSE q \in [1 .. Cardinality(flits) -> flits] :
    \A i, j \in DOMAIN q : i < j => q[i].dst < q[j].dst

ready_to_advance(i) == state[i] = "Advancing"
may_inject_spike(i) == state[i] = "Computing"

BeginKeepsReports ==
  /\ current_t' = [i \in Pe |-> current_t[i] + 1]
  /\ state' = [i \in Pe |-> "Computing"]
  /\ next_received' = [i \in Pe |-> FALSE]
  /\ UNCHANGED children_reported

(* begin_next_timestep on every controller, as the engine calls it. *)
BeginNextTimestep ==
  /\ current_t' = [i \in Pe |-> current_t[i] + 1]
  /\ state' = [i \in Pe |-> "Computing"]
  /\ children_reported' = [i \in Pe |-> 0]
  /\ next_received' = [i \in Pe |-> FALSE]

SyncTypeOK ==
  /\ state \in [Pe -> PeSyncState]
  /\ current_t \in [Pe -> Timestep]
  /\ children_reported \in [Pe -> Nat]
  /\ next_received \in [Pe -> BOOLEAN]
=============================================================================
