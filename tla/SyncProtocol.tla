---------------------------- MODULE SyncProtocol ----------------------------
(***************************************************************************)
(* The barrier protocol on its own: the controllers of all PEs over a      *)
(* network that keeps every sync flit until it is delivered, in any order  *)
(* and after any delay.  BspEngine, where the flits travel through the     *)
(* mesh, is shown to implement this module.                                *)
(***************************************************************************)
EXTENDS SyncController

VARIABLES
  local_done,   \* local_done(): this PE's work of the timestep is finished
  net           \* copies of each sync flit under way, pending_sync_ included

protocolVars == <<syncVars, local_done, net>>

Init ==
  /\ SyncInit
  /\ local_done = [i \in Pe |-> FALSE]
  /\ net = [f \in SyncFlit |-> 0]

One(b) == IF b THEN 1 ELSE 0
Got(fs, f) == \E k \in DOMAIN fs : fs[k] = f

(* One compute of PE i.  It receives the flits of fs (one at most: a router
   ejects one flit per cycle); its local work may be finished before the
   controller looks at it (d) or right after it, during injection. *)
PeCompute(i, fs, d) ==
  /\ local_done[i] => d
  /\ SyncStep(i, fs, d)
  /\ \E after \in BOOLEAN :
       local_done' = [local_done EXCEPT ![i] = d \/ after]
  /\ net' = [f \in SyncFlit |->
       net[f] - One(Got(fs, f)) + One(f \in SyncEmits(i, fs, d))]

(* Computes that receive nothing, and that receive one flit. *)
Work(i) == \E d \in BOOLEAN : PeCompute(i, << >>, d)
Receive(f) == net[f] > 0 /\ \E d \in BOOLEAN : PeCompute(f.dst, <<f>>, d)

(* BspEngine::run, t > 0: every PE is released, so all begin together. *)
Begin ==
  /\ \A i \in Pe : ready_to_advance(i) /\ current_t[i] + 1 < NumTimesteps
  /\ BeginNextTimestep
  /\ local_done' = [i \in Pe |-> FALSE]
  /\ UNCHANGED net

Next ==
  \/ \E i \in Pe : Work(i)
  \/ \E f \in SyncFlit : Receive(f)
  \/ Begin

Spec == Init /\ [][Next]_protocolVars

(* Every PE computes in every cycle, a spike backlog is injected in the end,
   and the mesh delivers every flit (checked on Noc); run begins the next
   timestep once the loop of run_timestep has ended. *)
FairSpec ==
  /\ Spec
  /\ \A i \in Pe : WF_protocolVars(PeCompute(i, << >>, TRUE))
  /\ \A f \in SyncFlit : WF_protocolVars(Receive(f))
  /\ WF_protocolVars(Begin)

-----------------------------------------------------------------------------
TypeOK ==
  /\ SyncTypeOK
  /\ local_done \in [Pe -> BOOLEAN]
  /\ net \in [SyncFlit -> Nat]

HasReported(i) == state[i] \in {"WaitingNext", "Advancing"}

(* The barrier: no PE is released while another still has work of the
   timestep to do. *)
NobodyReleasedEarly ==
  \A i, j \in Pe : ready_to_advance(i) => HasReported(j) /\ local_done[j]

(* on_received drops a flit whose timestep is not its own without a word; a
   dropped REPORT or NEXT would hang the barrier.  It never happens: a flit
   under way is of the timestep its receiver is in. *)
NeverStale ==
  \A f \in SyncFlit : net[f] > 0 => f.timestep = current_t[f.dst]

(* No flit is sent twice, and no child is counted twice. *)
CountedOnce ==
  /\ \A f \in SyncFlit : net[f] <= 1
  /\ \A i \in Pe : children_reported[i] <= child_count(i, NumPe)

(* The engine begins the next timestep without draining the network; no sync
   flit is under way then. *)
SilentAtBarrier ==
  (\A i \in Pe : ready_to_advance(i)) => \A f \in SyncFlit : net[f] = 0

-----------------------------------------------------------------------------
(* The inductive invariant.  It says of every flit under way, and of every
   count and flag, in which states the two ends of its tree edge are. *)

Sender(f) ==
  IF f.type = "Report"
  THEN f.src # 0 /\ f.dst = parent(f.src) /\ state[f.src] = "WaitingNext"
  ELSE /\ f.dst # 0 /\ f.src = parent(f.dst)
       /\ state[f.src] = "Advancing" /\ state[f.dst] = "WaitingNext"
       /\ ~next_received[f.dst]

NetInv ==
  \A f \in SyncFlit :
    net[f] # 0 => net[f] = 1 /\ f.timestep = current_t[f.src] /\ Sender(f)

(* The report of PE c has been sent and received. *)
Arrived(c) == HasReported(c) /\ net[make_report(c)] = 0

CountInv ==
  \A i \in Pe :
    children_reported[i] =
      One(2 * i + 1 \in Pe /\ Arrived(2 * i + 1))
        + One(2 * i + 2 \in Pe /\ Arrived(2 * i + 2))

SubtreeInv ==
  \A c \in Pe \ {0} : HasReported(parent(c)) => Arrived(c)

ReleaseInv ==
  \A i \in Pe :
    /\ next_received[i] =>
         i # 0 /\ state[parent(i)] = "Advancing" /\ HasReported(i)
    /\ state[i] = "Advancing" => i = 0 \/ next_received[i]
    /\ state[i] = "Advancing" => state[0] = "Advancing"
    /\ state[i] # "Computing" => local_done[i]

SameTimestep == \A i, j \in Pe : current_t[i] = current_t[j]

IInv == TypeOK /\ NetInv /\ CountInv /\ SubtreeInv /\ ReleaseInv /\ SameTimestep

-----------------------------------------------------------------------------
Barrier ==
  INSTANCE TimestepBarrier WITH
    t <- current_t[0],
    done <- {i \in Pe : state[i] # "Computing"},
    released <- {i \in Pe : ready_to_advance(i)}

(* The tree of REPORTs and NEXTs is a barrier. *)
ImplementsBarrier == Barrier!BarrierSpec

(* Every timestep is left in the end, the last one included. *)
EveryTimestepEnds ==
  \A t \in Timestep :
    <>(\A i \in Pe : ready_to_advance(i) /\ current_t[i] = t)
=============================================================================
