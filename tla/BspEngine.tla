------------------------------ MODULE BspEngine ------------------------------
(***************************************************************************)
(* The synthetic-traffic simulator as a whole: the routers of the mesh,    *)
(* the barrier controllers and the stub processing elements between them,  *)
(* driven timestep by timestep by BspEngine::run                           *)
(* (sim/src/engine/engine.cpp, sim/src/functional/pe_stub.cpp).  REPORTs   *)
(* and NEXTs are flits like the spikes and share links, buffers and        *)
(* credits with them.                                                      *)
(*                                                                         *)
(* As in Noc, the tickables of a sweep run in any order.                   *)
(***************************************************************************)
EXTENDS Router, SyncController

CONSTANTS
  Bursts,      \* Bursts[n][ts]: the destination lists spikes_for may give PE n
  Watchdog     \* kWatchdogCyclesPerPhase, 1,000,000 in the code

(* Every mesh node has a PE. *)
ASSUME NumPeIsMeshSize == NumPe = W * H

(* Flits carry the coordinates of two PEs and the timestep of their sender. *)
ASSUME WireAssumption ==
  /\ Flit = [type : {"Report", "NextTimestep", "Spike"}, src : Node, dst : Node,
             timestep : Timestep]
  /\ \A n \in Node, ts \in Timestep : \A burst \in Bursts[n][ts] : burst \in Seq(Node)

-----------------------------------------------------------------------------
(* The synthetic traffic (sim/include/neurort/functional/traffic.hpp): for
   each source, the destinations of the spikes a PE generates in one timestep;
   Bursts is put together from them.  The hash mix3 that drives the random one
   is left out: any number r may come out of it. *)

(* UniformRandomTraffic: the destination for the hash value r. *)
uniform_destination(n, r) ==
  LET dx == r % W
      dy == (r \div W) % H
  IN  IF dx = n.x /\ dy = n.y THEN [x |-> (dx + 1) % W, y |-> dy]
                              ELSE [x |-> dx, y |-> dy]

(* HotspotTraffic and NeighborXyTraffic. *)
hotspot_destinations(n, center, rate) ==
  [k \in 1 .. (IF n = center THEN 0 ELSE rate) |-> center]
neighbor_destinations(n) ==
  [k \in 1 .. (IF n.x + 1 >= W THEN 0 ELSE 1) |-> [n EXCEPT !.x = @ + 1]]

-----------------------------------------------------------------------------

VARIABLES
  spikes_generated, \* spikes_generated_
  pending_spikes,   \* pending_spikes_: spikes the credits held back
  pending_sync,     \* pending_sync_: sync flits the credits held back
  t,                \* the timestep of run's loop
  draining,         \* run has left its loop for drain()
  phase,            \* "compute", "commit", "between" two timesteps, "done"
  todo,             \* the tickables the sweep has still to run
  cycles,           \* cycles since run_timestep or drain was entered
  deadlock,         \* deadlock_
  owed              \* history: spikes generated for each PE, not yet drained

engineVars == <<t, draining, phase, todo, cycles, deadlock>>
peVars == <<spikes_generated, pending_spikes, pending_sync, owed>>
bspVars == <<routerVars, syncVars, peVars, engineVars>>

Tickable == {"pe", "router"} \X Node

(* Flits as they travel: source and destination are coordinates. *)
SpikeFlit(n, dst, ts) ==
  [type |-> "Spike", src |-> n, dst |-> dst, timestep |-> ts]
OnWire(f) == [f EXCEPT !.src = to_coord(@), !.dst = to_coord(@)]
is_sync(f) == f.type # "Spike"

Init ==
  /\ RouterInit
  /\ SyncInit
  /\ spikes_generated = [n \in Node |-> FALSE]
  /\ pending_spikes = [n \in Node |-> << >>]
  /\ pending_sync = [n \in Node |-> << >>]
  /\ t = 0 /\ draining = FALSE
  /\ phase = "compute" /\ todo = Tickable
  /\ cycles = 0 /\ deadlock = FALSE
  /\ owed = [n \in Node |-> 0]

-----------------------------------------------------------------------------
(* A processing element. *)

LocalDone(n) == spikes_generated[n] /\ pending_spikes[n] = << >>

Spikes(n) == {f \in Flit : ~is_sync(f) /\ f.dst = n}

Generates(n) == ~spikes_generated[n] /\ may_inject_spike(to_id(n))

(* What a step generates, and the two queues the PE injects from. *)
NewSpikes(n, burst) ==
  IF Generates(n)
  THEN [k \in DOMAIN burst |-> SpikeFlit(n, burst[k], current_t[to_id(n)])] ELSE << >>

Spiking(n, burst) == pending_spikes[n] \o NewSpikes(n, burst)

DoneAt(n, burst) == (spikes_generated[n] \/ Generates(n)) /\ Spiking(n, burst) = << >>

Wires(i, arrived, done) ==
  LET emitted == InOrder(SyncEmits(i, arrived, done))
  IN  [k \in DOMAIN emitted |-> OnWire(emitted[k])]

Syncing(n, burst) ==
  pending_sync[n] \o Wires(to_id(n), eject[n], DoneAt(n, burst))

(* ProcessingElementStub::compute: drain, generate, step the controller, which
   heeds the sync flits among those drained, and inject sync flits before
   spikes until try_inject refuses. *)
PeStep(n, burst) ==
  LET sync   == Syncing(n, burst)
      spikes == Spiking(n, burst)
      s      == IF injectCredit[n] < Len(sync) THEN injectCredit[n] ELSE Len(sync)
      left   == injectCredit[n] - s
      k      == IF left < Len(spikes) THEN left ELSE Len(spikes)
  IN  /\ DrainAndInject(n, SubSeq(sync, 1, s) \o SubSeq(spikes, 1, k))
      /\ SyncStep(to_id(n), eject[n], DoneAt(n, burst))
      /\ spikes_generated' = [spikes_generated EXCEPT ![n] = @ \/ Generates(n)]
      /\ pending_sync' = [pending_sync EXCEPT ![n] = SubSeq(sync, s + 1, Len(sync))]
      /\ pending_spikes' =
           [pending_spikes EXCEPT ![n] = SubSeq(spikes, k + 1, Len(spikes))]
      /\ owed' = [m \in Node |->
           owed[m] + Count(burst, {m})
                   - (IF m = n THEN Count(eject[n], Spikes(n)) ELSE 0)]

-----------------------------------------------------------------------------
(* The engine. *)

Take(sweep, x) ==
  /\ phase = sweep
  /\ x \in todo
  /\ todo' = todo \ {x}
  /\ UNCHANGED <<t, draining, phase, cycles, deadlock>>

PeCompute(n) ==
  /\ Take("compute", <<"pe", n>>)
  /\ \E burst \in IF Generates(n) THEN Bursts[n][t] ELSE {<< >>} :
       PeStep(n, burst)

RouterCompute(r) ==
  /\ Take("compute", <<"router", r>>)
  /\ Compute(r)
  /\ UNCHANGED <<syncVars, peVars>>

PeCommit(n) ==
  /\ Take("commit", <<"pe", n>>)
  /\ CommitEject(n)
  /\ UNCHANGED <<syncVars, peVars>>

RouterCommit(r) ==
  /\ Take("commit", <<"router", r>>)
  /\ Commit(r)
  /\ UNCHANGED <<syncVars, peVars>>

Sweep(next) == phase' = next /\ todo' = Tickable

EndCompute ==
  /\ phase = "compute" /\ todo = {}
  /\ Sweep("commit")
  /\ UNCHANGED <<routerVars, syncVars, peVars, t, draining, cycles, deadlock>>

(* Faulty variants, each with one mistake, to show that the properties notice
   it; nothing else uses them. *)
RootAdvancing == ready_to_advance(0)

all_advancing == \A i \in Pe : ready_to_advance(i)

NoneQueued == \A n \in Node, p \in Dir : cur[n][p] = << >>

(* What inflight() counts is the visible flits only. *)
NoneInFlight ==
  \A n \in Node : eject[n] = << >> /\ \A p \in Dir : cur[n][p] = << >>

(* The single block that ends a cycle of run_timestep. *)
EndCycle ==
  /\ phase = "commit" /\ todo = {} /\ ~draining
  /\ cycles' = cycles + 1
  /\ \/ all_advancing /\ phase' = "between" /\ UNCHANGED <<todo, deadlock>>
     \/ ~all_advancing /\ cycles' <= Watchdog /\ Sweep("compute") /\ UNCHANGED deadlock
     \/ ~all_advancing /\ cycles' > Watchdog
          /\ deadlock' = TRUE /\ phase' = "done" /\ UNCHANGED todo
  /\ UNCHANGED <<routerVars, syncVars, peVars, t, draining>>

(* run() begins the next timestep on every PE; nothing is drained first. *)
NextTimestep ==
  /\ phase = "between" /\ t + 1 < NumTimesteps
  /\ t' = t + 1
  /\ BeginNextTimestep
  /\ spikes_generated' = [n \in Node |-> FALSE]
  /\ Sweep("compute") /\ cycles' = 0
  /\ UNCHANGED <<routerVars, pending_spikes, pending_sync, owed, draining, deadlock>>

(* The loop condition of drain(), and its verdict. *)
DrainOn(elapsed) ==
  IF ~NoneInFlight /\ elapsed < Watchdog
  THEN Sweep("compute") /\ UNCHANGED deadlock
  ELSE phase' = "done" /\ deadlock' = ~NoneInFlight /\ UNCHANGED todo

BeginDrain ==
  /\ phase = "between" /\ t + 1 = NumTimesteps
  /\ draining' = TRUE /\ cycles' = 0
  /\ DrainOn(0)
  /\ UNCHANGED <<routerVars, syncVars, peVars, t>>

DrainCycle ==
  /\ phase = "commit" /\ todo = {} /\ draining
  /\ cycles' = cycles + 1
  /\ DrainOn(cycles + 1)
  /\ UNCHANGED <<routerVars, syncVars, peVars, t, draining>>

Next ==
  \/ \E n \in Node : \/ PeCompute(n) \/ RouterCompute(n)
                     \/ PeCommit(n) \/ RouterCommit(n)
  \/ EndCompute \/ EndCycle \/ NextTimestep \/ BeginDrain \/ DrainCycle

Spec == Init /\ [][Next]_bspVars

(* The worksharing loops run every iteration, the barriers release every
   thread, and run() goes on after each of its loops. *)
FairSpec == Spec /\ WF_bspVars(Next)

-----------------------------------------------------------------------------
(* The queues a flit may be in, and where in them the flits of A are. *)
Line == ({"spikes", "sync", "eject", "ejectNxt"} \X Node \X {Local})
          \cup ({"cur", "nxt"} \X Node \X Dir)

Queue(l) ==
  LET n == l[2]
  IN  IF l[1] = "spikes" THEN pending_spikes[n]
      ELSE IF l[1] = "sync" THEN pending_sync[n]
      ELSE IF l[1] = "eject" THEN eject[n]
      ELSE IF l[1] = "ejectNxt" THEN ejectNxt[n]
      ELSE IF l[1] = "cur" THEN cur[n][l[3]] ELSE nxt[n][l[3]]

Places(A) ==
  UNION {{<<l, k>> : k \in {j \in DOMAIN Queue(l) : Queue(l)[j] \in A}} : l \in Line}

(* Every spike generated and not yet drained by its PE is in exactly one
   place: none is lost or doubled on the way, across barriers included. *)
SpikesConserved ==
  \A n \in Node : owed[n] = Cardinality(Places(Spikes(n)))

(* inflight() looks at the visible halves of the FIFOs alone, not at what PEs
   hold back nor at what is staged; still nothing is anywhere when drain()
   has found it zero. *)
DrainLeavesNothing ==
  phase = "done" /\ ~deadlock => Places(Flit) = {}

(* The deadlock rule (sync_fsm.hpp:20): no spike of a timestep exists before
   every REPORT and NEXTTIMESTEP of the timesteps before it is received. *)
SpikesBehindSync ==
  Places({f \in Flit :
            is_sync(f) /\ \E n \in Node : current_t[to_id(n)] > f.timestep}) = {}

(* The run ends, with every timestep simulated. *)
RunEnds == <>(phase = "done" /\ ~deadlock /\ t = NumTimesteps - 1)

Protocol ==
  INSTANCE SyncProtocol WITH
    local_done <- [i \in Pe |-> LocalDone(to_coord(i))],
    net <- [f \in SyncFlit |-> Cardinality(Places({OnWire(f)}))]

(* Flits, credits and arbitration are invisible to the barrier: the mesh is a
   network as SyncProtocol assumes it, and its theorems hold of the engine. *)
ImplementsProtocol == Protocol!Spec
=============================================================================
