-------------------------------- MODULE Noc --------------------------------
(***************************************************************************)
(* The network under load: the routers of the mesh and, at each of them, a *)
(* processing element that injects a backlog of flits and consumes what is *)
(* ejected to it, driven cycle by cycle as BspEngine::drain and            *)
(* BspEngine::run_timestep drive them (sim/src/engine/engine.cpp).         *)
(*                                                                         *)
(* A cycle is two parallel sweeps over the tickables (the PEs and the      *)
(* routers), compute and commit, each ended by a barrier.  How OpenMP cuts *)
(* a sweep among threads is left open: within a sweep the tickables run in *)
(* any order, which covers every thread count and every interleaving.      *)
(***************************************************************************)
EXTENDS Router

CONSTANT Traffic    \* the loads to consider: for each node, its destinations

VARIABLES
  phase,      \* "compute" or "commit": the sweep under way
  todo,       \* the tickables the sweep has still to run
  pending,    \* pending_spikes_: each PE's backlog, oldest first
  \* history, never read by an action:
  load,       \* the backlogs at the start
  got,        \* the flits ejected at each node, in order
  start       \* the state at the start of the cycle

nocVars == <<routerVars, phase, todo, pending, load, got, start>>

Tickable == {"pe", "router"} \X Node

Backlog(dsts, n) ==
  [i \in 1 .. Len(dsts) |-> [src |-> n, dst |-> dsts[i], id |-> i]]

(* What a cycle starts from; the staged halves are empty then. *)
Snapshot == [cur |-> cur, outCredit |-> outCredit, rrCursor |-> rrCursor,
             injectCredit |-> injectCredit, eject |-> eject,
             pending |-> pending, got |-> got]

(* A PE addresses its flits to PEs of the mesh. *)
ASSUME TrafficAssumption ==
  \A tr \in Traffic, n \in Node : Backlog(tr[n], n) \in Seq(Flit)

Init ==
  /\ RouterInit
  /\ phase = "compute"
  /\ todo = Tickable
  /\ \E tr \in Traffic : pending = [n \in Node |-> Backlog(tr[n], n)]
  /\ load = pending
  /\ got = [n \in Node |-> << >>]
  /\ start = Snapshot

Take(sweep, t) ==
  /\ phase = sweep
  /\ t \in todo
  /\ todo' = todo \ {t}
  /\ UNCHANGED <<phase, load, start>>

(* ProcessingElementStub::compute, (a) and (d): drain the ejected flits, then
   inject until try_inject refuses. *)
PeCompute(n) ==
  LET k == IF injectCredit[n] < Len(pending[n])
           THEN injectCredit[n] ELSE Len(pending[n])
  IN  /\ Take("compute", <<"pe", n>>)
      /\ DrainAndInject(n, SubSeq(pending[n], 1, k))
      /\ pending' = [pending EXCEPT ![n] = SubSeq(@, k + 1, Len(@))]
      /\ UNCHANGED got

RouterCompute(r) ==
  /\ Take("compute", <<"router", r>>)
  /\ Compute(r)
  /\ got' = IF Local \in Granted(r)
            THEN [got EXCEPT ![r] = Append(@, Sent(r, Local))] ELSE got
  /\ UNCHANGED pending

PeCommit(n) ==
  /\ Take("commit", <<"pe", n>>)
  /\ CommitEject(n)
  /\ UNCHANGED <<pending, got>>

RouterCommit(r) ==
  /\ Take("commit", <<"router", r>>)
  /\ Commit(r)
  /\ UNCHANGED <<pending, got>>

(* The barrier that ends the compute sweep. *)
EndCompute ==
  /\ phase = "compute" /\ todo = {}
  /\ phase' = "commit" /\ todo' = Tickable
  /\ UNCHANGED <<routerVars, pending, load, got, start>>

(* The barrier that ends the commit sweep, and the single block after it. *)
EndCycle ==
  /\ phase = "commit" /\ todo = {}
  /\ phase' = "compute" /\ todo' = Tickable
  /\ start' = Snapshot
  /\ UNCHANGED <<routerVars, pending, load, got>>

Next ==
  \/ \E n \in Node : \/ PeCompute(n) \/ RouterCompute(n)
                     \/ PeCommit(n) \/ RouterCommit(n)
  \/ EndCompute
  \/ EndCycle

Spec == Init /\ [][Next]_nocVars

(* A worksharing loop runs every iteration and a barrier releases every
   thread: the program never stops taking steps. *)
FairSpec == Spec /\ WF_nocVars(Next)

-----------------------------------------------------------------------------
TypeOK ==
  /\ RouterTypeOK
  /\ phase \in {"compute", "commit"}
  /\ todo \in SUBSET Tickable
  /\ pending \in [Node -> Seq(Flit)]

(* The PE's ingress holds at most the one flit its router ejects in a cycle:
   compute drains it, so it never reaches the 32 of its FIFO, whatever the
   order of PE and router within the sweep (pe_stub.cpp:18, router.cpp:85). *)
EjectAtMostOne ==
  \A n \in Node :
    /\ Len(eject[n]) + Len(ejectNxt[n]) <=
         IF phase = "compute" /\ <<"pe", n>> \in todo
                              /\ <<"router", n>> \notin todo THEN 2 ELSE 1
    /\ phase = "commit" => eject[n] = << >> \/ ejectNxt[n] = << >>

(* Where a flit can be: the ways to name the place of one copy of f. *)
CopiesIn(name, queue, f) ==
  UNION {{<<name, n, p, i>> : i \in {j \in DOMAIN queue[n][p] : queue[n][p][j] = f}} :
         n \in Node, p \in Dir}

Copies(f) ==
  {<<"pending", i>> : i \in {j \in DOMAIN pending[f.src] : pending[f.src][j] = f}}
  \cup CopiesIn("cur", cur, f)
  \cup CopiesIn("nxt", nxt, f)
  \cup (UNION {{<<"got", n, i>> : i \in {j \in DOMAIN got[n] : got[n][j] = f}} :
              n \in Node})

(* No flit is lost and none is duplicated: at every point of every cycle each
   flit of the load is in exactly one place. *)
ExactlyOnePlace ==
  \A n \in Node : \A i \in DOMAIN load[n] : Cardinality(Copies(load[n][i])) = 1

(* In-order delivery for a fixed (src, dst), on which the sync protocol
   relies (routing.hpp:9): multi-hop queues, arbitration and backpressure
   never let one flit overtake another of the same pair. *)
InOrderPerPair ==
  \A n \in Node : \A i, j \in DOMAIN got[n] :
    i < j /\ got[n][i].src = got[n][j].src => got[n][i].id < got[n][j].id

(* Deadlock freedom as a fact of one state: when a cycle starts with a flit
   anywhere in the mesh, some router can move one. *)
SomeFlitCanMove ==
  phase = "compute" /\ todo = Tickable =>
    \/ \A n \in Node, p \in Dir : cur[n][p] = << >>
    \/ \E r \in Node : Granted(r) # {}

(* Round-robin arbitration starves nobody: each grant of an output to
   another port brings a port that is waiting for it strictly closer to the
   cursor, so it is passed over at most PortCount - 1 times. *)
WaitersGetCloser ==
  [][\A r \in Node, o, p \in Dir :
       /\ <<"router", r>> \in todo /\ phase = "compute"
       /\ <<"router", r>> \notin todo'
       /\ p \in Requests(r, o) /\ o \in Granted(r) /\ p # Winner(r, o)
       => Distance(r, o, p)' < Distance(r, o, p)]_nocVars

(* Every flit is eventually delivered. *)
AllDelivered ==
  <>(\A n \in Node : \A i \in DOMAIN load[n] :
       \E j \in DOMAIN got[load[n][i].dst] :
         got[load[n][i].dst][j] = load[n][i])

(* The cycle as one step, for any order of the tickables: see NocLockstep. *)
Lockstep ==
  INSTANCE NocLockstep WITH
    cur <- start.cur, outCredit <- start.outCredit,
    rrCursor <- start.rrCursor, injectCredit <- start.injectCredit,
    eject <- start.eject, pending <- start.pending, got <- start.got

(* Results do not depend on the thread count (engine.hpp:23): whatever the
   order in which a sweep runs its tickables, a cycle is the one simultaneous
   step of NocLockstep. *)
ImplementsLockstep == Lockstep!LockstepSpec
=============================================================================
