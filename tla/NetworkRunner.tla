---------------------------- MODULE NetworkRunner ----------------------------
(***************************************************************************)
(* Running a compiled network end to end on the mesh                       *)
(* (sim/src/engine/network_runner.cpp, run_network of sim/app/main.cpp):   *)
(* run(warmup); reset_counts(); run(measure).  In a timestep all PEs fire, *)
(* the mesh is stepped until the barrier is over and then until it is      *)
(* empty.  The runner is one thread: within a cycle PEs and routers run in *)
(* the order of their ids.                                                 *)
(***************************************************************************)
EXTENDS NetworkPe

CONSTANTS
  InputSeqs,   \* the input sequences that may be given
  Warmup,      \* timesteps before the counts are reset
  Measure,     \* timesteps after
  Watchdog     \* kWatchdog, 1,000,000 in the code

ASSUME RunAssumption ==
  /\ Warmup \in Nat /\ Measure \in Nat /\ NumTimesteps = Warmup + Measure
  /\ Watchdog \in Nat \ {0}

(* What run_network is given beside the image: whole periods of frames, for PEs
   that no attention block feeds; and no two blocks feed the same PE, which
   lies behind its block, by the block's delay, and holds a slice of the tokens'
   dimensions and a weight for each of them. *)
ASSUME FeedAssumption ==
  /\ \A s \in InputSeqs : \A i \in Pe \cap DOMAIN s :
       i \notin ProjectionPes /\ s[i] # << >> /\ s[i] \in Seq([Neurons(i) -> Int])
  /\ \A c, e \in DOMAIN Coprocs :
       c = e \/ Coprocs[c].proj_pes \cap Coprocs[e].proj_pes = {}
  /\ \A c \in DOMAIN Coprocs :
       LET u == Coprocs[c]
       IN  /\ u.proj_pes \subseteq Pe /\ u.delay \in Nat \ {0} /\ u.embed \in Nat
           /\ \A i \in u.proj_pes : \A n \in Neurons(i) :
                /\ n \div width(Image, i, u) \in 0 .. u.n_tok - 1
                /\ \A e \in 0 .. u.embed - 1 :
                     Image[i].weights[(n % width(Image, i, u)) * u.embed + e] \in Int

VARIABLES
  input_seq,   \* input_seq_: per input PE the frames of one period
  buf,         \* AttnCoproc::buf of each attention block
  abs_t,       \* abs_t_
  measuring,   \* reset_counts has been called
  phase,       \* "between" timesteps, "barrier", "drain" or "done"
  ran,         \* how many tickables the NoC cycle has run
  elapsed,     \* cycles of the barrier or of the drain
  deadlock     \* deadlock_

runVars == <<abs_t, measuring, phase, ran, elapsed, deadlock>>
runnerVars == <<routerVars, syncVars, networkPeVars, input_seq, buf, runVars>>

(* A NoC cycle, step_cycle: the PEs compute, then the routers, then the PEs
   commit, then the routers, each in the order of their ids. *)
CycleLength == 2 * (NumPe + W * H)

(* A constant input current is a sequence of one frame. *)
frame(i) == input_seq[i][(abs_t % Len(input_seq[i])) + 1]

Init ==
  /\ RouterInit /\ SyncInit /\ NetworkPeInit
  /\ input_seq \in InputSeqs
  /\ is_input = [i \in Pe |-> i \in DOMAIN input_seq \cup ProjectionPes]
  /\ input_current = [i \in Pe |-> [n \in Neurons(i) |-> 0]]
  /\ buf = [c \in DOMAIN Coprocs |-> << >>]
  /\ abs_t = 0 /\ measuring = FALSE
  /\ phase = "between" /\ ran = CycleLength /\ elapsed = 0 /\ deadlock = FALSE

-----------------------------------------------------------------------------
(* The k-th step of a NoC cycle. *)
Take(k) ==
  /\ ran = k /\ ran' = k + 1
  /\ UNCHANGED <<input_seq, buf, abs_t, measuring, phase, elapsed, deadlock>>

PeCompute(i) == Take(i) /\ PeStep(i)

RouterCompute(r) ==
  Take(NumPe + to_id(r)) /\ Compute(r) /\ UNCHANGED <<syncVars, networkPeVars>>

PeCommit(i) ==
  Take(NumPe + W * H + i) /\ CommitEject(to_coord(i))
    /\ UNCHANGED <<syncVars, networkPeVars>>

RouterCommit(r) ==
  Take(2 * NumPe + W * H + to_id(r)) /\ Commit(r)
    /\ UNCHANGED <<syncVars, networkPeVars>>

-----------------------------------------------------------------------------
(* Attention: the queue is fed from before the PEs fire and to after. *)

filled(c) == Len(buf[c]) >= Coprocs[c].delay

(* set_input_current for the frames, then coproc_feed. *)
FedCurrent(i) ==
  IF \E c \in DOMAIN Coprocs : i \in Coprocs[c].proj_pes /\ filled(c)
  THEN LET c == CHOOSE c \in DOMAIN Coprocs : i \in Coprocs[c].proj_pes /\ filled(c)
       IN  projection(Image, i, Coprocs[c], Head(buf[c]))
  ELSE IF i \in DOMAIN input_seq THEN frame(i)
  ELSE input_current[i]

(* faulty: read before the PEs have fired. *)
coproc_read_first(c, rest) ==
  Append(rest, attention(Image, Coprocs[c], [i \in Pe |-> soma[i].fired]))

coproc_read(c, rest) ==
  Append(rest, attention(Image, Coprocs[c], [i \in Pe |-> soma'[i].fired]))

-----------------------------------------------------------------------------
(* run(). *)

(* faulty: the next timestep starts although the last was given up. *)
RunOn == abs_t < IF measuring THEN Warmup + Measure ELSE Warmup

GoesOn == ~deadlock /\ abs_t < IF measuring THEN Warmup + Measure ELSE Warmup

(* faulty: every call of run() counts from 0. *)
RestartedIndex == IF measuring THEN abs_t - Warmup ELSE abs_t

AbsoluteIndex == abs_t

Begin ==
  /\ phase = "between" /\ GoesOn
  /\ BeginTimestep(AbsoluteIndex, [i \in Pe |-> FedCurrent(i)])
  /\ buf' = [c \in DOMAIN Coprocs |->
       coproc_read(c, IF filled(c) THEN Tail(buf[c]) ELSE buf[c])]
  /\ phase' = "barrier" /\ elapsed' = 0
  /\ UNCHANGED <<input_seq, abs_t, measuring, deadlock, ran>>

all_advancing == \A i \in Pe : ready_to_advance(i)

(* faulty: there is no drain. *)
Undrained == TRUE

(* faulty: the PEs' ingress is forgotten. *)
RoutersEmpty == \A n \in Node, p \in Dir : cur[n][p] = << >>

(* inflight() is zero. *)
NoneInFlight ==
  /\ \A n \in Node, p \in Dir : cur[n][p] = << >>
  /\ \A i \in Pe : eject[to_coord(i)] = << >>

InCycles == phase \in {"barrier", "drain"} /\ ran = CycleLength

(* The loops' conditions, asked after the watchdog. *)
LoopOver == IF phase = "barrier" THEN all_advancing ELSE NoneInFlight

GiveUp ==
  /\ InCycles /\ elapsed > Watchdog
  /\ deadlock' = TRUE /\ phase' = "between" /\ abs_t' = abs_t + 1
  /\ UNCHANGED <<routerVars, syncVars, networkPeVars, input_seq, buf, measuring, ran,
                 elapsed>>

NextCycle ==
  /\ InCycles /\ elapsed <= Watchdog /\ ~LoopOver
  /\ elapsed' = elapsed + 1 /\ ran' = 0
  /\ UNCHANGED <<routerVars, syncVars, networkPeVars, input_seq, buf, abs_t, measuring,
                 phase, deadlock>>

BeginDrain ==
  /\ InCycles /\ elapsed <= Watchdog
  /\ phase = "barrier" /\ LoopOver /\ ~NoneInFlight
  /\ phase' = "drain" /\ elapsed' = 0
  /\ UNCHANGED <<routerVars, syncVars, networkPeVars, input_seq, buf, abs_t, measuring,
                 ran, deadlock>>

EndTimestep ==
  /\ InCycles /\ elapsed <= Watchdog
  /\ LoopOver /\ NoneInFlight
  /\ phase' = "between" /\ abs_t' = abs_t + 1
  /\ UNCHANGED <<routerVars, syncVars, networkPeVars, input_seq, buf, measuring, ran,
                 elapsed, deadlock>>

reset_counts ==
  /\ phase = "between" /\ ~measuring
  /\ abs_t = Warmup \/ deadlock
  /\ measuring' = TRUE
  /\ ResetFireCounts
  /\ UNCHANGED <<routerVars, syncVars, input_seq, buf, abs_t, phase, ran, elapsed,
                 deadlock>>

Finish ==
  /\ phase = "between" /\ measuring
  /\ abs_t = Warmup + Measure \/ deadlock
  /\ phase' = "done"
  /\ UNCHANGED <<routerVars, syncVars, networkPeVars, input_seq, buf, abs_t, measuring,
                 ran, elapsed, deadlock>>

Next ==
  \/ \E i \in Pe : PeCompute(i) \/ PeCommit(i)
  \/ \E r \in Node : RouterCompute(r) \/ RouterCommit(r)
  \/ Begin \/ GiveUp \/ NextCycle \/ BeginDrain \/ EndTimestep
  \/ reset_counts \/ Finish

Spec == Init /\ [][Next]_runnerVars

(* One thread, whose loops go on until their conditions fail. *)
FairSpec == Spec /\ WF_runnerVars(Next)

-----------------------------------------------------------------------------
(* A spike's src is its "origin PE (latency accounting + deterministic
   tie-break)" (flit.hpp:29). *)
SourceIsOrigin ==
  \A i \in Pe : \A k \in DOMAIN pending_spikes[i] :
    pending_spikes[i][k].src = to_coord(i)

(* Skipping pruned neurons "is STICKY after prune -- a pruned neuron no longer
   receives input, so UpdateFSM's allocate-on-input never re-maps it"
   (dnp.hpp:65). *)
PrunedNeverReturns ==
  [][\A i \in Pe : ~is_input[i] /\ UseDnp /\ SkipPruned =>
       \A n \in Neurons(i) : pruned(soma[i], n) => pruned(soma[i], n)']_soma

(* The queues a flit may be in: what a PE holds back, what a node's PE is handed,
   and the halves of the routers' input FIFOs. *)
Line == ({"spikes", "sync"} \X Pe \X {Local})
          \cup ({"eject", "ejectNxt"} \X Node \X {Local})
          \cup ({"cur", "nxt"} \X Node \X Dir)

Queue(l) ==
  LET n == l[2]
  IN  IF l[1] = "spikes" THEN pending_spikes[n]
      ELSE IF l[1] = "sync" THEN pending_sync[n]
      ELSE IF l[1] = "eject" THEN eject[n]
      ELSE IF l[1] = "ejectNxt" THEN ejectNxt[n]
      ELSE IF l[1] = "cur" THEN cur[n][l[3]] ELSE nxt[n][l[3]]

(* "an extra drain guarantees every spike is delivered before the next step"
   (network_runner.hpp:34): whatever is on its way belongs to the timestep
   its receiver is in, so that accumulate, which counts the delay from the
   receiver's timestep and not from the flit's, picks the right slot. *)
SpikesOfThisTimestep ==
  \A l \in Line : \A k \in DOMAIN Queue(l) :
    LET f == Queue(l)[k]
    IN  ~is_sync(f) => f.timestep = cur_t[to_id(f.dst)]

(* Between timesteps, unless the run was given up, the mesh and the PEs hold
   nothing at all, staged halves, ungiven credits and held-back sync flits
   included, none of which all_advancing or inflight() looks at. *)
SilentBetween ==
  phase = "between" /\ ~deadlock =>
    /\ \A i \in Pe : pending_spikes[i] = << >> /\ pending_sync[i] = << >>
    /\ \A n \in Node :
         /\ eject[n] = << >> /\ ejectNxt[n] = << >>
         /\ injectCredit[n] + peCreditReturn[n] = CreditInit
         /\ \A p \in Dir : cur[n][p] = << >> /\ nxt[n][p] = << >>

(* No run is given up, and every run ends with all its timesteps. *)
RunEnds == <>(phase = "done" /\ ~deadlock /\ abs_t = Warmup + Measure)

Begun == IF phase \in {"barrier", "drain"} THEN abs_t + 1 ELSE abs_t

(* The spikes on their way, each with its place. *)
Flying ==
  UNION {{<<<<l, k>>, Queue(l)[k]>> : k \in {j \in DOMAIN Queue(l) : ~is_sync(Queue(l)[j])}} :
           l \in Line}

(* What is due in each PE, from one timestep ahead on, once the spikes on their
   way are accumulated. *)
Due ==
  LET due[flying \in SUBSET ((Line \X Nat) \X Flit)] ==
        [i \in Pe |-> [d \in 1 .. max_delay |->
           received(Image, i, {n \in Neurons(i) : should_skip(i, n)},
                    ring[i][(Begun + d - 1) % ring_size],
                    {s \in flying : s[2].dst = to_coord(i) /\ due_in(s[2].delay) = d})]]
  IN  due[Flying]

Synchronous ==
  INSTANCE DelayLine WITH
    Chip <- network(Image, Coprocs, Inert, Slots),
    t <- Begun,
    counts <- fire_counts,
    due <- Due,
    ssa <- [c \in DOMAIN Coprocs |->
              [k \in 1 .. Coprocs[c].delay - Len(buf[c]) |-> NoAttention(Coprocs[c])]
                \o buf[c]]

(* Cycles, back-pressure, the order in which spikes arrive, the reuse of ring
   slots, and the split into a warm-up and a measured run are invisible: the
   mesh computes what the synchronous network computes. *)
ImplementsDelayLine == Synchronous!LineSpec
=============================================================================
