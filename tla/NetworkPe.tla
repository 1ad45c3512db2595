------------------------------ MODULE NetworkPe ------------------------------
(***************************************************************************)
(* The processing elements of a compiled network                           *)
(* (sim/src/functional/network_pe.cpp), for all PEs at once: a ring of     *)
(* delay buffers that arriving spikes accumulate into, the neurons that    *)
(* fire from the buffer of the current timestep, and the spikes they send. *)
(* The neurons under dynamic pruning are NeuronSteps' abstract store,      *)
(* which Dnp implements.  Counters that are only reported are left out.    *)
(***************************************************************************)
EXTENDS Router, SyncController, NetworkImage, NeuronSteps

CONSTANTS
  Inert,        \* PEs of a matmul kind, which never fire
  UseDnp,       \* dnp.enabled
  SkipPruned,   \* dnp.skip_pruned
  DnpSlots,     \* dnp.n_phys; 0: derived from the ratio
  PhysRatio     \* dnp.phys_ratio, in percent

Seqs == INSTANCE SequencesExt

ASSUME ImageSizeAssumption ==
  /\ DOMAIN Image = Pe /\ NumPe <= W * H
  /\ \A i \in Pe : Image[i].neuron_count \in Nat

VARIABLES
  ring,            \* ring_ and seen_: per slot the current accumulated for its
                   \* timestep, and the MaxPool windows that have fired
  cur_t,           \* cur_t_
  is_input,        \* is_input_
  input_current,   \* input_current_
  soma,            \* soma_ or dnp_, and fired_
  fire_counts,     \* fire_counts_
  spikes_queued,   \* spikes_queued_
  pending_spikes,  \* pending_spikes_
  pending_sync     \* pending_sync_

neuronVars == <<cur_t, is_input, input_current, soma, fire_counts, spikes_queued>>
networkPeVars == <<ring, neuronVars, pending_spikes, pending_sync>>

ring_size == max_delay + 1
RingSlot == 0 .. ring_size - 1

Blank(i) == [current |-> [n \in Neurons(i) |-> 0], windows |-> {}]

(* resolve_phys. *)
Slots == [i \in Pe |->
  IF DnpSlots > 0 THEN DnpSlots
  ELSE LET n    == Image[i].neuron_count
           ceil == (PhysRatio * n + 99) \div 100
       IN  IF ceil < 1 THEN 1 ELSE IF ceil > n THEN n ELSE ceil]

NetworkPeInit ==
  /\ ring = [i \in Pe |-> [s \in RingSlot |-> Blank(i)]]
  /\ cur_t = [i \in Pe |-> 0]
  /\ soma = [i \in Pe |-> IF UseDnp THEN EmptyStore ELSE DenseStore(Neurons(i))]
  /\ fire_counts = [i \in Pe |-> [n \in Neurons(i) |-> 0]]
  /\ spikes_queued = [i \in Pe |-> FALSE]
  /\ pending_spikes = [i \in Pe |-> << >>]
  /\ pending_sync = [i \in Pe |-> << >>]

(* faulty: pruned neurons go on receiving current. *)
never_skips(i, n) == FALSE

should_skip(i, n) == UseDnp /\ SkipPruned /\ pruned(soma[i], n)

-----------------------------------------------------------------------------
(* Spikes as they travel: offsets are cut to 16 bits.  The source is computed
   with the default mesh width. *)
kMeshW == 24
is_sync(f) == f.type # "Spike"

SpikeFlit(i, target, ts) ==
  [type |-> "Spike", src |-> [x |-> i % kMeshW, y |-> i \div kMeshW],
   dst |-> to_coord(target.dst_pe), timestep |-> ts,
   dendrite_id |-> target.dendrite_id, delay |-> target.delay,
   go1 |-> target.go1 % 65536, go2 |-> target.go2 % 65536, meta |-> target.meta]

SpikesOf(i, n, ts) ==
  [p \in DOMAIN Targets[i][n] |-> SpikeFlit(i, Targets[i][n][p], ts)]

(* The spikes of the neurons that fired, lowest first. *)
Packets(i, fired, ts) ==
  Seqs!FlattenSeq([k \in 1 .. Image[i].neuron_count |->
    IF k - 1 \in fired THEN SpikesOf(i, k - 1, ts) ELSE << >>])

(* faulty: windows of different source terms are one window. *)
window_key_no_term(f) ==
  [term |-> 0, dendrite_id |-> f.dendrite_id, go1 |-> f.go1, go2 |-> f.go2]

window_key(f) == Window(f)

(* accumulate, on the slots b of PE i. *)
Accumulate(i, b, f) ==
  LET slot == (cur_t[i] + due_in(f.delay)) % ring_size
  IN  IF is_max(f.meta) /\ window_key(f) \in b[slot].windows THEN b
      ELSE [b EXCEPT
        ![slot].current = [n \in Neurons(i) |-> @[n] +
           IF should_skip(i, n) THEN 0
           ELSE contribution(Image, i, f.dendrite_id, f.go1, f.go2, f.meta, n)],
        ![slot].windows = IF is_max(f.meta) THEN @ \cup {window_key(f)} ELSE @]

(* The spikes among the flits of arrived, in order. *)
Accumulated(i, arrived) ==
  LET after[k \in 0 .. Len(arrived)] ==
        IF k = 0 THEN ring[i]
        ELSE IF is_sync(arrived[k]) THEN after[k - 1]
        ELSE Accumulate(i, after[k - 1], arrived[k])
  IN  after[Len(arrived)]

local_done(i) == spikes_queued[i] /\ pending_spikes[i] = << >>

(* Sync flits as they travel. *)
OnWire(f) == [f EXCEPT !.src = to_coord(@), !.dst = to_coord(@)]

Wires(i, arrived, done) ==
  LET emitted == InOrder(SyncEmits(i, arrived, done))
  IN  [k \in DOMAIN emitted |-> OnWire(emitted[k])]

(* What the PEs send are flits, and every flit is for a PE: load refuses an
   image with any other target. *)
ASSUME WireAssumption ==
  /\ \A f \in SyncFlit : OnWire(f) \in Flit
  /\ \A i \in Pe, ts \in Timestep : \A n \in Neurons(i) : SpikesOf(i, n, ts) \in Seq(Flit)
  /\ \A f \in Flit : \E i \in Pe : f.dst = to_coord(i)

(* What an image that loads decodes to: targets that are PEs of it, offsets that
   fit their fields, and spikes that bring numbers, in due time. *)
ASSUME SpikeAssumption ==
  /\ \A i \in Pe : \A n \in Neurons(i) : \A k \in DOMAIN Targets[i][n] :
       LET target == Targets[i][n][k]
       IN  /\ target.dst_pe \in Pe
           /\ target.go1 % 65536 = target.go1 /\ target.go2 % 65536 = target.go2
  /\ \A i \in Pe : \A f \in {g \in Flit : ~is_sync(g) /\ g.dst = to_coord(i)} :
       /\ due_in(f.delay) \in 1 .. max_delay
       /\ \A n \in Neurons(i) :
            contribution(Image, i, f.dendrite_id, f.go1, f.go2, f.meta, n) \in Int

Least(a, b) == IF a < b THEN a ELSE b

(* NetworkPe::compute: drain, step the controller, which heeds the sync flits
   among those drained, and inject sync flits before spikes until try_inject
   refuses. *)
PeStep(i) ==
  LET arrived  == eject[to_coord(i)]
      done     == local_done(i)
      sync     == pending_sync[i] \o Wires(i, arrived, done)
      credits  == injectCredit[to_coord(i)]
      s        == Least(credits, Len(sync))
      spikes   == pending_spikes[i]
      k        == IF state'[i] = "Computing" THEN Least(credits - s, Len(spikes)) ELSE 0
  IN  /\ SyncStep(i, arrived, done)
      /\ ring' = [ring EXCEPT ![i] = Accumulated(i, arrived)]
      /\ DrainAndInject(to_coord(i), SubSeq(sync, 1, s) \o SubSeq(spikes, 1, k))
      /\ pending_sync' = [pending_sync EXCEPT ![i] = SubSeq(sync, s + 1, Len(sync))]
      /\ pending_spikes' =
           [pending_spikes EXCEPT ![i] = SubSeq(spikes, k + 1, Len(spikes))]
      /\ UNCHANGED neuronVars

-----------------------------------------------------------------------------
(* The slot consumed is free for the timestep ring_size later. *)
ClearedSlot(i, slot) == [ring[i] EXCEPT ![slot] = Blank(i)]

Soma(i, current) ==
  IF i \in Inert THEN soma[i]
  ELSE IF UseDnp THEN StoreStep(soma[i], current, Slots[i])
  ELSE DenseStep(soma[i], current)

(* begin_timestep(ts) on every PE, when its input current is current_in. *)
BeginTimestep(ts, current_in) ==
  LET slot == ts % ring_size
      drive(i) == IF is_input[i] THEN current_in[i] ELSE ring[i][slot].current
  IN  /\ cur_t' = [i \in Pe |-> ts]
      /\ IF ts > 0 THEN BeginNextTimestep ELSE UNCHANGED syncVars
      /\ input_current' = current_in
      /\ soma' = [i \in Pe |-> Soma(i, drive(i))]
      /\ ring' = [i \in Pe |-> ClearedSlot(i, slot)]
      /\ fire_counts' = [i \in Pe |-> [n \in Neurons(i) |->
           fire_counts[i][n] + IF n \in soma'[i].fired THEN 1 ELSE 0]]
      /\ pending_spikes' = [i \in Pe |-> Packets(i, soma'[i].fired, ts)]
      /\ spikes_queued' = [i \in Pe |-> TRUE]
      /\ UNCHANGED <<routerVars, is_input, pending_sync>>

ResetFireCounts ==
  /\ fire_counts' = [i \in Pe |-> [n \in Neurons(i) |-> 0]]
  /\ UNCHANGED <<ring, cur_t, is_input, input_current, soma, spikes_queued,
                 pending_spikes, pending_sync>>
=============================================================================
