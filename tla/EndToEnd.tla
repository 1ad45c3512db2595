------------------------------ MODULE EndToEnd ------------------------------
(***************************************************************************)
(* From a trained model to its firing on the chip (run_e2e.py): compiled,  *)
(* run by the functional simulator, and run as a pipeline, in which each   *)
(* layer is a timestep behind the ones before it, by the simulator, which  *)
(* Pipeline stands for.                                                    *)
(***************************************************************************)
EXTENDS Compiler, SpikingModels, Pipeline

CONSTANTS
  Images,   \* the inputs
  Warmup, Measure

LOCAL INSTANCE FiniteSetsExt
LOCAL INSTANCE SequencesExt

VARIABLES
  sample,    \* the input
  quantized, \* the functional simulator rounds the weights as the chip does
  tensors,   \* its weights
  sj,        \* what the model does, timestep by timestep
  loaded     \* the network that the simulator runs

modelVars == <<sample, quantized, tensors, sj>>
endVars == <<modelVars, loaded>>

-----------------------------------------------------------------------------
(* What the simulator is given beside the compiled network: the current into
   the first layer, the attention blocks, and the PEs it leaves alone. *)

(* write_input_bin: the current into the first layer, cut up by PE. *)
in_node(d) == CHOOSE n \in of_op(d, {"conv"}) : d[producer(d, n)].op = "input"
in_current(d, w_in, x) == biased(d, in_node(d), current(d, in_node(d), w_in, x))
write_input_bin(d, placed, cur) ==
  [i \in pes_of_node(placed, in_node(d)) |->
     LET pe == placed.pes[i]
     IN  << [n \in 0 .. pe.neuron_count - 1 |-> cur[pe.neuron_base + n]] >>]

(* write_attention_bin: a block for every matmul_av. *)
write_attention_bin(d, placed, nodes) ==
  LET depth  == node_depths(d)
      blocks == SelectSeq(nodes, LAMBDA n : d[n].op = "matmul_av")
      block(av) ==
        LET qk   == d[av].inputs[1]
            q    == d[qk].inputs[1]
            proj == CHOOSE n \in consumers(d, av) : d[n].op = "dense"
        IN  [n_tok |-> d[q].shape[1], embed |-> d[q].shape[2], heads |-> d[qk].heads,
             scale |-> d[qk].scale, delay |-> depth[proj] - depth[q],
             q_pes |-> pes_of_node(placed, q),
             k_pes |-> pes_of_node(placed, d[qk].inputs[2]),
             v_pes |-> pes_of_node(placed, d[av].inputs[2]),
             proj_pes |-> pes_of_node(placed, proj)]
  IN  [i \in DOMAIN blocks |-> block(blocks[i])]

(* PEs of matmuls, which the runner never lets fire. *)
matmul_pes(placed) ==
  {i \in DOMAIN placed.pes : placed.pes[i].kind \in {"matmul_qk", "matmul_av"}}

-----------------------------------------------------------------------------
EndInit ==
  /\ CompilerInit /\ SimInit
  /\ sample = << >> /\ quantized = FALSE /\ tensors = << >> /\ sj = << >>
  /\ loaded = << >> /\ input_seq = << >> /\ t = 0
  /\ soma = << >> /\ counts = << >> /\ due = << >> /\ ssa = << >>

Compiling == Compile /\ UNCHANGED <<simVars, lineVars, endVars>>

(* An image is presented to the model, which is run timestep by timestep. *)
Present ==
  /\ phase = "written" /\ trained.family # "graph"
  /\ \E x \in Images :
       Cardinality(DOMAIN x) = prod(trained.input) /\ sample' = x
  /\ phase' = "presented"
  /\ UNCHANGED <<topoVars, trained, placementVars, tableVars, simVars, lineVars, quantized,
                 tensors, sj, loaded>>

RunModel ==
  /\ phase = "presented" /\ Len(sj) < Timesteps
  /\ sj' = Append(sj, sj_timestep(trained, sample, sj))
  /\ UNCHANGED <<compilerVars, simVars, lineVars, sample, quantized, tensors, loaded>>

(* Then the functional simulator starts on it. *)
StartSimulator ==
  /\ phase = "presented" /\ Len(sj) = Timesteps
  /\ \E q \in BOOLEAN : quantized' = q /\ tensors' = all_weights(dag, net, q)
  /\ SimStart(dag)
  /\ phase' = "reference"
  /\ UNCHANGED <<topoVars, trained, placementVars, tableVars, lineVars, sample, sj, loaded>>

Simulate ==
  /\ phase = "reference"
  /\ Forward(dag, order, tensors, sample) \/ NextTimestep(order)
  /\ UNCHANGED <<compilerVars, lineVars, endVars>>

(* The files are loaded, with the image's current as the input. *)
StartChip ==
  /\ phase = "reference" /\ timestep = Timesteps /\ quantized
  /\ phase' = "chip"
  /\ \E chip \in {network(load(manifest), write_attention_bin(dag, net, order),
                         matmul_pes(net), << >>)} :
       /\ loaded' = chip
       /\ soma' = FirstSoma(chip) /\ counts' = NoCounts(chip)
       /\ due' = NothingDue(chip) /\ ssa' = FirstSsa(chip)
  /\ \E w_in \in {reassemble_weight(dag, net, in_node(dag), TRUE)} :
       input_seq' = write_input_bin(dag, net, in_current(dag, w_in, sample))
  /\ UNCHANGED <<topoVars, trained, placementVars, tableVars, simVars, modelVars, t>>

(* The runner's loop: warm-up, the counts start anew, measurement. *)
RunChip ==
  /\ phase = "chip"
  /\ \/ /\ t < Warmup + Measure
        /\ t = Warmup => counts = NoCounts(loaded)
        /\ StepOf(loaded)
     \/ /\ t = Warmup /\ counts # NoCounts(loaded)
        /\ ResetCountsOf(loaded)
  /\ UNCHANGED <<compilerVars, simVars, endVars>>

EndNext == Compiling \/ Present \/ RunModel \/ StartSimulator \/ Simulate \/ StartChip \/ RunChip

EndSpec == EndInit /\ [][EndNext]_<<compilerVars, simVars, lineVars, endVars>>

-----------------------------------------------------------------------------
(* Placement. *)

(* Every neuron of a layer is in one PE, whose numbers locate and
   local_to_global translate into each other, and the PEs' dendrites and
   spikes give, decompressed, the synapses of the layer: no more, no fewer,
   with the same weights. *)
PlacedLossless ==
  phase = "placed" =>
    \A n \in DOMAIN net.placements :
      LET pl   == net.placements[n]
          spots == UNION {{<<i, k>> : k \in 0 .. net.pes[i].neuron_count - 1} :
                           i \in pes_of_node(net, n)}
          outs == dag[n].wshape[1]
          ins  == dag[n].wshape[2]
      IN  /\ {locate(pl, g) : g \in ids(dag, n)} = spots
          /\ \A g \in ids(dag, n) :
               LET at == locate(pl, g) IN local_to_global(pl, at[1] - pl.start, at[2]) = g
          /\ dag[n].op = "conv" =>
               /\ decompress_matches_conv(dag, net, n)
               /\ reconstruct_node(net, n) = enumerate_conv(geom(dag, n), dag[n].weight)
          /\ dag[n].op = "dense" =>
               reconstruct_node(net, n)
                 = {<<x[1] * outs + x[2][1], x[1] * ins + x[2][2], x[2][3]>> :
                      x \in (0 .. tokens(dag[n]) - 1)
                              \X enumerate_dense(outs, ins, dag[n].weight)}

(* The fan entries of an attention's operands: an output is reached by the
   operand neurons that it is computed of, and by no others. *)
FanExact ==
  phase = "routed" =>
    \A n \in of_op(dag, {"matmul_qk", "matmul_av"}) :
      LET global(i, k) == LET pl == net.placements[net.pes[i].node]
                          IN  <<net.pes[i].node, local_to_global(pl, i - pl.start, k)>>
          fans == {a \in UNION {entries[i] : i \in DOMAIN entries} : net.pes[a.dst_pe].node = n}
          outputs(a) ==
            LET reached == decompress(net.pes[a.dst_pe].dendrites[a.dendrite_id], a.go1, a.go2)
            IN  {global(a.dst_pe, reached[x].neuron)[2] : x \in DOMAIN reached}
      IN  \A oid \in ids(dag, n) :
            {global(a.pe, a.src) : a \in {b \in fans : oid \in outputs(b)}}
              = matmul_preimage(dag, n, oid)

(* What is written loads: the loader's checks pass, the spike entries come back
   as they were routed, every decoded address is in the PE's tables, and every
   offset fits its field of a flit. *)
WrittenLoads ==
  phase = "written" =>
    LET img == load(manifest)
    IN  /\ Loads(manifest)
        /\ Lossless(entries, tables)
        /\ \A i \in DOMAIN img :
             UNION {Range(GroupTargets(g)) : g \in Range(img[i].axon_groups)}
               = {[src |-> a.src, go1 |-> a.go1, go2 |-> a.go2, dst_pe |-> a.dst_pe,
                   dendrite_id |-> a.dendrite_id, delay |-> a.delay, meta |-> a.meta] :
                    a \in entries[i]}
        /\ \A i \in DOMAIN entries : \A a \in entries[i] :
             LET to       == img[a.dst_pe]
                 synapses == decompress(to.dendrites[a.dendrite_id], a.go1, a.go2)
             IN  /\ {a.go1, a.go2} \subseteq 0 .. OffsetLimit - 1
                 /\ \A s \in DOMAIN synapses :
                      /\ synapses[s].neuron \in 0 .. to.neuron_count - 1
                      /\ net.pes[a.dst_pe].kind \in {"conv", "dense"} =>
                           synapses[s].weight \in DOMAIN to.weights

-----------------------------------------------------------------------------
(* Firing-rate-aware placement. *)

(* The neuron of the model as trained that a neuron of the compiled one is. *)
as_trained(n, o) ==
  IF reordering = << >> THEN o
  ELSE LET layers == spiking_layers(dag)
           hw     == pixels(dag, n)
           perm   == reordering[CHOOSE i \in DOMAIN layers : layers[i] = n]
       IN  perm[o \div hw] * hw + (o % hw)

(* Of a reordered model the lowest ids of a PE, which pruning prefers, are the
   neurons of the PE's most active channels: the masks "id" and "chan" agree
   for every ratio that is a whole number of channels. *)
ActiveKept ==
  phase = "placed" /\ reordering # << >> =>
    LET layers == spiking_layers(dag)
    IN  \A k \in DOMAIN layers, den \in {2, 4} :
          LET n    == layers[k]
              rate == [o \in ids(dag, n) |-> profile[k][o \div pixels(dag, n)]]
              low  == build_masks(dag, net, n, rate, 1, den, "id")
              best == build_masks(dag, net, n, rate, 1, den, "chan")
          IN  \A i \in pes_of_node(net, n) :
                (net.pes[i].neuron_count \div pixels(dag, n)) % den = 0 =>
                  \A ids_kept \in low[i] : {as_trained(n, o) : o \in ids_kept} \in best[i]

-----------------------------------------------------------------------------
(* Currents. *)

(* What the spikes of some neurons bring to PE i, on the chip. *)
on_chip_current(img, fired, i) ==
  LET sent == UNION {UNION {LET to == targets(img[p].axon_groups, k)
                            IN  {<<p, k, x, to[x]>> : x \in {y \in DOMAIN to : to[y].dst_pe = i}} :
                              k \in fired[p]} : p \in DOMAIN img}
      pooled == {[id |-> s[4].dendrite_id, go1 |-> s[4].go1, go2 |-> s[4].go2,
                  term |-> term(s[4].meta)] : s \in {x \in sent : is_max(x[4].meta)}}
  IN  [m \in neurons(img, i) |->
         MapThenSumSet(LAMBDA s : contribution(img, i, s[4].dendrite_id, s[4].go1, s[4].go2,
                                               s[4].meta, m),
                       {s \in sent : ~is_max(s[4].meta)})
           + MapThenSumSet(LAMBDA w : contribution(img, i, w.id, w.go1, w.go2, 1, m), pooled)]

(* What they bring to layer n in the functional simulator. *)
simulated_current(n, spikes) ==
  LET acts[p \in DOMAIN dag] ==
        IF dag[p].op \in SOURCE_OPS \cup {"input"} THEN spike_map(spikes[p], ids(dag, p))
        ELSE relay(dag, p, [q \in producers(dag, p) |-> acts[q]])
  IN  current(dag, n, reassemble_weight(dag, net, n, TRUE), acts[producer(dag, n)])

(* The layers that spikes drive, and whether an average over tokens is on the
   way. *)
driven == {n \in of_op(dag, {"conv", "dense"}) :
             LET srcs == source_nodes(dag, n)
             IN  srcs # {} /\ srcs \cap of_op(dag, {"matmul_av"}) = {}}
token_mean(n) == dag[n].op = "dense" /\ dag[producer(dag, n)].op = "pool"
                   /\ dag[producer(dag, n)].pool_type = "token_mean"

ComputesLayer(n) ==
  LET img == load(manifest)
  IN  \A k \in {1, 2, 5} : \A r \in 0 .. k - 1 :
        LET spikes == [p \in DOMAIN dag |-> IF dag[p].op \in {"conv", "dense"}
                                             THEN {o \in ids(dag, p) : o % k = r} ELSE {}]
            fired  == [i \in DOMAIN img |->
                         {x \in 0 .. img[i].neuron_count - 1 :
                            LET pl == net.placements[net.pes[i].node]
                            IN  local_to_global(pl, i - pl.start, x) \in spikes[net.pes[i].node]}]
            cur    == simulated_current(n, spikes)
        IN  \A i \in pes_of_node(net, n) :
              LET brought == on_chip_current(img, fired, i)
              IN  \A x \in DOMAIN brought :
                    brought[x] = cur[local_to_global(net.placements[n],
                                                     i - net.placements[n].start, x)]

(* The entries and tables that are written, as the simulator loads and decodes
   them, bring to every layer what the functional simulator computes from the
   same spikes through pools, reshapes and residual additions. *)
ChipComputesLayers ==
  phase = "written" => \A n \in driven : token_mean(n) \/ ComputesLayer(n)

(* The same of a layer behind the mean over the tokens, "through AvgPool(s) ->
   AVG (sum / window)" as _edge_terms of partition.py says. *)
MeanIsAverage ==
  phase = "written" => \A n \in driven : token_mean(n) => ComputesLayer(n)

-----------------------------------------------------------------------------
(* Runs. *)

(* Without rounding the functional simulator fires as the trained model does,
   neuron by neuron and timestep by timestep, whatever the channels' order,
   and adds up to the same logits. *)
ModelAgrees ==
  phase = "reference" /\ ~quantized =>
    /\ \A n \in DOMAIN history : \A T \in DOMAIN history[n] :
         {as_trained(n, o) : o \in history[n][T]} = sj[T].fired[n]
    /\ done = 0 =>
         \A o \in DOMAIN logits :
           logits[o] = MapThenSumSet(LAMBDA T : sj[T].logits[o], 1 .. timestep)

(* Which neurons of PE i stand for some of a layer's: main of run_e2e.py slices
   a token-wise layer by output and lays a slice out token by token. *)
sliced(n, i, spikes) ==
  LET pe    == net.pes[i]
      all   == tokens(dag[n])
      w_out == pe.neuron_count \div all
      o0    == pe.neuron_base \div all
  IN  {x \in 0 .. pe.neuron_count - 1 :
         IF Len(dag[n].shape) = 2
         THEN (x \div w_out) * dag[n].shape[2] + o0 + (x % w_out) \in spikes
         ELSE pe.neuron_base + x \in spikes}

(* The layers behind the first have no bias; the files carry none (funcsim.py:90). *)
Unbiased == \A n \in lifs(dag) \ {in_node(dag)} : Range(dag[n].bias) = {0}

(* The pipeline on the chip fires, depth - 1 timesteps late, as the functional
   simulator does, and the counts are those of the measured timesteps. *)
PipelineMatches ==
  phase = "chip" /\ Unbiased =>
    \A n \in lifs(dag) :
      LET late == node_depths(dag)[n] - 1
          fires(i, T) == IF T <= late THEN {} ELSE sliced(n, i, history[n][T - late])
      IN  \A i \in pes_of_node(net, n) :
            /\ t > 0 => soma[i].fired = fires(i, t)
            /\ t > Warmup =>
                 \A x \in DOMAIN counts[i] :
                   counts[i][x] = Cardinality({T \in Warmup + 1 .. t : x \in fires(i, T)})
=============================================================================
