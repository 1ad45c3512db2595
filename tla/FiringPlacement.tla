-------------------------- MODULE FiringPlacement --------------------------
(***************************************************************************)
(* Firing-rate-aware placement (mapping/firing_placement.py, applied by    *)
(* run_dnp_placement_e2e.py): the channels of every layer of a VGG are     *)
(* reordered within the blocks that share a PE, the most active first, so  *)
(* that dynamic pruning, which gives out slots in the order of the ids,    *)
(* keeps those.                                                            *)
(***************************************************************************)
EXTENDS Builders, Placement

LOCAL INSTANCE FiniteSetsExt
LOCAL INSTANCE SequencesExt
LOCAL INSTANCE TLC

weighted(m) == m.op \in {"conv", "dense"}

(* weight_modules: the layers with weights, in the order of the model. *)
weight_modules(model) == SelectSeq(model.features \o model.classifier, weighted)

(* The nodes whose spikes are compared: all layers but the last. *)
spiking_layers(d) ==
  LET analog_of == UNION {producers(d, n) : n \in of_op(d, {"output"})}
  IN  SelectSeq(topo(d), LAMBDA n : d[n].op \in {"conv", "dense"} /\ n \notin analog_of)

pixels(d, n) == IF Len(d[n].shape) = 3 THEN d[n].shape[2] * d[n].shape[3] ELSE 1

(* How many channels of a layer each of its PEs holds. *)
block_sizes(d, n) ==
  LET sizes(pes, px) == [b \in DOMAIN pes |-> pes[b].neuron_count \div px]
  IN  sizes(partition_node(d, n), pixels(d, n))

(* The channels of a block of positions, the most active first.  Channels that
   fire alike may be in any order. *)
by_firing(firing, block) ==
  {perm \in Permutations(block) :
     \A c \in block : c + 1 \in block => firing[perm[c]] >= firing[perm[c + 1]]}

(* faulty: the channels are ordered across the PEs. *)
channel_perm_across(firing, sizes) ==
  by_firing(firing, 0 .. MapThenSumSet(LAMBDA i : sizes[i], DOMAIN sizes) - 1)

(* channel_perm: new positions to old channels, by firing within each block. *)
channel_perm(firing, sizes) ==
  LET first(b) == MapThenSumSet(LAMBDA i : sizes[i], 1 .. b - 1)
  IN  FoldSet(LAMBDA b, perms :
                {p @@ q : p \in perms,
                          q \in by_firing(firing, first(b) .. first(b) + sizes[b] - 1)},
              {<< >>}, DOMAIN sizes)

permute_out(m, perm) ==
  LET row == Cardinality(DOMAIN m.weight) \div m.wshape[1]
  IN  [m EXCEPT !.weight = [k \in DOMAIN @ |-> @[perm[k \div row] * row + (k % row)]],
                !.bias   = [c \in DOMAIN @ |-> @[perm[c]]]]

(* faulty: the inputs stay. *)
permute_in_not(m, perm) == m

permute_in(m, perm) ==
  LET row   == Cardinality(DOMAIN m.weight) \div m.wshape[1]
      taps  == row \div m.wshape[2]
      moved(k) == perm[(k % row) \div taps] * taps + (k % taps)
  IN  [m EXCEPT !.weight = [k \in DOMAIN @ |-> @[(k \div row) * row + moved(k)]]]

(* apply_firing_placement: perms[i] moves the outputs of layer i and with
   them the inputs of layer i + 1; the last layer's outputs stay. *)
apply_firing_placement(model, perms) ==
  LET all == model.features \o model.classifier
      moved(j) ==
        LET i == Len(SelectSeq(SubSeq(all, 1, j), weighted))
            m == IF i > Len(perms) THEN all[j] ELSE permute_out(all[j], perms[i])
        IN  IF ~weighted(all[j]) THEN all[j]
            ELSE IF i = 1 THEN m ELSE permute_in(m, perms[i - 1])
      n == Len(model.features)
  IN  [model EXCEPT !.features   = [j \in DOMAIN @ |-> moved(j)],
                    !.classifier = [j \in DOMAIN @ |-> moved(n + j)]]

-----------------------------------------------------------------------------
(* build_masks (run_dnp_placement_test.py): the neurons of a layer that keep
   a slot at ratio num / den, from how often each fires: the first of every
   PE, the most active of every PE, or those of its most active channels.
   Of equals any may be kept. *)
top(S, rate, k) ==
  {T \in kSubset(k, S) : \A a \in T, b \in S \ T : rate[a] >= rate[b]}

build_masks(d, mapped, n, fr, num, den, policy) ==
  LET hw == pixels(d, n)
      kept(pe) ==
        LET lo  == pe.neuron_base
            nch == pe.neuron_count \div hw
            c0  == lo \div hw
            crate == [c \in c0 .. c0 + nch - 1 |->
                        MapThenSumSet(LAMBDA p : fr[c * hw + p], 0 .. hw - 1)]
            k == (num * pe.neuron_count) \div den
        IN  CASE policy = "id"  -> {lo .. lo + k - 1}
              [] policy = "act" -> top(lo .. lo + pe.neuron_count - 1, fr, k)
              [] policy = "chan" ->
                   {UNION {c * hw .. (c + 1) * hw - 1 : c \in C} :
                      C \in top(DOMAIN crate, crate, (num * nch) \div den)}
  IN  [i \in pes_of_node(mapped, n) |-> kept(mapped.pes[i])]
=============================================================================
