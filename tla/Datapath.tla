------------------------------ MODULE Datapath ------------------------------
(***************************************************************************)
(* The pure functions of a PE's datapath: the compressed axon table        *)
(* (sim/include/neurort/functional/axon_out.hpp), the decompression of     *)
(* synapses (dendrite.hpp) and the attention unit (attention_unit.hpp).    *)
(***************************************************************************)
EXTENDS Integers, Sequences

LOCAL INSTANCE SequencesExt

Sets == INSTANCE FiniteSetsExt

(* A group (AxonGroupImage of network_image.hpp) is a lattice of three nested
   levels, the first running fastest; every point of it is a source neuron and
   the offsets of the spike it sends. *)
group_total(g) == g.levels[1].count * g.levels[2].count * g.levels[3].count

(* The indices advance() has reached after flat calls. *)
index(g, flat) ==
  LET inner  == g.levels[1].count
      middle == g.levels[2].count
  IN  <<flat % inner, (flat \div inner) % middle, flat \div (inner * middle)>>

Point(base, idx, stride) ==
  base + idx[1] * stride[1] + idx[2] * stride[2] + idx[3] * stride[3]

Target(g, flat) ==
  LET idx == index(g, flat)
      level == g.levels
  IN  [src |-> Point(g.src_base, idx, [L \in 1 .. 3 |-> level[L].src_stride]),
       go1 |-> Point(g.go1_base, idx, [L \in 1 .. 3 |-> level[L].go1_stride]),
       go2 |-> Point(g.go2_base, idx, [L \in 1 .. 3 |-> level[L].go2_stride]),
       dst_pe |-> g.dst_pe, dendrite_id |-> g.dendrite_id,
       delay |-> g.delay, meta |-> g.meta]

GroupTargets(g) == [k \in 1 .. group_total(g) |-> Target(g, k - 1)]

(* The targets of neuron n, in the order of the table. *)
targets(groups, n) ==
  SelectSeq(FlattenSeq([k \in DOMAIN groups |-> GroupTargets(groups[k])]),
            LAMBDA target : target.src = n)

-----------------------------------------------------------------------------
(* Synapse decompression, Algorithm 1. *)
(* The synapses of a spike with offsets go1, go2 into dendrite d: for entry c
   of the base lists and repetition r, the neuron and the weight address. *)
decompress(d, go1, go2) ==
  [c \in DOMAIN d.nlist, r \in 0 .. d.repeat - 1 |->
     [neuron |-> d.nlist[c] + go2 + d.local_off1 * r,
      weight |-> d.wlist[c] + go1 + d.local_off2 * r]]

-----------------------------------------------------------------------------
(* Fused spiking self-attention of one timestep: q, k and v are the sets of
   pairs <<token, dimension>> that fired. *)
(* The output for a unit u, whose heads divide its embedding. *)
ssa_out(u, q, k, v) ==
  LET dh == u.embed \div u.heads
      head(e) == {x \in 0 .. u.embed - 1 : x \div dh = e \div dh}
      score(i, j, e) ==
        u.scale * Sets!Cardinality({d \in head(e) : <<i, d>> \in q /\ <<j, d>> \in k})
  IN  [x \in (0 .. u.n_tok - 1) \X (0 .. u.embed - 1) |->
         Sets!MapThenSumSet(LAMBDA j : score(x[1], j, x[2]),
                            {j \in 0 .. u.n_tok - 1 : <<j, x[2]>> \in v})]
=============================================================================
