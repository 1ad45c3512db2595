----------------------------- MODULE Placement -----------------------------
(***************************************************************************)
(* The neurons of a graph are split over PEs (partition_dag, locate and    *)
(* validate of frontend/neurort_compiler/mapping/partition.py).            *)
(***************************************************************************)
EXTENDS Dag, Synapse

CONSTANTS
  SRAM_BYTES,    \* memory of a PE: weights, and two bytes per neuron
  NUM_PE, MESH_W,
  COUNT_MAX,     \* entries of a dendrite
  DENDRITE_MAX   \* dendrites of a PE

LOCAL INSTANCE FiniteSetsExt
LOCAL INSTANCE SequencesExt

ASSUME PlacementAssumption ==
  {SRAM_BYTES, NUM_PE, MESH_W, COUNT_MAX, DENDRITE_MAX} \subseteq Nat \ {0}

SOURCE_OPS == {"conv", "dense", "matmul_qk", "matmul_av"}

producer(d, n) == d[n].inputs[1]

(* The geometry of a convolution, whose input is its producer's map. *)
geom(d, n) ==
  LET node == d[n]
      chw  == d[producer(d, n)].shape
  IN  [f |-> node.wshape[1], c |-> node.wshape[2], k |-> node.wshape[3],
       h |-> chw[2], w |-> chw[3], stride |-> node.stride[1], pad |-> node.padding[1]]

tokens(node) == IF Len(node.shape) = 2 THEN node.shape[1] ELSE 1

(* What partition_dag raises an exception for. *)
Unplaceable(d, n) ==
  LET node == d[n]
  IN  \/ /\ node.op = "conv"
         /\ \/ node.stride[1] # node.stride[2] \/ node.padding[1] # node.padding[2]
            \/ node.groups # 1 \/ node.dilation # <<1, 1>>
            \/ Len(d[producer(d, n)].shape) # 3
            \/ node.shape # <<geom(d, n).f, Ho(geom(d, n)), Wo(geom(d, n))>>
      \/ node.op = "matmul_av" /\ 1 + 2 * num_neurons(node) > SRAM_BYTES

-----------------------------------------------------------------------------
(* How many maps, outputs or heads fit into a PE. *)
conv_maps_per_pe(g) ==
  Max({1, SRAM_BYTES \div (g.c * g.k * g.k + 2 * Ho(g) * Wo(g))})
dense_neurons_per_pe(fan_in, n_tokens) ==
  Max({1, SRAM_BYTES \div (fan_in + 2 * n_tokens)})
heads_per_pe(nn) == Max({1, (SRAM_BYTES - 1) \div (2 * nn)})

(* A placement: `all' parts of `size' neurons each, `per' of them to a PE; the
   neurons of a token-wise layer are interleaved, part by part. *)
conv_shape(g) == [all |-> g.f, size |-> Ho(g) * Wo(g), per |-> conv_maps_per_pe(g)]
shape_of(d, n) ==
  LET node == d[n]
  IN  CASE node.op = "conv"  -> conv_shape(geom(d, n))
        [] node.op = "dense" ->
             [all |-> node.wshape[1], size |-> tokens(node),
              per |-> dense_neurons_per_pe(node.wshape[2], tokens(node))]
        [] node.op = "matmul_qk" ->
             [all |-> node.shape[1], size |-> node.shape[2] * node.shape[2],
              per |-> heads_per_pe(node.shape[2] * node.shape[2])]
        [] node.op = "matmul_av" -> [all |-> 1, size |-> num_neurons(node), per |-> 1]

slice(w, first, size) == [i \in 0 .. size - 1 |-> w[first + i]]

(* faulty: every fan walks neighbouring neurons. *)
fan_adjacent(off, repeat) ==
  [nlist |-> <<0>>, wlist |-> <<0>>, repeat |-> repeat, local_off1 |-> 1, local_off2 |-> 0]

fan(off, repeat) ==
  [nlist |-> <<0>>, wlist |-> <<0>>, repeat |-> repeat, local_off1 |-> off, local_off2 |-> 0]

(* The tables of a PE that holds `some' parts of a node from `first' on.  The
   fan dendrites of a matmul only say which neurons an operand reaches. *)
compress_node(d, n, size, first, some) ==
  LET node == d[n]
      row  == IF node.op \in {"conv", "dense"}
              THEN Cardinality(DOMAIN node.weight) \div node.wshape[1] ELSE 0
      rows == slice(node.weight, first * row, some * row)
      fans(off1, repeat1, off2, repeat2) ==
        [dendrites |-> [id \in {0, 1} |-> IF id = 0 THEN fan(off1, repeat1)
                                                    ELSE fan(off2, repeat2)],
         spikes |-> << >>, weights |-> [i \in {0} |-> 1],
         num_post |-> some * size]
  IN  CASE node.op = "conv"  -> compress_conv([geom(d, n) EXCEPT !.f = some], rows)
        [] node.op = "dense" -> compress_dense(some, row, tokens(node), rows)
        [] node.op = "matmul_qk" -> fans(1, node.shape[2], node.shape[2], node.shape[2])
        [] node.op = "matmul_av" -> fans(1, node.shape[2] \div node.heads,
                                         node.shape[2], node.shape[1])

pe_image(d, n, base, cl) ==
  [node |-> n, kind |-> d[n].op, neuron_base |-> base, neuron_count |-> cl.num_post,
   dendrites |-> cl.dendrites, spikes |-> cl.spikes, weights |-> cl.weights]
split(d, n, s) ==
  LET pe(first) ==
        pe_image(d, n, first * s.size,
                 compress_node(d, n, s.size, first, Min({s.per, s.all - first})))
  IN  [b \in 1 .. (s.all + s.per - 1) \div s.per |-> pe((b - 1) * s.per)]
partition_node(d, n) == split(d, n, shape_of(d, n))

(* The PEs, numbered from 0, and where each node is. *)
numbered(d, placed, parts, pes) ==
  LET before(k) == Len(FlattenSeq(SubSeq(parts, 1, k - 1)))
      at(n)  == CHOOSE k \in DOMAIN placed : placed[k] = n
  IN  [pes |-> [i \in 0 .. Len(pes) - 1 |-> pes[i + 1]],
       placements |-> [n \in Range(placed) |->
         [kind |-> d[n].op, start |-> before(at(n)), num |-> Len(parts[at(n)])]
           @@ shape_of(d, n)]]
split_all(d, placed, parts) == numbered(d, placed, parts, FlattenSeq(parts))
partition_nodes(d, placed) ==
  split_all(d, placed, [k \in DOMAIN placed |-> partition_node(d, placed[k])])

(* partition_dag: in the order of the nodes. *)
partition_dag(d, nodes) ==
  partition_nodes(d, SelectSeq(nodes, LAMBDA n : d[n].op \in SOURCE_OPS))

-----------------------------------------------------------------------------
pes_of_node(mapped, n) ==
  {i \in DOMAIN mapped.pes : mapped.pes[i].node = n}

(* The PE that holds a neuron of a node, and its number there. *)
locate(pl, gid) ==
  IF pl.kind = "dense"
  THEN LET token == gid \div pl.all
           o == gid % pl.all
           b == o \div pl.per
           width == Min({pl.per, pl.all - b * pl.per})
       IN  <<pl.start + b, token * width + o - b * pl.per>>
  ELSE LET b == (gid \div pl.size) \div pl.per
       IN  <<pl.start + b, gid - b * pl.per * pl.size>>

(* The inverse; for a matmul, which the code has no use for, by the rule of a
   convolution. *)
local_to_global(pl, b, local) ==
  IF pl.kind = "dense"
  THEN LET width == Min({pl.per, pl.all - b * pl.per})
       IN  (local \div width) * pl.all + b * pl.per + (local % width)
  ELSE b * pl.per * pl.size + local

(* The synapses the PEs of a node encode, by the node's own neuron ids. *)
reconstruct_node(mapped, n) ==
  LET pl == mapped.placements[n]
  IN  UNION {{<<local_to_global(pl, i - pl.start, s[1]), s[2], s[3]>> :
                s \in reconstruct(mapped.pes[i])} : i \in pes_of_node(mapped, n)}

budget_bytes(pe) == Cardinality(DOMAIN pe.weights) + 2 * pe.neuron_count

(* validate: whether it lists no violation. *)
Fits(mapped) ==
  /\ Cardinality(DOMAIN mapped.pes) <= NUM_PE
  /\ \A i \in DOMAIN mapped.pes :
       LET pe == mapped.pes[i]
       IN  /\ budget_bytes(pe) <= SRAM_BYTES
           /\ Cardinality(DOMAIN pe.dendrites) <= DENDRITE_MAX
           /\ \A id \in DOMAIN pe.dendrites : Len(pe.dendrites[id].nlist) <= COUNT_MAX
=============================================================================
