------------------------------ MODULE Routing ------------------------------
(***************************************************************************)
(* Where the spikes of every neuron go (mapping/dag_route.py, route_dag of *)
(* mapping/partition.py).  Pools, reshapes and adds have no neurons of     *)
(* their own: a layer's inputs are traced back through them to the neurons *)
(* of other layers.  A list of the code is a sequence where it may repeat  *)
(* an element, and a set where it may not.                                 *)
(***************************************************************************)
EXTENDS Placement

LOCAL INSTANCE FiniteSetsExt
LOCAL INSTANCE SequencesExt

RELAY_OPS == {"pool", "reshape", "add"}
SUM == 0
MAX == 1
AVG == 2

ids(d, n) == 0 .. num_neurons(d[n]) - 1

pool_preimage(shape, node, oid) ==
  LET size   == node.shape[2] * node.shape[3]
      span(o, axis) ==
        LET in  == shape[axis + 1]
            out == node.shape[axis + 1]
        IN  IF node.pool_type = "adaptive"
            THEN (o * in) \div out .. -((-(o + 1) * in) \div out) - 1
            ELSE {x \in 0 .. in - 1 :
                    x - o * node.stride[axis] + node.padding[axis] \in 0 .. node.kernel[axis] - 1}
  IN  {((oid \div size) * shape[2] + h) * shape[3] + w :
         h \in span((oid % size) \div node.shape[3], 1),
         w \in span((oid % size) % node.shape[3], 2)}

(* The pairs <<node, neuron>> that feed a neuron of a relay. *)
edge_preimage(d, n, oid) ==
  LET node  == d[n]
      of(S) == [i \in 1 .. Cardinality(S) |-> <<producer(d, n), sorted(S, <)[i]>>]
      shape == d[producer(d, n)].shape
  IN  CASE node.op = "add" -> [i \in DOMAIN node.inputs |-> <<node.inputs[i], oid>>]
        [] node.op = "reshape" ->
             LET embed == node.from[1]
             IN  of({(oid % embed) * node.from[2] * node.from[3] + oid \div embed})
        [] node.op = "pool" ->
             of(IF node.pool_type = "token_mean"
                THEN {token * shape[2] + oid : token \in 0 .. shape[1] - 1}
                ELSE pool_preimage(shape, node, oid))

(* The neurons of layers, or of the input, behind a neuron of any node. *)
sources(d) ==
  LET behind[x \in UNION {{n} \X ids(d, n) : n \in DOMAIN d}] ==
        IF d[x[1]].op \notin RELAY_OPS THEN <<x>>
        ELSE LET fed == edge_preimage(d, x[1], x[2])
             IN  FlattenSeq([i \in DOMAIN fed |-> behind[fed[i]]])
  IN  behind

(* The operand neurons that matter to an output of a matmul. *)
matmul_preimage(d, n, oid) ==
  LET node  == d[n]
      shape == node.shape
      op1   == node.inputs[1]
      op2   == node.inputs[2]
      dh    == d[op2].shape[2] \div node.heads
      embed == d[op2].shape[2]
      ntok  == d[op2].shape[1]
  IN  IF node.op = "matmul_qk"
      THEN LET h == oid \div (ntok * ntok)
               i == (oid \div ntok) % ntok
           IN  {<<op1, i * embed + h * dh + e>> : e \in 0 .. dh - 1}
                 \cup {<<op2, (oid % ntok) * embed + h * dh + e>> : e \in 0 .. dh - 1}
      ELSE LET i == oid \div embed
               e == oid % embed
           IN  {<<op1, (e \div dh) * ntok * ntok + i * ntok + j>> : j \in 0 .. ntok - 1}
                 \cup {<<op2, j * embed + e>> : j \in 0 .. ntok - 1}

-----------------------------------------------------------------------------
pack_meta(term_id, combine, avg_n) ==
  Min({avg_n, 255}) * 256 + (term_id % 64) * 4 + combine

(* faulty: a pool is taken for a sum. *)
averaged_never(shape, node) == 1

(* How many inputs an average takes, from the sizes of the two maps; a shape
   that is not a map counts as one neuron. *)
averaged(shape, node) ==
  LET area(s) == IF Len(s) = 3 THEN s[2] * s[3] ELSE 1
  IN  Max({1, area(shape) \div Max({1, area(node.shape)})})

(* How a layer folds what arrives from each source: the terms are the sources
   in order, and of several paths from one source the last decides. *)
edge_terms(d, n) ==
  LET walk[x \in (DOMAIN d) \X BOOLEAN \X Nat] ==
        LET via(p) ==
              IF d[p].op \in SOURCE_OPS
              THEN <<[src |-> p, avg_n |-> x[3],
                      combine |-> IF x[2] THEN MAX ELSE IF x[3] > 1 THEN AVG ELSE SUM]>>
              ELSE IF d[p].op = "pool"
              THEN IF d[p].pool_type = "MaxPool2d" THEN walk[<<p, TRUE, x[3]>>]
                   ELSE walk[<<p, x[2], x[3] * averaged(d[producer(d, p)].shape, d[p])>>]
              ELSE IF d[p].op \in {"reshape", "add"} THEN walk[<<p, x[2], x[3]>>]
              ELSE << >>
        IN  FlattenSeq([i \in DOMAIN d[x[1]].inputs |-> via(d[x[1]].inputs[i])])
      found == walk[<<n, FALSE, 1>>]
      srcs  == {found[i].src : i \in DOMAIN found}
      last(s) == found[Max({i \in DOMAIN found : found[i].src = s})]
  IN  [s \in srcs |-> pack_meta(Cardinality({r \in srcs : r < s}),
                                last(s).combine, last(s).avg_n)]

source_nodes(d, n) ==
  LET behind[m \in DOMAIN d] ==
        {p \in producers(d, m) : d[p].op \in SOURCE_OPS}
          \cup UNION {behind[p] : p \in {q \in producers(d, m) : d[q].op \in RELAY_OPS}}
  IN  behind[n]

(* The layers on the longest path from the input, up to each layer. *)
node_depths(d) ==
  LET depth[n \in of_op(d, SOURCE_OPS)] == 1 + Max({0} \cup {depth[s] : s \in source_nodes(d, n)})
  IN  depth

-----------------------------------------------------------------------------
(* faulty: a spike that skips layers does not wait for them. *)
entry_undelayed(mapped, src, dst_pe, id, go1, go2, delay, meta, copy) ==
  LET at == locate(mapped.placements[src[1]], src[2])
  IN  [pe |-> at[1], src |-> at[2], dst_pe |-> dst_pe, dendrite_id |-> id,
       go1 |-> go1, go2 |-> go2, delay |-> 1, meta |-> meta, copy |-> copy]

(* A spike entry, on the PE and the neuron that send it; `copy' tells the
   entries of a list apart. *)
entry(mapped, src, dst_pe, id, go1, go2, delay, meta, copy) ==
  LET at == locate(mapped.placements[src[1]], src[2])
  IN  [pe |-> at[1], src |-> at[2], dst_pe |-> dst_pe, dendrite_id |-> id,
       go1 |-> go1, go2 |-> go2, delay |-> delay, meta |-> meta, copy |-> copy]

(* A conv or dense layer: each input spike of its PEs, from its sources. *)
route_layer(d, mapped, depths, traced, n) ==
  LET terms   == edge_terms(d, n)
      from(pre) == SelectSeq(traced[<<producer(d, n), pre>>],
                             LAMBDA x : d[x[1]].op # "input")
      sent(i, pre) ==
        LET s    == mapped.pes[i].spikes[pre]
            list == from(pre)
        IN  {entry(mapped, list[k], i, s.dendrite_id, s.go1, s.go2,
                   depths[n] - depths[list[k][1]], terms[list[k][1]], k) :
               k \in DOMAIN list}
  IN  UNION {UNION {sent(i, pre) : pre \in DOMAIN mapped.pes[i].spikes} :
               i \in pes_of_node(mapped, n)}

(* The fan of an operand p of a matmul: neuron g reaches, on dendrite id, the
   outputs that its fan dendrite lists from neuron first[g] on. *)
route_operand(d, mapped, depths, n, p, id, first) ==
  {LET at == locate(mapped.placements[n], first[g])
   IN  entry(mapped, <<p, g>>, at[1], id, 0, at[2], depths[n] - depths[p], 0, 1) :
     g \in DOMAIN first}

route_qk(d, mapped, depths, n) ==
  LET ntok  == d[n].shape[2]
      embed == d[d[n].inputs[1]].shape[2]
      head(g) == ((g % embed) \div (embed \div d[n].shape[1])) * ntok * ntok
      q == [g \in ids(d, d[n].inputs[1]) |-> head(g) + (g \div embed) * ntok]
      k == [g \in ids(d, d[n].inputs[2]) |-> head(g) + g \div embed]
  IN  route_operand(d, mapped, depths, n, d[n].inputs[1], 0, q)
        \cup route_operand(d, mapped, depths, n, d[n].inputs[2], 1, k)

route_av(d, mapped, depths, n) ==
  LET ntok  == d[n].shape[1]
      embed == d[n].shape[2]
      qk == [g \in ids(d, d[n].inputs[1]) |->
               ((g \div ntok) % ntok) * embed
                 + (g \div (ntok * ntok)) * (embed \div d[n].heads)]
      value == [g \in ids(d, d[n].inputs[2]) |-> g % embed]
  IN  route_operand(d, mapped, depths, n, d[n].inputs[1], 0, qk)
        \cup route_operand(d, mapped, depths, n, d[n].inputs[2], 1, value)

(* A matmul whose operand is a relay has no placement to look up. *)
Unroutable(d, n) ==
  d[n].op \in {"matmul_qk", "matmul_av"} /\ ~ \A p \in producers(d, n) : d[p].op \in SOURCE_OPS

(* The axon entries of every PE. *)
route_dag(d, mapped) ==
  LET routed(n, depths, traced) ==
        CASE d[n].op \in {"conv", "dense"} -> route_layer(d, mapped, depths, traced, n)
          [] d[n].op = "matmul_qk" -> route_qk(d, mapped, depths, n)
          [] d[n].op = "matmul_av" -> route_av(d, mapped, depths, n)
      all == UNION {UNION {routed(n, x[1], x[2]) : n \in DOMAIN mapped.placements} :
                      x \in {<<node_depths(d), sources(d)>>}}
  IN  [i \in DOMAIN mapped.pes |-> {a \in all : a.pe = i}]
=============================================================================
