------------------------------ MODULE FuncSim ------------------------------
(***************************************************************************)
(* The functional simulator (frontend/neurort_compiler/funcsim.py): the    *)
(* network run layer by layer, all of them in every timestep, with the     *)
(* weights that the PEs hold.  A spike is Unit, so that averages are whole *)
(* numbers; currents and potentials are 127ths of the weights' unit.       *)
(***************************************************************************)
EXTENDS Export, Lif

CONSTANTS Unit, Timesteps

ASSUME FuncSimAssumption == Unit \in Nat \ {0} /\ Timesteps \in Nat

LOCAL INSTANCE FiniteSetsExt
LOCAL INSTANCE SequencesExt

VARIABLES
  timestep, \* timesteps run
  done,    \* the nodes done in this one, of the order
  act,     \* their activations
  membranes, \* the potentials of the layers that spike
  history, \* for each of them the neurons that fired, timestep by timestep
  logits   \* the sum of the last layer's activations

simVars == <<timestep, done, act, membranes, history, logits>>

(* faulty: quantized as a whole. *)
reassemble_whole(d, mapped, n, quantize) ==
  LET q == quantize_int8(d[n].weight)
  IN  [k \in DOMAIN d[n].weight |-> IF quantize THEN q.q[k] * q.scale ELSE 127 * d[n].weight[k]]

(* A node's weight as its PEs hold it; as the simulator has it when each PE's
   is quantized. *)
reassemble_weight(d, mapped, n, quantize) ==
  LET pl  == mapped.placements[n]
      row == Cardinality(DOMAIN d[n].weight) \div d[n].wshape[1]
      per == pl.per * row
      held_by == [i \in pes_of_node(mapped, n) |->
                    LET w == mapped.pes[i].weights
                        q == quantize_int8(w)
                    IN  [k \in DOMAIN w |-> IF quantize THEN q.q[k] * q.scale ELSE 127 * w[k]]]
  IN  [k \in DOMAIN d[n].weight |-> held_by[pl.start + k \div per][k % per]]

conv2d(g, w, x) ==
  LET map == Ho(g) * Wo(g)
      taps(oh, ow) ==
        {<<c, kh, kw>> \in (0 .. g.c - 1) \X (0 .. g.k - 1) \X (0 .. g.k - 1) :
           /\ oh * g.stride - g.pad + kh \in 0 .. g.h - 1
           /\ ow * g.stride - g.pad + kw \in 0 .. g.w - 1}
      at(f, oh, ow) ==
        MapThenSumSet(
          LAMBDA a : w[((f * g.c + a[1]) * g.k + a[2]) * g.k + a[3]]
                       * x[(a[1] * g.h + oh * g.stride - g.pad + a[2]) * g.w
                             + ow * g.stride - g.pad + a[3]],
          taps(oh, ow))
  IN  [o \in 0 .. g.f * map - 1 |-> at(o \div map, (o % map) \div Wo(g), o % Wo(g)) \div Unit]

linear(ins, outs, n_tokens, w, x) ==
  [o \in 0 .. n_tokens * outs - 1 |->
     MapThenSumSet(LAMBDA i : w[(o % outs) * ins + i] * x[(o \div outs) * ins + i],
                   0 .. ins - 1) \div Unit]

(* The current into a layer, before its bias. *)
current(d, n, w, x) ==
  IF d[n].op = "conv" THEN conv2d(geom(d, n), w, x)
  ELSE linear(d[n].wshape[2], d[n].wshape[1], tokens(d[n]), w, x)

biased(d, n, cur) ==
  [o \in DOMAIN cur |->
     cur[o] + 127 * d[n].bias[IF d[n].op = "conv"
                              THEN o \div (d[n].shape[2] * d[n].shape[3])
                              ELSE o % d[n].wshape[1]]]

(* A pool: the inputs its output o covers, their largest or their average. *)
pool(shape, node, x) ==
  LET in == shape[2] * shape[3]
      out == node.shape[2] * node.shape[3]
      covers(a, b, axis) ==
        IF node.pool_type = "adaptive"
        THEN /\ a * node.shape[axis + 1] < (b + 1) * shape[axis + 1]
             /\ (a + 1) * node.shape[axis + 1] > b * shape[axis + 1]
        ELSE /\ a >= b * node.stride[axis] - node.padding[axis]
             /\ a < b * node.stride[axis] - node.padding[axis] + node.kernel[axis]
      window(o) ==
        {i \in DOMAIN x : /\ i \div in = o \div out
                          /\ covers((i % in) \div shape[3], (o % out) \div node.shape[3], 1)
                          /\ covers(i % shape[3], o % node.shape[3], 2)}
      area(o) == IF node.pool_type = "adaptive" THEN Cardinality(window(o))
                 ELSE node.kernel[1] * node.kernel[2]
  IN  [o \in 0 .. num_neurons(node) - 1 |->
         IF node.pool_type = "MaxPool2d" THEN Max({x[i] : i \in window(o)})
         ELSE MapThenSumSet(LAMBDA i : x[i], window(o)) \div area(o)]

(* What a node without weights makes of its producers' activations. *)
relay(d, n, a) ==
  LET node  == d[n]
      shape == d[producer(d, n)].shape
      x     == a[producer(d, n)]
  IN  CASE node.op = "add" ->
             [o \in DOMAIN x |-> FoldLeft(LAMBDA sum, p : sum + a[p][o], 0, node.inputs)]
        [] node.op = "reshape" ->
             [o \in DOMAIN x |-> x[(o % shape[1]) * shape[2] * shape[3] + o \div shape[1]]]
        [] node.op = "pool" ->
             IF node.pool_type = "token_mean"
             THEN [o \in 0 .. shape[2] - 1 |->
                     MapThenSumSet(LAMBDA tok : x[tok * shape[2] + o], 0 .. shape[1] - 1)
                       \div shape[1]]
             ELSE pool(shape, node, x)
        [] node.op = "output" -> x

matmul(d, n, a) ==
  LET node  == d[n]
      x     == a[node.inputs[1]]
      y     == a[node.inputs[2]]
      ntok  == d[node.inputs[2]].shape[1]
      embed == d[node.inputs[2]].shape[2]
      dh    == embed \div node.heads
      score(h, i, j) ==
        node.scale * MapThenSumSet(LAMBDA e : x[i * embed + h * dh + e] * y[j * embed + h * dh + e],
                                   0 .. dh - 1)
      mixed(i, e) ==
        MapThenSumSet(LAMBDA j : x[((e \div dh) * ntok + i) * ntok + j] * y[j * embed + e],
                      0 .. ntok - 1)
  IN  [o \in ids(d, n) |->
         (IF node.op = "matmul_qk"
          THEN score(o \div (ntok * ntok), (o \div ntok) % ntok, o % ntok)
          ELSE mixed(o \div embed, o % embed)) \div Unit]

-----------------------------------------------------------------------------
(* The synapses of one input neuron of a convolution, counted out directly. *)
conv_synapses_for_pre(g, weight, pre) ==
  LET c   == pre \div (g.h * g.w)
      pos == pre % (g.h * g.w)
      oh(kh) == pos \div g.w + g.pad - kh
      ow(kw) == (pos % g.w) + g.pad - kw
  IN  {<<(tap[1] * Ho(g) + oh(tap[2]) \div g.stride) * Wo(g) + ow(tap[3]) \div g.stride,
         weight[((tap[1] * g.c + c) * g.k + tap[2]) * g.k + tap[3]]>> :
           tap \in {x \in (0 .. g.f - 1) \X (0 .. g.k - 1) \X (0 .. g.k - 1) :
                     /\ oh(x[2]) % g.stride = 0 /\ oh(x[2]) \div g.stride \in 0 .. Ho(g) - 1
                     /\ ow(x[3]) % g.stride = 0 /\ ow(x[3]) \div g.stride \in 0 .. Wo(g) - 1}}

(* Each spike of each PE reaches those of them that are in the PE. *)
decompress_matches_conv(d, mapped, n) ==
  LET pl == mapped.placements[n]
  IN  \A i \in pes_of_node(mapped, n) :
        LET pe == mapped.pes[i]
            global(local) == local_to_global(pl, i - pl.start, local)
        IN  \A pre \in DOMAIN pe.spikes :
              {<<global(x[1]), x[2]>> : x \in decompress_spike(pe, pe.spikes[pre])}
                = {y \in conv_synapses_for_pre(geom(d, n), d[n].weight, pre) :
                     y[1] \in global(0) .. global(pe.neuron_count - 1)}

-----------------------------------------------------------------------------
analog(d) == UNION {producers(d, n) : n \in of_op(d, {"output"})}
lifs(d) == of_op(d, {"conv", "dense"}) \ analog(d)

SimInit ==
  /\ timestep = 0 /\ done = 0 /\ act = << >>
  /\ membranes = << >> /\ history = << >> /\ logits = << >>

(* nrt_forward, up to its loop over the timesteps. *)
SimStart(d) ==
  /\ membranes' = [n \in lifs(d) |-> [o \in ids(d, n) |-> 0]]
  /\ history' = [n \in lifs(d) |-> << >>]
  /\ logits' = [o \in UNION {ids(d, n) : n \in analog(d)} |-> 0]
  /\ UNCHANGED <<timestep, done, act>>

all_weights(d, mapped, quantize) ==
  [n \in of_op(d, {"conv", "dense"}) |-> reassemble_weight(d, mapped, n, quantize)]

spike_map(spikes, neurons) == [o \in neurons |-> IF o \in spikes THEN Unit ELSE 0]

(* Lif.step. *)
LifStep(potential, x) ==
  LET charged == [o \in DOMAIN x |-> potential[o] + (x[o] - potential[o]) \div Tau]
      spikes  == {o \in DOMAIN x : charged[o] >= VThreshold}
  IN  [spikes |-> spikes,
       v      |-> [o \in DOMAIN x |-> IF o \in spikes THEN 0 ELSE charged[o]]]

(* A layer takes its current: the last one adds it up, another one fires. *)
Layer(d, n, w) ==
  \E cur \in {biased(d, n, current(d, n, w, act[producer(d, n)]))} :
    IF n \in analog(d)
    THEN /\ act' = act @@ (n :> cur)
         /\ logits' = [o \in DOMAIN logits |-> logits[o] + cur[o]]
         /\ UNCHANGED <<membranes, history>>
    ELSE /\ \E lif \in {LifStep(membranes[n], cur)} :
              /\ act' = act @@ (n :> spike_map(lif.spikes, DOMAIN cur))
              /\ membranes' = [membranes EXCEPT ![n] = lif.v]
              /\ history' = [history EXCEPT ![n] = Append(@, lif.spikes)]
         /\ UNCHANGED logits

(* What a node without neurons that fire makes of its producers' activations. *)
activation(d, n, image, a) ==
  IF d[n].op = "input" THEN image
  ELSE IF d[n].op \in {"matmul_qk", "matmul_av"} THEN matmul(d, n, a)
  ELSE relay(d, n, a)

(* The next node of a timestep. *)
Forward(d, nodes, weights, image) ==
  /\ timestep < Timesteps /\ done < Len(nodes)
  /\ done' = done + 1
  /\ LET n == nodes[done + 1]
     IN  IF d[n].op \in {"conv", "dense"} THEN Layer(d, n, weights[n])
         ELSE /\ act' = act @@ (n :> activation(d, n, image, act))
              /\ UNCHANGED <<membranes, history, logits>>
  /\ UNCHANGED timestep

NextTimestep(nodes) ==
  /\ timestep < Timesteps /\ done = Len(nodes)
  /\ timestep' = timestep + 1 /\ done' = 0 /\ act' = << >>
  /\ UNCHANGED <<membranes, history, logits>>
=============================================================================
