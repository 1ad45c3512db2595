--------------------------- MODULE MCNetworkRunner ---------------------------
(***************************************************************************)
(* Small compiled networks for model-checking NetworkRunner.               *)
(***************************************************************************)
EXTENDS NetworkRunner, TLC

Root == [x |-> 0, y |-> 0]
OnMesh(f) == [f EXCEPT !.src = to_coord(@), !.dst = to_coord(@)]
MCFlit ==
  {OnMesh(f) : f \in SyncFlit} \cup
  UNION {UNION {{SpikeFlit(i, Targets[i][n][k], ts) : k \in DOMAIN Targets[i][n],
                                                      ts \in Timestep} :
                  n \in Neurons(i)} : i \in Pe}

(* Building blocks of images. *)
Once == [count |-> 1, src_stride |-> 0, go1_stride |-> 0, go2_stride |-> 0]
Along(count, go1, go2) ==
  [count |-> count, src_stride |-> 1, go1_stride |-> go1, go2_stride |-> go2]
Group(level, dst, id, delay, meta) ==
  [src_base |-> 0, go1_base |-> 0, go2_base |-> 0, levels |-> <<level, Once, Once>>,
   dst_pe |-> dst, dendrite_id |-> id, delay |-> delay, meta |-> meta]
FullyConnected(n) == [nlist |-> <<0>>, wlist |-> <<0>>, repeat |-> n,
                      local_off1 |-> 1, local_off2 |-> 1]
PeImage(n, dendrites, groups, weights) ==
  [neuron_count |-> n, neuron_base |-> 0, dendrites |-> dendrites,
   axon_groups |-> groups, weights |-> weights]
Weights(seq) == [k \in 0 .. Len(seq) - 1 |-> seq[k + 1]]

SumUp == 0
MaxOf(id) == 1 + 4 * id
AvgOf(id, n) == 2 + 4 * id + 256 * n

Frames(n, period, currents) == [1 .. period -> [0 .. n - 1 -> currents]]

(* PEs 1 and 2 send streams to the corner, where one flit is ejected per
   cycle.  A stream within the credits is injected at once, and the barrier is
   over long before it has arrived; a longer one holds the barrier up, and the
   longest longer than the watchdog allows. *)
Stream(k) == Group([Once EXCEPT !.count = k], 3, 0, 1, SumUp)
Silent == PeImage(1, 0 :> FullyConnected(1), << >>, Weights(<<1>>))
Streams ==
  0 :> Silent @@ 3 :> Silent
  @@ 1 :> PeImage(1, 0 :> FullyConnected(1), <<Stream(12)>>, Weights(<<0>>))
  @@ 2 :> PeImage(3, 0 :> FullyConnected(1),
                  <<Stream(24), [Stream(4) EXCEPT !.src_base = 1],
                    [Stream(40) EXCEPT !.src_base = 2]>>, Weights(<<0>>))

(* Two neurons, each with a strong and a weak synapse of delay 0 and one of
   delay 2 to three neurons that share two slots. *)
Sparse ==
  0 :> PeImage(2, 0 :> FullyConnected(1),
               <<Group(Along(2, 0, 1), 1, 0, 0, SumUp),
                 [Group(Along(2, 0, -1), 1, 1, 2, SumUp) EXCEPT !.go2_base = 2]>>, Weights(<<0>>))
  @@ 1 :> PeImage(3, 0 :> FullyConnected(2) @@ 1 :> [FullyConnected(1) EXCEPT !.wlist = <<2>>],
                  << >>, Weights(<<8, 2, 6>>))

(* A block of a transformer: attention of two tokens and two heads of one
   dimension, and a skip around it.  q (PE 0), k, the two slices of v, the
   matmul's own PE 4, the projection 5, and the join 6, which q reaches by a
   skip of delay 3 and the projection in one timestep, as two terms of one
   MaxPool window; the average of a slice of v joins them after two. *)
FromInput(n, groups) == PeImage(n, 0 :> FullyConnected(1), groups, Weights(<<0>>))
Block ==
  0 :> FromInput(4, <<Group(Along(4, 0, 0), 4, 0, 1, SumUp),
                      Group(Along(4, 0, 0), 6, 0, 3, MaxOf(1))>>)
  @@ 1 :> FromInput(4, <<Group(Along(4, 0, 0), 4, 0, 1, SumUp)>>)
  @@ 2 :> FromInput(2, <<Group(Along(2, 1, 0), 6, 1, 2, AvgOf(0, 2))>>)
  @@ 3 :> [FromInput(2, << >>) EXCEPT !.neuron_base = 2]
  @@ 4 :> PeImage(1, 0 :> FullyConnected(1), << >>, Weights(<<8>>))
  @@ 5 :> PeImage(2, 0 :> FullyConnected(1), <<Group(Along(2, 0, 0), 6, 0, 1, MaxOf(0))>>,
                  Weights(<<4, 8>>))
  @@ 6 :> PeImage(2, 0 :> FullyConnected(2) @@ 1 :> FullyConnected(2), << >>,
                  Weights(<<5, 3, 4>>))
BlockAttention ==
  <<[n_tok |-> 2, embed |-> 2, heads |-> 2, scale |-> 1, delay |-> 2,
     q_pes |-> {0}, k_pes |-> {1}, v_pes |-> {2, 3}, proj_pes |-> {5}]>>
MatmulPe == {4}

Current(n, firing) == [k \in 0 .. n - 1 |-> IF k \in firing THEN 8 ELSE 0]
BlockInput ==
  {0 :> <<Current(4, {0, 2}), Current(4, q)>> @@ 1 :> <<Current(4, {0, 1}), Current(4, {0, 3})>>
     @@ 2 :> <<Current(2, {1})>> @@ 3 :> <<Current(2, v)>> :
       q \in {{1}, {3}}, v \in {{0}, {1}}}
SparseInput == {(0 :> f) : f \in Frames(2, 3, {0, 8})}
StreamInput ==
  {1 :> <<Current(1, {0})>> @@ 2 :> <<Current(3, a), Current(3, b)>> :
     a, b \in {{}, {0}, {1}, {0, 1}, {2}}}
NoCoprocs == << >>
NoPe == {}
Never == 1000
Lowest == -1000
=============================================================================
