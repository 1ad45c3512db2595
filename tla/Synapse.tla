------------------------------ MODULE Synapse ------------------------------
(***************************************************************************)
(* Connectivity of a layer and its compression into dendrites and spikes   *)
(* (frontend/neurort_compiler/synapse).  A weight tensor is a shape and a  *)
(* function on its flat indices.  A synapse is a triple <<post, pre,       *)
(* weight>> of flat neuron ids and a weight.                               *)
(***************************************************************************)
EXTENDS Datapath

LOCAL INSTANCE FiniteSetsExt
LOCAL INSTANCE SequencesExt
LOCAL INSTANCE TLC

sorted(S, before(_, _)) ==
  SortSeq(FoldSet(LAMBDA x, seq : Append(seq, x), << >>, S), before)

conv_out(size, k, stride, pad) == (size + 2 * pad - k) \div stride + 1

(* A convolution: f filters of c channels and k x k taps over h x w. *)
Ho(g) == conv_out(g.h, g.k, g.stride, g.pad)
Wo(g) == conv_out(g.w, g.k, g.stride, g.pad)

enumerate_conv(g, weight) ==
  {<<(f * Ho(g) + oh) * Wo(g) + ow,
     (c * g.h + oh * g.stride - g.pad + kh) * g.w + ow * g.stride - g.pad + kw,
     weight[((f * g.c + c) * g.k + kh) * g.k + kw]>> :
       <<f, c, kh, kw, oh, ow>> \in
         {x \in (0 .. g.f - 1) \X (0 .. g.c - 1) \X (0 .. g.k - 1) \X (0 .. g.k - 1)
                  \X (0 .. Ho(g) - 1) \X (0 .. Wo(g) - 1) :
            /\ x[5] * g.stride - g.pad + x[3] \in 0 .. g.h - 1
            /\ x[6] * g.stride - g.pad + x[4] \in 0 .. g.w - 1}}

enumerate_dense(outs, ins, weight) ==
  {<<i, j, weight[i * ins + j]>> : i \in 0 .. outs - 1, j \in 0 .. ins - 1}

-----------------------------------------------------------------------------
(* faulty: the stride phase is that of the map without its padding. *)
TapsUnpadded(g, pos) ==
  LET hi == pos \div g.w
      wi == pos % g.w
  IN  {tap \in 0 .. g.k * g.k - 1 :
         LET kh == tap \div g.k
             kw == tap % g.k
         IN  /\ kh % g.stride = hi % g.stride /\ kw % g.stride = wi % g.stride
             /\ (hi + g.pad - kh) \div g.stride \in 0 .. Ho(g) - 1
             /\ (wi + g.pad - kw) \div g.stride \in 0 .. Wo(g) - 1}

(* The taps kh * k + kw through which the input at a position reaches an
   output: those of its stride phase whose output is on the map. *)
Taps(g, pos) ==
  LET hi == pos \div g.w + g.pad
      wi == (pos % g.w) + g.pad
  IN  {tap \in 0 .. g.k * g.k - 1 :
         LET kh == tap \div g.k
             kw == tap % g.k
         IN  /\ kh % g.stride = hi % g.stride /\ kw % g.stride = wi % g.stride
             /\ (hi - kh) \div g.stride \in 0 .. Ho(g) - 1
             /\ (wi - kw) \div g.stride \in 0 .. Wo(g) - 1}

(* compress_conv: a dendrite for every pattern of taps, in the order in which
   a scan of the map meets them.  It lists the taps of the first channel and
   feature map; the repeat loop walks the feature maps, go1 picks the channel
   and go2 the position. *)
compress_conv(g, weight) ==
  LET patterns ==
        FoldLeft(LAMBDA seen, pos :
                   IF Taps(g, pos) \in {{}} \cup Range(seen) THEN seen
                   ELSE Append(seen, Taps(g, pos)),
                 << >>, [i \in 1 .. g.h * g.w |-> i - 1])
      dendrite(taps) ==
        LET list == sorted(taps, <)
        IN  [nlist |-> [i \in DOMAIN list |->
                          -((list[i] \div g.k) \div g.stride) * Wo(g)
                            - (list[i] % g.k) \div g.stride],
             wlist |-> list, repeat |-> g.f,
             local_off1 |-> Ho(g) * Wo(g), local_off2 |-> g.c * g.k * g.k]
      spike(c, pos) ==
        [dendrite_id |-> (CHOOSE i \in DOMAIN patterns : patterns[i] = Taps(g, pos)) - 1,
         go1 |-> c * g.k * g.k,
         go2 |-> ((pos \div g.w + g.pad) \div g.stride) * Wo(g)
                   + ((pos % g.w) + g.pad) \div g.stride]
      map == g.h * g.w
      sent == {pre \in 0 .. g.c * map - 1 : Taps(g, pre % map) # {}}
  IN  [dendrites |-> [id \in 0 .. Len(patterns) - 1 |-> dendrite(patterns[id + 1])],
       spikes    |-> [pre \in sent |-> spike(pre \div map, pre % map)],
       weights   |-> weight,
       num_post  |-> g.f * Ho(g) * Wo(g)]

(* compress_dense, of a layer applied to each of n_tokens tokens: one
   dendrite whose repeat loop walks the outputs of a token. *)
compress_dense(outs, ins, n_tokens, weight) ==
  [dendrites |-> [id \in {0} |-> [nlist |-> <<0>>, wlist |-> <<0>>, repeat |-> outs,
                                  local_off1 |-> 1, local_off2 |-> ins]],
   spikes    |-> [pre \in 0 .. n_tokens * ins - 1 |->
                    [dendrite_id |-> 0, go1 |-> pre % ins, go2 |-> (pre \div ins) * outs]],
   weights   |-> weight,
   num_post  |-> n_tokens * outs]

(* Algorithm 1: the neurons a spike reaches, and with which weight. *)
decompress_spike(cl, s) ==
  LET synapses == decompress(cl.dendrites[s.dendrite_id], s.go1, s.go2)
  IN  {<<synapses[x].neuron, cl.weights[synapses[x].weight]>> : x \in DOMAIN synapses}

reconstruct(cl) ==
  UNION {{<<x[1], pre, x[2]>> : x \in decompress_spike(cl, cl.spikes[pre])} :
           pre \in DOMAIN cl.spikes}
=============================================================================
