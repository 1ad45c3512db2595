---------------------------- MODULE SpikingModels ----------------------------
(***************************************************************************)
(* A timestep of a trained model as its modules compute it                 *)
(* (models/svgg.py, models/spikformer.py; the residual network and the     *)
(* layers themselves are libraries'), and the recording of its spikes by   *)
(* sj_reference of funcsim.py.  This is what every later representation of *)
(* the model has to agree with.                                            *)
(***************************************************************************)
EXTENDS FiringPlacement, FuncSim

LOCAL INSTANCE FiniteSetsExt
LOCAL INSTANCE SequencesExt

(* A forward pass under way: the activation and its shape, the potentials and
   the spikes of the LIF nodes met.  A LIF node is known by the layer before
   it, which lif_hook finds in the same way. *)
signal(x, shape, potentials) == [x |-> x, shape |-> shape, v |-> potentials, fired |-> << >>]

Conv2d(s, m) ==
  LET g == [f |-> m.wshape[1], c |-> m.wshape[2], k |-> m.wshape[3],
            h |-> s.shape[2], w |-> s.shape[3], stride |-> m.stride[1], pad |-> m.padding[1]]
      cur == conv2d(g, [k \in DOMAIN m.weight |-> 127 * m.weight[k]], s.x)
  IN  [s EXCEPT !.x = [o \in DOMAIN cur |-> cur[o] + 127 * m.bias[o \div (Ho(g) * Wo(g))]],
                !.shape = out_shape(m, s.shape)]

BatchNorm2d(s, m) ==
  LET map == s.shape[2] * s.shape[3]
  IN  [s EXCEPT !.x = [o \in DOMAIN @ |->
         LET f == o \div map
         IN  (@[o] - 127 * m.bn.mean[f]) * m.bn.scale[f] + 127 * m.bn.beta[f]]]

Linear(s, m) ==
  LET n_tokens == IF Len(s.shape) = 2 THEN s.shape[1] ELSE 1
      cur == linear(m.wshape[2], m.wshape[1], n_tokens,
                    [k \in DOMAIN m.weight |-> 127 * m.weight[k]], s.x)
  IN  [s EXCEPT !.x = [o \in DOMAIN cur |-> cur[o] + 127 * m.bias[o % m.wshape[1]]],
                !.shape = out_shape(m, s.shape)]

Pool2d(s, m) ==
  LET node == [shape |-> out_shape(m, s.shape)] @@ m
  IN  [s EXCEPT !.x = pool(s.shape, node, s.x), !.shape = node.shape]

LIFNode(s, n) ==
  LET old == IF n \in DOMAIN s.v THEN s.v[n] ELSE [o \in DOMAIN s.x |-> 0]
      lif == LifStep(old, s.x)
  IN  [s EXCEPT !.x = spike_map(lif.spikes, DOMAIN @), !.v = (n :> lif.v) @@ @,
                !.fired = @ @@ (n :> lif.spikes)]

plus(s, x) == [s EXCEPT !.x = [o \in DOMAIN @ |-> @[o] + x[o]]]
onto(s, x, shape) == [s EXCEPT !.x = x, !.shape = shape]

-----------------------------------------------------------------------------
(* SVGG9.forward. *)
vgg_forward(model, s) ==
  LET module(r, m) ==
        CASE m.op = "conv"  -> [s |-> Conv2d(r.s, m), n |-> name("conv", r.convs),
                                convs |-> r.convs + 1, fcs |-> r.fcs]
          [] m.op = "dense" -> [s |-> Linear(r.s, m), n |-> name("fc", r.fcs),
                                convs |-> r.convs, fcs |-> r.fcs + 1]
          [] m.op = "pool"  -> [r EXCEPT !.s = Pool2d(@, m)]
          [] m.op = "lif"   -> [r EXCEPT !.s = LIFNode(@, r.n)]
  IN  FoldLeft(module, [s |-> s, n |-> 0, convs |-> 0, fcs |-> 0],
               model.features \o <<model.avgpool>> \o model.classifier).s

(* The residual network (external): conv, norm, spike, twice, plus the input. *)
conv_bn_sn(s, m, n) == LIFNode(BatchNorm2d(Conv2d(s, m), m), n)
shortcut(c, x, blk, bi) ==
  LET back == onto(c, x.x, x.shape)
  IN  plus(IF blk.downsample = << >> THEN back
           ELSE conv_bn_sn(back, blk.downsample[1], item(bi, "ds")), c.x)
residual(x, blk, bi) ==
  shortcut(conv_bn_sn(conv_bn_sn(x, blk.conv1, item(bi, "c1")), blk.conv2, item(bi, "c2")),
           x, blk, bi)
resnet_forward(model, s) ==
  LET stem == Pool2d(conv_bn_sn(s, model.conv1, name("stem_conv", 0)), model.maxpool)
      body == FoldLeft(LAMBDA x, bi : residual(x, model.blocks[bi], bi), stem,
                       [bi \in DOMAIN model.blocks |-> bi])
  IN  Linear(Pool2d(body, model.avgpool), model.fc)

(* SSA.forward, on tokens of dimension dim: per head, (q k^T) * scale, times v. *)
attend(q, k, v_, ntok, dim, heads, scale) ==
  LET dh == dim \div heads
      attn(h, i, j) ==
        (scale * MapThenSumSet(LAMBDA e : q[i * dim + e] * k[j * dim + e],
                               h * dh .. (h + 1) * dh - 1)) \div Unit
  IN  [o \in 0 .. ntok * dim - 1 |->
         MapThenSumSet(LAMBDA j : attn((o % dim) \div dh, o \div dim, j) * v_[j * dim + (o % dim)],
                       0 .. ntok - 1) \div Unit]

(* From s, and from r in which q, k and v of it have fired. *)
project(s, r, blk, bi) ==
  LET spikes(it) == spike_map(r.fired[item(bi, it)], DOMAIN s.x)
  IN  LIFNode(Linear(onto(r, attend(spikes("q"), spikes("k"), spikes("v"), s.shape[1], s.shape[2],
                                    blk.heads, blk.scale), s.shape),
                     blk.proj), item(bi, "proj"))
SSA(s, blk, bi) ==
  project(s, FoldLeft(LAMBDA r, it : LIFNode(Linear(onto(r, s.x, s.shape), blk[it]), item(bi, it)),
                      s, <<"q", "k", "v">>), blk, bi)

(* SpikingMLP, and its skip. *)
SpikingMLP(s, blk, bi) ==
  plus(LIFNode(Linear(LIFNode(Linear(s, blk.fc1), item(bi, "fc1")), blk.fc2), item(bi, "fc2")),
       s.x)
Block(s, blk, bi) == SpikingMLP(plus(SSA(s, blk, bi), s.x), blk, bi)

(* SPS.forward: the map "b c h w -> b (h w) c". *)
to_tokens(s) ==
  LET ntok == s.shape[2] * s.shape[3]
      dim  == s.shape[1]
  IN  onto(s, [o \in DOMAIN s.x |-> s.x[(o % dim) * ntok + o \div dim]], <<ntok, dim>>)
SPS(model, s) ==
  LET conv_bn_lif(r, m, n) == LIFNode(BatchNorm2d(Conv2d(r, m), m), name(n, 0))
  IN  to_tokens(conv_bn_lif(conv_bn_lif(s, model.c1, "sps_c1"), model.c2, "sps_c2"))

(* Spikformer.forward. *)
mean_tokens(s) ==
  LET ntok == s.shape[1]
      dim  == s.shape[2]
  IN  onto(s, [e \in 0 .. dim - 1 |->
                 MapThenSumSet(LAMBDA tok : s.x[tok * dim + e], 0 .. ntok - 1) \div ntok], <<dim>>)
spikformer_forward(model, s) ==
  Linear(mean_tokens(FoldLeft(LAMBDA x, bi : Block(x, model.blocks[bi], bi), SPS(model, s),
                              [bi \in DOMAIN model.blocks |-> bi])),
         model.head)

-----------------------------------------------------------------------------
forward(model, s) ==
  CASE model.family = "vgg"        -> vgg_forward(model, s)
    [] model.family = "resnet"     -> resnet_forward(model, s)
    [] model.family = "spikformer" -> spikformer_forward(model, s)

(* The next timestep of sj_reference, after those of run: the neurons of each
   layer that fire, the last layer's outputs, and the potentials left. *)
sj_timestep(model, image, run) ==
  LET v   == IF run = << >> THEN << >> ELSE run[Len(run)].v
      out == forward(model, signal(image, model.input, v))
  IN  [fired |-> out.fired, logits |-> out.x, v |-> out.v]
=============================================================================
