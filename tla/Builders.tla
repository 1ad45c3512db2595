------------------------------ MODULE Builders ------------------------------
(***************************************************************************)
(* The graph of a trained model (graph/builders.py).  A model is a record  *)
(* of its modules; a module has the attributes and tensors of the node it  *)
(* becomes, and a convolution its batch normalization: a scale, a mean and *)
(* a beta per filter, the scale being gamma / sqrt(var + eps).             *)
(***************************************************************************)
EXTENDS Dag, Synapse

LOCAL INSTANCE SequencesExt
LOCAL INSTANCE TLC

(* Names, in lexicographic order, as numbers: of a node, and of the j-th
   node of a block. *)
NodeNames == <<"avgpool", "b", "conv", "fc", "head", "input", "output", "pool",
               "pool_tokens", "sps_c1", "sps_c2", "stem_conv", "stem_pool", "tokens">>
ItemNames == <<"add", "add1", "add2", "av", "c1", "c2", "ds", "fc1", "fc2", "k",
               "proj", "q", "qk", "v">>
position(names, s) == CHOOSE i \in DOMAIN names : names[i] = s
name(s, i) == 1000 * position(NodeNames, s) + i
item(bi, s) == name("b", 100 * bi + position(ItemNames, s))

(* What a module makes of an input of a shape (external: torch). *)
out_shape(m, shape) ==
  LET hw(k) == [axis \in {1, 2} |-> conv_out(shape[axis + 1], k[axis], m.stride[axis],
                                             m.padding[axis])]
      k == <<m.wshape[3], m.wshape[4]>>
  IN  CASE m.op = "conv"  -> <<m.wshape[1], hw(k)[1], hw(k)[2]>>
        [] m.op = "pool"  -> IF m.pool_type = "adaptive" THEN <<shape[1], 1, 1>>
                             ELSE <<shape[1], hw(m.kernel)[1], hw(m.kernel)[2]>>
        [] m.op = "dense" -> IF Len(shape) = 2 THEN <<shape[1], m.wshape[1]>>
                             ELSE <<m.wshape[1]>>

fold_bn(m) ==
  LET row == Cardinality(DOMAIN m.weight) \div m.wshape[1]
  IN  [m EXCEPT !.weight = [k \in DOMAIN @ |-> @[k] * m.bn.scale[k \div row]],
                !.bias   = [f \in DOMAIN @ |-> (@[f] - m.bn.mean[f]) * m.bn.scale[f]
                                                 + m.bn.beta[f]]]

(* A graph under construction, and the node whose output comes next: _dense and
   _pool add a module to it, _conv one whose own bias is dropped. *)
add(s, n, node) == [d |-> s.d @@ (n :> node), prev |-> n]
add_module(s, n, m) ==
  add(s, n, [inputs |-> <<s.prev>>, shape |-> out_shape(m, s.d[s.prev].shape)] @@ m)
conv(s, n, m) == add_module(s, n, [m EXCEPT !.bias = [f \in DOMAIN @ |-> 0]])
conv_bn(s, n, m) == add_module(s, n, fold_bn(m))
from(s, n) == [s EXCEPT !.prev = n]

input(model) ==
  [d    |-> name("input", 0) :> [op |-> "input", shape |-> model.input, inputs |-> << >>],
   prev |-> name("input", 0)]
output(s) ==
  add(s, name("output", 0),
      [op |-> "output", shape |-> s.d[s.prev].shape, inputs |-> <<s.prev>>]).d

how_many(s, op) == Cardinality(of_op(s.d, {op}))

-----------------------------------------------------------------------------
build_vgg(model) ==
  LET feature(s, m) ==
        CASE m.op = "conv" -> conv(s, name("conv", how_many(s, "conv")), m)
          [] m.op = "pool" -> add_module(s, name("pool", how_many(s, "pool")), m)
          [] m.op = "lif"  -> s
      classify(s, m) ==
        IF m.op = "dense" THEN add_module(s, name("fc", how_many(s, "dense")), m) ELSE s
      body == FoldLeft(feature, input(model), model.features)
  IN  output(FoldLeft(classify, add_module(body, name("avgpool", 0), model.avgpool),
                      model.classifier))

(* An add of the node before and another one, in either order. *)
join(s, n, inputs) ==
  add(s, n, [op |-> "add", shape |-> s.d[s.prev].shape, inputs |-> inputs])
Indices(seq) == [k \in DOMAIN seq |-> k]

(* A residual block that build_resnet refuses. *)
Unsupported(blk) == blk.has_conv3 \/ blk.cnf \notin {"None", "ADD"}

(* The block's convolutions c, then the identity or its projection. *)
shortcut_to(c, x, blk, bi) ==
  LET skip == IF blk.downsample = << >> THEN from(c, x)
              ELSE conv_bn(from(c, x), item(bi, "ds"), blk.downsample[1])
  IN  join(skip, item(bi, "add"), <<c.prev, skip.prev>>)
residual_block(s, blk, bi) ==
  shortcut_to(conv_bn(conv_bn(s, item(bi, "c1"), blk.conv1), item(bi, "c2"), blk.conv2),
              s.prev, blk, bi)
residual_blocks(s, model) ==
  FoldLeft(LAMBDA r, bi : residual_block(r, model.blocks[bi], bi), s, Indices(model.blocks))

build_resnet(model) ==
  LET stem == add_module(conv_bn(input(model), name("stem_conv", 0), model.conv1),
                         name("stem_pool", 0), model.maxpool)
  IN  output(add_module(add_module(residual_blocks(stem, model),
                                   name("avgpool", 0), model.avgpool),
                        name("fc", 0), model.fc))

(* The nodes of an attention block, from the node x = s.prev on. *)
qkv(s, blk, bi) ==
  FoldLeft(LAMBDA r, it : add_module(from(r, s.prev), item(bi, it), blk[it]), s, <<"q", "k", "v">>)
attention_nodes(s, shape, blk, bi) ==
  LET qk == add(s, item(bi, "qk"),
                [op |-> "matmul_qk", shape |-> <<blk.heads, shape[1], shape[1]>>,
                 inputs |-> <<item(bi, "q"), item(bi, "k")>>,
                 heads |-> blk.heads, scale |-> blk.scale])
  IN  add_module(add(qk, item(bi, "av"),
                     [op |-> "matmul_av", shape |-> shape,
                      inputs |-> <<item(bi, "qk"), item(bi, "v")>>, heads |-> blk.heads]),
                 item(bi, "proj"), blk.proj)
mlp(s, blk, bi) ==
  join(add_module(add_module(s, item(bi, "fc1"), blk.fc1), item(bi, "fc2"), blk.fc2),
       item(bi, "add2"), <<s.prev, item(bi, "fc2")>>)
transformer_block(s, blk, bi) ==
  mlp(join(attention_nodes(qkv(s, blk, bi), s.d[s.prev].shape, blk, bi),
           item(bi, "add1"), <<s.prev, item(bi, "proj")>>), blk, bi)
transformer_blocks(s, model) ==
  FoldLeft(LAMBDA r, bi : transformer_block(r, model.blocks[bi], bi), s, Indices(model.blocks))

tokens_node(s) ==
  LET map == s.d[s.prev].shape
  IN  add(s, name("tokens", 0),
          [op |-> "reshape", shape |-> <<map[2] * map[3], map[1]>>, inputs |-> <<s.prev>>,
           from |-> map])
pool_tokens(s) ==
  add(s, name("pool_tokens", 0),
      [op |-> "pool", shape |-> <<s.d[s.prev].shape[2]>>, inputs |-> <<s.prev>>,
       pool_type |-> "token_mean"])

build_spikformer(model) ==
  LET sps == conv_bn(conv_bn(input(model), name("sps_c1", 0), model.c1),
                     name("sps_c2", 0), model.c2)
  IN  output(add_module(pool_tokens(transformer_blocks(tokens_node(sps), model)),
                        name("head", 0), model.head))

(* build_dag, of a supported model.  A model of no family is a graph that was
   put together node by node. *)
Supported(model) ==
  model.family = "resnet" => \A bi \in DOMAIN model.blocks : ~Unsupported(model.blocks[bi])

build_dag(model) ==
  CASE model.family = "vgg"        -> build_vgg(model)
    [] model.family = "resnet"     -> build_resnet(model)
    [] model.family = "spikformer" -> build_spikformer(model)
    [] model.family = "graph"      -> model.dag
=============================================================================
