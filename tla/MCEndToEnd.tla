----------------------------- MODULE MCEndToEnd -----------------------------
(***************************************************************************)
(* EndToEnd on models to compile: a small one of every family, and graphs  *)
(* put together by hand, most of which the compiler refuses.               *)
(***************************************************************************)
EXTENDS EndToEnd

LOCAL INSTANCE SequencesExt
LOCAL INSTANCE TLC

(* Weights whose averages over 2 or 4 neurons are whole. *)
Weights(size, seed) ==
  [k \in 0 .. size - 1 |-> 4 * (((k * 7 + seed * 5 + ((k * k) % 11)) % 9) - 3)]
Zero(size) == [k \in 0 .. size - 1 |-> 0]

Spiking == [op |-> "lif"]
Conv(f, c, k, stride, pad, seed) ==
  [op |-> "conv", weight |-> Weights(f * c * k * k, seed), wshape |-> <<f, c, k, k>>,
   stride |-> <<stride, stride>>, padding |-> <<pad, pad>>, groups |-> 1,
   dilation |-> <<1, 1>>, bias |-> Zero(f)]
(* A norm with scales 1, 2, 1, ... and means 0, 1, 0, ...; with shift 0 the
   folded bias is zero. *)
Normed(m, shift) ==
  [bn |-> [scale |-> [f \in DOMAIN m.bias |-> 1 + (f % 2)],
           mean  |-> [f \in DOMAIN m.bias |-> f % 2],
           beta  |-> [f \in DOMAIN m.bias |-> 2 * (f % 2) + shift]]] @@ m
Dense(out, in, seed) ==
  [op |-> "dense", weight |-> Weights(out * in, seed), wshape |-> <<out, in>>,
   bias |-> Zero(out)]
Pool(type, k, stride, pad) ==
  [op |-> "pool", pool_type |-> type, kernel |-> <<k, k>>,
   stride |-> <<stride, stride>>, padding |-> <<pad, pad>>]
Adaptive == [op |-> "pool", pool_type |-> "adaptive"]

Vgg ==
  [family |-> "vgg", input |-> <<1, 4, 3>>,
   features |-> <<Conv(2, 1, 2, 1, 0, 1), Spiking, Pool("MaxPool2d", 2, 1, 0),
                  Conv(6, 2, 2, 2, 1, 2), Spiking>>,
   avgpool |-> Adaptive,
   classifier |-> <<Dense(8, 6, 3), Spiking, Dense(2, 8, 4)>>]

Basic(conv1, conv2, downsample) ==
  [has_conv3 |-> FALSE, cnf |-> "ADD", conv1 |-> conv1, conv2 |-> conv2,
   downsample |-> downsample]
Resnet ==
  [family |-> "resnet", input |-> <<1, 4, 3>>, conv1 |-> Normed(Conv(2, 1, 3, 1, 1, 1), 8),
   maxpool |-> Pool("MaxPool2d", 3, 2, 1),
   blocks |-> <<Basic(Normed(Conv(2, 2, 3, 1, 1, 2), 0), Normed(Conv(2, 2, 3, 1, 1, 3), 0), << >>),
                Basic(Normed(Conv(3, 2, 3, 2, 1, 4), 0), Normed(Conv(3, 3, 1, 1, 0, 5), 0),
                      <<Normed(Conv(3, 2, 1, 2, 0, 6), 0)>>)>>,
   avgpool |-> Adaptive, fc |-> Dense(2, 3, 7)]

Biased == [Resnet EXCEPT !.blocks[1].conv1 = Normed(Conv(2, 2, 3, 1, 1, 2), 9)]

Spikformer ==
  [family |-> "spikformer", input |-> <<1, 5, 3>>,
   c1 |-> Normed(Conv(2, 1, 3, 2, 1, 1), 8), c2 |-> Normed(Conv(6, 2, 3, 2, 1, 2), 0),
   blocks |-> <<[q |-> Dense(6, 6, 3), k |-> Dense(6, 6, 4), v |-> Dense(6, 6, 5),
                 heads |-> 2, scale |-> 1, proj |-> Dense(6, 6, 6),
                 fc1 |-> Dense(4, 6, 7), fc2 |-> Dense(6, 4, 8)]>>,
   head |-> Dense(2, 6, 9)]

-----------------------------------------------------------------------------
(* Graphs. *)
Graph(d) == [family |-> "graph", input |-> << >>, dag |-> d]
Node(op, inputs, shape) == [op |-> op, inputs |-> inputs, shape |-> shape]
Layer_(m, in, shape) == Node(m.op, <<in>>, shape) @@ m
Over(shape, nodes) == Graph(<<Node("input", << >>, shape)>> \o nodes)
Chain(n) ==
  [k \in 1 .. n |-> Layer_(Dense(1, 1, k), k, <<1>>)]

(* A layer added to itself. *)
Doubled ==
  Over(<<2>>, <<Layer_(Dense(2, 2, 1), 1, <<2>>), Node("add", <<2, 2>>, <<2>>),
                Node("output", <<3>>, <<2>>)>>)

(* A maximum and an average of one layer each, added to another. *)
Pooled(type) ==
  Over(<<1, 4, 4>>,
       <<Layer_(Conv(1, 1, 1, 1, 0, 1), 1, <<1, 4, 4>>),
         Layer_(Pool(type, 2, 2, 0), 2, <<1, 2, 2>>),
         Layer_(Conv(1, 1, 3, 2, 1, 2), 1, <<1, 2, 2>>),
         Node("add", <<3, 4>>, <<1, 2, 2>>),
         Layer_(Dense(2, 4, 3), 5, <<2>>),
         Node("output", <<6>>, <<2>>)>>)

IllFormed ==
  {Over(<<2>>, <<Node("sum", <<1>>, <<2>>), Node("output", <<2>>, <<2>>)>>),
   Over(<<2>>, <<Node("add", <<1, 3>>, <<2>>), Node("add", <<2, 1>>, <<2>>),
                 Node("output", <<2>>, <<2>>)>>),
   Over(<<2>>, <<Layer_(Dense(2, 2, 1), 1, <<2>>), Node("output", <<2>>, <<2>>),
                 Node("output", << >>, <<2>>)>>),
   Over(<<2>>, <<Layer_(Dense(2, 2, 1), 1, <<2>>), Node("output", <<2>>, <<2>>),
                 Layer_(Dense(2, 2, 1), 3, <<2>>)>>),
   Over(<<2>>, <<Layer_(Dense(3, 2, 1), 1, <<3>>), Node("add", <<1, 2>>, <<2>>),
                 Node("output", <<3>>, <<2>>)>>)}

Unmappable ==
  {\* a dilated convolution; an attention over the sum of two layers
   Over(<<1, 4, 4>>, <<Layer_([Conv(1, 1, 3, 1, 1, 1) EXCEPT !.dilation = <<2, 2>>], 1, <<1, 2, 2>>),
                       Node("output", <<2>>, <<1, 2, 2>>)>>),
   Over(<<2, 2>>, <<Layer_(Dense(2, 2, 1), 1, <<2, 2>>), Layer_(Dense(2, 2, 2), 1, <<2, 2>>),
                    Node("add", <<2, 3>>, <<2, 2>>),
                    Node("matmul_qk", <<4, 3>>, <<1, 2, 2>>) @@ [heads |-> 1, scale |-> 1],
                    Node("matmul_av", <<5, 2>>, <<2, 2>>) @@ [heads |-> 1],
                    Layer_(Dense(2, 2, 3), 6, <<2, 2>>), Node("output", <<7>>, <<2, 2>>)>>),
   \* an attention too large for a PE; a map and a fan-in too large for one
   Over(<<8, 4>>, <<Layer_(Dense(4, 4, 1), 1, <<8, 4>>), Layer_(Dense(4, 4, 2), 1, <<8, 4>>),
                    Node("matmul_qk", <<2, 3>>, <<1, 8, 8>>) @@ [heads |-> 1, scale |-> 1],
                    Node("matmul_av", <<4, 3>>, <<8, 4>>) @@ [heads |-> 1],
                    Layer_(Dense(4, 4, 3), 5, <<8, 4>>), Node("output", <<6>>, <<8, 4>>)>>),
   Over(<<1, 5, 5>>, <<Layer_(Conv(1, 1, 3, 1, 1, 1), 1, <<1, 5, 5>>),
                       Node("output", <<2>>, <<1, 5, 5>>)>>),
   Over(<<50>>, <<Layer_(Dense(2, 50, 1), 1, <<2>>), Node("output", <<2>>, <<2>>)>>),
   \* too many entries in a dendrite; more PEs than there are; a delay of 8
   Over(<<1, 4, 4>>, <<Layer_(Conv(1, 1, 4, 1, 0, 1), 1, <<1, 1, 1>>),
                       Node("output", <<2>>, <<1, 1, 1>>)>>),
   Over(<<20>>, <<Layer_(Dense(30, 20, 1), 1, <<30>>), Node("output", <<2>>, <<30>>)>>),
   Over(<<1>>, Chain(8) \o <<Node("add", <<2, 9>>, <<1>>), Layer_(Dense(1, 1, 1), 10, <<1>>),
                              Node("output", <<11>>, <<1>>)>>)}

MCModels ==
  {Vgg, Resnet, Biased, Spikformer,
   [Resnet EXCEPT !.blocks[1].has_conv3 = TRUE], [Resnet EXCEPT !.blocks[2].cnf = "AND"],
   Doubled, Pooled("MaxPool2d"), Pooled("AvgPool2d")}
    \cup IllFormed \cup Unmappable
MCDags == {d \in {build_dag(m) : m \in {x \in MCModels : Supported(x)}} :
             \A n \in DOMAIN d : NodeOk(d, n)}

(* Two profiles, in one of which some channels of a layer fire alike. *)
MCProfiles ==
  {[layer \in 1 .. 3 |-> [c \in 0 .. 7 |-> (c * 3 + layer) % 8]],
   [layer \in 1 .. 3 |-> [c \in 0 .. 7 |-> (c + 1) \div 2]]}

MCImages ==
  {[p \in 0 .. x[1] - 1 |-> Unit * ((p * 3 + x[2]) % 4)] : x \in {<<12, 1>>, <<15, 1>>, <<15, 2>>}}


-----------------------------------------------------------------------------
TokenModels == {Spikformer}

Never == 1000000
Lowest == -1000000
=============================================================================
