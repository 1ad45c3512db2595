-------------------------------- MODULE Dag --------------------------------
(***************************************************************************)
(* The network as a graph (frontend/neurort_compiler/graph/dag.py).  A dag *)
(* is a function from names to nodes; a name is its position in the        *)
(* lexicographic order of the names.  Attributes, weight and bias of a     *)
(* node are fields of its record.                                          *)
(***************************************************************************)
EXTENDS Integers, Sequences, FiniteSets

VALID_OPS == {"input", "conv", "dense", "pool", "add", "reshape",
              "matmul_qk", "matmul_av", "output"}

prod(shape) ==
  LET upto[i \in 0 .. Len(shape)] == IF i = 0 THEN 1 ELSE upto[i - 1] * shape[i]
  IN  upto[Len(shape)]

num_neurons(node) == IF node.shape = << >> THEN 0 ELSE prod(node.shape)

producers(d, n) == {d[n].inputs[i] : i \in DOMAIN d[n].inputs}
consumers(d, n) == {c \in DOMAIN d : n \in producers(d, c)}
of_op(d, ops) == {n \in DOMAIN d : d[n].op \in ops}

(* The checks of validate before it sorts. *)
NodeOk(d, n) ==
  LET arity == Len(d[n].inputs)
  IN  /\ d[n].op \in VALID_OPS
      /\ producers(d, n) \subseteq DOMAIN d
      /\ d[n].op = "input" => arity = 0
      /\ d[n].op \in {"conv", "dense", "pool", "reshape"} => arity = 1
      /\ d[n].op = "add" =>
           arity >= 2 /\ Cardinality({d[p].shape : p \in producers(d, n)}) = 1
      /\ d[n].op \in {"matmul_qk", "matmul_av"} => arity = 2
      /\ d[n].op = "reshape" => prod(d[n].from) = num_neurons(d[n])

(* topo: nodes whose producers are all taken are taken, the least name first;
   a graph with a cycle has a shorter order than nodes. *)
Least(S) == CHOOSE n \in S : \A m \in S : n <= m

topo(d) ==
  LET upto[k \in 0 .. Cardinality(DOMAIN d)] ==
        IF k = 0 THEN << >>
        ELSE LET before == upto[k - 1]
                 taken  == {before[i] : i \in DOMAIN before}
                 free  == {n \in DOMAIN d \ taken : producers(d, n) \subseteq taken}
             IN  IF free = {} THEN before ELSE Append(before, Least(free))
  IN  upto[Cardinality(DOMAIN d)]

(* The nodes reached from the inputs. *)
Reachable(d) ==
  LET within[i \in 0 .. Cardinality(DOMAIN d)] ==
        IF i = 0 THEN of_op(d, {"input"})
        ELSE within[i - 1] \cup UNION {consumers(d, n) : n \in within[i - 1]}
  IN  within[Cardinality(DOMAIN d)]

(* The checks after it: one output, which is a sink, and no orphans. *)
StructureOk(d) ==
  /\ Cardinality(of_op(d, {"output"})) = 1
  /\ \A n \in of_op(d, {"output"}) : consumers(d, n) = {}
  /\ Reachable(d) = DOMAIN d
=============================================================================
