------------------------------- MODULE MCNoc -------------------------------
(***************************************************************************)
(* Loads for model-checking Noc on small meshes.                           *)
(***************************************************************************)
EXTENDS Noc

CONSTANT MaxLoad    \* flits a single node injects at most

MCFlit == [src : Node, dst : Node, id : 1 .. MaxLoad]

At(x, y) == [x |-> x, y |-> y]

(* Every node sends all it has to one hotspot, as HotspotTraffic does. *)
Hotspot ==
  {[n \in Node |-> IF n = c THEN << >> ELSE [i \in 1 .. MaxLoad |-> c]] : c \in Node}

(* Every node sends all it has to the node opposite it through the centre:
   the flits of all four directions cross and turn. *)
Transpose ==
  {[n \in Node |-> [i \in 1 .. MaxLoad |-> At(W - 1 - n.x, H - 1 - n.y)]]}

Crossing == Hotspot \cup Transpose
=============================================================================
