------------------------------ MODULE TopoSort ------------------------------
(***************************************************************************)
(* Kahn's topological sort, topo of graph/dag.py, one pop of its heap a    *)
(* step.  The in-degree counts distinct producers, so an operator that     *)
(* names one producer twice is released once.                              *)
(***************************************************************************)
EXTENDS Dag

CONSTANT Dags   \* the graphs that may be sorted

(* Their nodes name producers that exist: validate checks it first. *)
ASSUME DagsAssumption ==
  \A d \in Dags : /\ IsFiniteSet(DOMAIN d)
                  /\ \A n \in DOMAIN d : producers(d, n) \subseteq DOMAIN d

VARIABLES
  dag,    \* the graph
  indeg,  \* for each node the producers not yet taken
  ready,  \* the heap
  order   \* the nodes taken

topoVars == <<dag, indeg, ready, order>>

(* faulty: a producer named twice counts twice. *)
in_degrees_listed(d) == [n \in DOMAIN d |-> Len(d[n].inputs)]

in_degrees(d) == [n \in DOMAIN d |-> Cardinality(producers(d, n))]
roots(d) == {n \in DOMAIN d : in_degrees(d)[n] = 0}

TopoInit ==
  /\ dag \in Dags
  /\ indeg = in_degrees(dag)
  /\ ready = roots(dag)
  /\ order = << >>

(* faulty: the first producer taken releases a child. *)
released_early(n) == consumers(dag, n)

(* The children that waited for node n alone. *)
released(n) == {c \in consumers(dag, n) : indeg[c] = 1}

(* The least node of the heap is taken. *)
Pop ==
  /\ \E n \in ready :
       /\ \A m \in ready : n <= m
       /\ order' = Append(order, n)
       /\ indeg' = [c \in DOMAIN dag |->
                      IF c \in consumers(dag, n) THEN indeg[c] - 1 ELSE indeg[c]]
       /\ ready' = (ready \ {n}) \cup released(n)
  /\ UNCHANGED dag

TopoSpec == TopoInit /\ [][Pop]_topoVars

-----------------------------------------------------------------------------
Taken == {order[i] : i \in DOMAIN order}

(* A node is taken once, and after all its producers. *)
Ordered ==
  \A i \in DOMAIN order :
    /\ \A j \in DOMAIN order : order[i] = order[j] => i = j
    /\ producers(dag, order[i]) \subseteq {order[j] : j \in 1 .. i - 1}

(* Nodes each of which waits for another of them. *)
Cyclic(S) == S # {} /\ \A n \in S : producers(dag, n) \cap S # {}

(* topo refuses no graph without a cycle: when the heap is empty, the nodes
   that were not taken, if any, wait for one another. *)
RefusesCycles ==
  ready = {} /\ Taken # DOMAIN dag => Cyclic(DOMAIN dag \ Taken)

(* And takes no graph with one. *)
AcceptsAcyclic ==
  Taken = DOMAIN dag => \A S \in SUBSET DOMAIN dag : ~Cyclic(S)
=============================================================================
