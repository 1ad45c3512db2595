--------------------------- MODULE TopoSortProofs ---------------------------
(***************************************************************************)
(* What topo of graph/dag.py promises, for every finite graph whose nodes  *)
(* name nodes of the graph: the order it returns is topological, it        *)
(* refuses no graph without a cycle and accepts none with one.             *)
(***************************************************************************)
EXTENDS TopoSort, FiniteSetTheorems, TLAPS

(* The nodes and the order taken. *)
OrderOk == dag \in Dags /\ order \in Seq(DOMAIN dag)

(* Each in-degree counts the distinct producers still to be taken. *)
Waits == indeg = [n \in DOMAIN dag |-> Cardinality(producers(dag, n) \ Taken)]

(* The heap holds exactly the nodes free to be taken. *)
Heap == ready = {n \in DOMAIN dag \ Taken : producers(dag, n) \subseteq Taken}

(* No node of a cycle is taken. *)
CyclesLeft == \A S \in SUBSET DOMAIN dag : Cyclic(S) => S \cap Taken = {}

TopoInv == OrderOk /\ Waits /\ Heap /\ Ordered /\ CyclesLeft

-----------------------------------------------------------------------------
(* The producers of a node are finitely many nodes of the graph. *)
LEMMA FiniteProducers ==
  ASSUME dag \in Dags, NEW c \in DOMAIN dag
  PROVE  /\ producers(dag, c) \subseteq DOMAIN dag
         /\ \A T : IsFiniteSet(producers(dag, c) \ T)
<1>1. producers(dag, c) \subseteq DOMAIN dag /\ IsFiniteSet(DOMAIN dag)
  BY DagsAssumption
<1>2. ASSUME NEW T  PROVE IsFiniteSet(producers(dag, c) \ T)
  <2>1. producers(dag, c) \ T \subseteq DOMAIN dag
    BY <1>1
  <2> QED
    BY <1>1, <2>1, FS_Subset
<1> QED
  BY <1>1, <1>2

(* At the start nothing is taken and the heap holds the nodes with no
   producer. *)
LEMMA InitTopo == TopoInit => TopoInv
<1> SUFFICES ASSUME TopoInit  PROVE TopoInv
  OBVIOUS
<1>1. Taken = {} /\ OrderOk
  BY DEF TopoInit, Taken, OrderOk
<1>2. \A n \in DOMAIN dag : producers(dag, n) \ Taken = producers(dag, n)
  BY <1>1
<1>3. Waits
  BY <1>2 DEF TopoInit, in_degrees, Waits
<1>4. ASSUME NEW n \in DOMAIN dag
      PROVE  in_degrees(dag)[n] = 0 <=> producers(dag, n) \subseteq Taken
  <2>1. IsFiniteSet(producers(dag, n))
    BY <1>1, FiniteProducers, <1>2 DEF OrderOk
  <2>2. Cardinality(producers(dag, n)) = 0 <=> producers(dag, n) = {}
    BY <2>1, FS_EmptySet
  <2>3. in_degrees(dag)[n] = Cardinality(producers(dag, n))
    BY DEF in_degrees
  <2> QED
    BY <1>1, <2>2, <2>3
<1>5. Heap
  BY <1>1, <1>4 DEF TopoInit, roots, Heap
<1>6. Ordered /\ CyclesLeft
  BY <1>1 DEF TopoInit, Ordered, CyclesLeft
<1> QED
  BY <1>1, <1>3, <1>5, <1>6 DEF TopoInv

(* What is common to every step: one free node is appended. *)
LEMMA TakenNode ==
  ASSUME TopoInv, NEW n \in ready, order' = Append(order, n), dag' = dag
  PROVE  /\ n \in DOMAIN dag /\ n \notin Taken
         /\ producers(dag, n) \subseteq Taken
         /\ Taken' = Taken \cup {n}
         /\ \A c \in Taken : c \in DOMAIN dag /\ producers(dag, c) \subseteq Taken
<1>1. n \in DOMAIN dag /\ n \notin Taken /\ producers(dag, n) \subseteq Taken
  BY DEF TopoInv, Heap
<1>2. order \in Seq(DOMAIN dag)
  BY DEF TopoInv, OrderOk
<1>3. Taken' = Taken \cup {n}
  <2>1. DOMAIN order' = (1 .. Len(order)) \cup {Len(order) + 1}
    BY <1>1, <1>2
  <2>2. \A i \in 1 .. Len(order) : order'[i] = order[i]
    BY <1>1, <1>2
  <2>3. order'[Len(order) + 1] = n /\ DOMAIN order = 1 .. Len(order)
    BY <1>1, <1>2
  <2> QED
    BY <2>1, <2>2, <2>3 DEF Taken
<1>4. ASSUME NEW c \in Taken
      PROVE  c \in DOMAIN dag /\ producers(dag, c) \subseteq Taken
  <2>1. PICK i \in DOMAIN order : c = order[i]
    BY DEF Taken
  <2>2. c \in DOMAIN dag /\ DOMAIN order = 1 .. Len(order)
    BY <1>2, <2>1
  <2>3. producers(dag, c) \subseteq {order[j] : j \in 1 .. i - 1}
    BY <2>1 DEF TopoInv, Ordered
  <2>4. 1 .. i - 1 \subseteq DOMAIN order
    BY <1>2, <2>1, <2>2
  <2> QED
    BY <2>2, <2>3, <2>4 DEF Taken
<1> QED
  BY <1>1, <1>3, <1>4

(* Every pop of the heap keeps the invariant. *)
LEMMA PopTopo == TopoInv /\ [Pop]_topoVars => TopoInv'
<1> SUFFICES ASSUME TopoInv, [Pop]_topoVars  PROVE TopoInv'
  OBVIOUS
<1>1. CASE UNCHANGED topoVars
  BY <1>1 DEF TopoInv, OrderOk, Waits, Heap, Ordered, CyclesLeft, Cyclic,
     Taken, topoVars
<1>2. CASE Pop
  <2>1. PICK n \in ready :
          /\ order' = Append(order, n)
          /\ indeg' = [c \in DOMAIN dag |->
                         IF c \in consumers(dag, n) THEN indeg[c] - 1 ELSE indeg[c]]
          /\ ready' = (ready \ {n}) \cup released(n)
          /\ dag' = dag
    BY <1>2 DEF Pop
  <2>2. /\ n \in DOMAIN dag /\ n \notin Taken /\ producers(dag, n) \subseteq Taken
        /\ Taken' = Taken \cup {n}
        /\ \A c \in Taken : c \in DOMAIN dag /\ producers(dag, c) \subseteq Taken
    BY <2>1, TakenNode
  <2>3. dag \in Dags /\ order \in Seq(DOMAIN dag)
    BY DEF TopoInv, OrderOk
  <2>4. OrderOk'
    BY <2>1, <2>2, <2>3 DEF OrderOk
  <2>5. \A c \in DOMAIN dag : c \in consumers(dag, n) <=> n \in producers(dag, c)
    BY DEF consumers
  <2>6. \A c \in DOMAIN dag : indeg[c] = Cardinality(producers(dag, c) \ Taken)
    BY DEF TopoInv, Waits
  <2>7. ASSUME NEW c \in DOMAIN dag
        PROVE  IF n \in producers(dag, c)
               THEN /\ Cardinality(producers(dag, c) \ Taken') = indeg[c] - 1
                    /\ indeg[c] = 1 <=> producers(dag, c) \subseteq Taken'
               ELSE producers(dag, c) \ Taken' = producers(dag, c) \ Taken
    <3> DEFINE W == producers(dag, c) \ Taken
    <3>1. CASE n \notin producers(dag, c)
      BY <2>2, <3>1
    <3>2. CASE n \in producers(dag, c)
      <4>1. IsFiniteSet(W) /\ n \in W
        BY <2>2, <2>3, <3>2, FiniteProducers
      <4>2. /\ IsFiniteSet(W \ {n})
            /\ Cardinality(W \ {n}) = Cardinality(W) - 1
        <5> HIDE DEF W
        <5> QED
          BY <4>1, FS_RemoveElement
      <4>3. producers(dag, c) \ Taken' = W \ {n}
        BY <2>2
      <4>4. Cardinality(W) = 1 <=> W \ {n} = {}
        <5>1. Cardinality(W \ {n}) = 0 <=> W \ {n} = {}
          BY <4>2, FS_EmptySet
        <5>2. Cardinality(W) \in Nat
          BY <4>1, FS_CardinalityType
        <5> HIDE DEF W
        <5> QED
          BY <4>2, <5>1, <5>2
      <4>5. W \ {n} = {} <=> producers(dag, c) \subseteq Taken'
        BY <4>3
      <4>6. indeg[c] = Cardinality(W)
        BY <2>6
      <4> HIDE DEF W
      <4> QED
        BY <3>2, <4>2, <4>3, <4>4, <4>5, <4>6
    <3> QED
      BY <3>1, <3>2
  <2>8. Waits'
    <3>1. ASSUME NEW c \in DOMAIN dag
          PROVE  indeg'[c] = Cardinality(producers(dag, c) \ Taken')
      <4>1. CASE n \in producers(dag, c)
        BY <2>1, <2>5, <2>7, <4>1
      <4>2. CASE n \notin producers(dag, c)
        BY <2>1, <2>5, <2>6, <2>7, <4>2
      <4> QED
        BY <4>1, <4>2
    <3> QED
      BY <2>1, <3>1 DEF Waits
  <2>9. Heap'
    <3>1. ASSUME NEW c \in DOMAIN dag
          PROVE  c \in ready' <=> /\ c \notin Taken'
                                  /\ producers(dag, c) \subseteq Taken'
      <4>1. c \in ready <=> c \notin Taken /\ producers(dag, c) \subseteq Taken
        BY DEF TopoInv, Heap
      <4>2. c \in released(n) <=> n \in producers(dag, c) /\ indeg[c] = 1
        BY <2>5 DEF released, consumers
      <4>3. n \in producers(dag, c) => c # n /\ c \notin Taken
        BY <2>2
      <4>4. n \in producers(dag, c) => c \notin ready
        BY <2>2, <4>1
      <4>5. CASE n \in producers(dag, c)
        BY <2>1, <2>2, <2>7, <4>2, <4>3, <4>4, <4>5
      <4>6. CASE n \notin producers(dag, c)
        BY <2>1, <2>2, <4>1, <4>2, <4>6
      <4> QED
        BY <4>5, <4>6
    <3>2. ready' \subseteq DOMAIN dag
      BY <2>1 DEF TopoInv, Heap, released, consumers
    <3> QED
      BY <2>1, <3>1, <3>2 DEF Heap
  <2>10. Ordered'
    <3>1. /\ DOMAIN order = 1 .. Len(order) /\ Len(order) \in Nat
          /\ DOMAIN order' = 1 .. Len(order) + 1
          /\ order'[Len(order) + 1] = n
          /\ \A j \in 1 .. Len(order) : order'[j] = order[j]
      BY <2>1, <2>2, <2>3
    <3>2. Taken = {order'[j] : j \in 1 .. Len(order)}
      BY <3>1 DEF Taken
    <3>3. ASSUME NEW i \in DOMAIN order', NEW j \in DOMAIN order',
                 order'[i] = order'[j]
          PROVE  i = j
      <4>1. \A k \in 1 .. Len(order) : order'[k] # n
        BY <2>2, <3>2
      <4>2. \A k, l \in 1 .. Len(order) : order[k] = order[l] => k = l
        BY <3>1 DEF TopoInv, Ordered
      <4> QED
        BY <3>1, <3>3, <4>1, <4>2
    <3>4. ASSUME NEW i \in DOMAIN order'
          PROVE  producers(dag, order'[i]) \subseteq {order'[j] : j \in 1 .. i - 1}
      <4>1. CASE i = Len(order) + 1
        BY <2>2, <3>1, <3>2, <4>1
      <4>2. CASE i \in 1 .. Len(order)
        <5>1. producers(dag, order[i]) \subseteq {order[j] : j \in 1 .. i - 1}
          BY <3>1, <4>2 DEF TopoInv, Ordered
        <5>2. \A j \in 1 .. i - 1 : order'[j] = order[j]
          BY <3>1, <4>2
        <5> QED
          BY <3>1, <4>2, <5>1, <5>2
      <4> QED
        BY <3>1, <4>1, <4>2
    <3> QED
      BY <2>1, <3>3, <3>4 DEF Ordered
  <2>11. CyclesLeft'
    <3> SUFFICES ASSUME NEW S \in SUBSET DOMAIN dag, Cyclic(S)
                 PROVE  S \cap Taken' = {}
      BY <2>1 DEF CyclesLeft, Cyclic
    <3>1. S \cap Taken = {}
      BY DEF TopoInv, CyclesLeft
    <3>2. n \notin S
      BY <2>2, <3>1 DEF Cyclic
    <3> QED
      BY <2>2, <3>1, <3>2
  <2> QED
    BY <2>4, <2>8, <2>9, <2>10, <2>11 DEF TopoInv
<1> QED
  BY <1>1, <1>2 DEF Pop

-----------------------------------------------------------------------------
(* The invariant of the sort: its heap and its counters agree with the order
   taken so far. *)
THEOREM HeapMatchesOrder == TopoSpec => []TopoInv
BY InitTopo, PopTopo, PTL DEF TopoSpec

(* Whatever the graph, a node is taken once and after all its producers. *)
THEOREM AlwaysTopological == TopoSpec => []Ordered
<1>1. TopoInv => Ordered
  BY DEF TopoInv
<1> QED
  BY <1>1, HeapMatchesOrder, PTL

(* A graph is refused only when some of its nodes wait for one another. *)
THEOREM OnlyCyclesRefused == TopoSpec => []RefusesCycles
<1>1. TopoInv => RefusesCycles
  <2> SUFFICES ASSUME TopoInv, ready = {}, Taken # DOMAIN dag
               PROVE  Cyclic(DOMAIN dag \ Taken)
    BY DEF RefusesCycles
  <2>1. Taken \subseteq DOMAIN dag
    BY DEF TopoInv, OrderOk, Taken
  <2>2. ASSUME NEW n \in DOMAIN dag \ Taken
        PROVE  producers(dag, n) \cap (DOMAIN dag \ Taken) # {}
    <3>1. ~(producers(dag, n) \subseteq Taken)
      BY DEF TopoInv, Heap
    <3>2. producers(dag, n) \subseteq DOMAIN dag
      BY DagsAssumption DEF TopoInv, OrderOk
    <3> QED
      BY <3>1, <3>2
  <2> QED
    BY <2>1, <2>2 DEF Cyclic
<1> QED
  BY <1>1, HeapMatchesOrder, PTL

(* And a graph with a cycle is never taken whole. *)
THEOREM CyclesNeverAccepted == TopoSpec => []AcceptsAcyclic
<1>1. TopoInv => AcceptsAcyclic
  BY DEF TopoInv, CyclesLeft, AcceptsAcyclic, Cyclic
<1> QED
  BY <1>1, HeapMatchesOrder, PTL
=============================================================================
