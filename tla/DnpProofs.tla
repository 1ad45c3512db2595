------------------------------ MODULE DnpProofs ------------------------------
(***************************************************************************)
(* Theorems about Dnp, for any number of neurons and of slots, any         *)
(* thresholds and any currents: its maps, its free list and its counters   *)
(* are sound; slots make no difference to any neuron; and with room for    *)
(* every neuron and pruning off it is the plain soma.                      *)
(***************************************************************************)
EXTENDS Dnp, FiniteSetTheorems, TLAPS

(* The inductive invariant: which slot a neuron takes depends on the free
   list, which slot is pushed on it depends on the maps. *)
Inv == TypeOK /\ MapsAgree /\ FreeListExact

-----------------------------------------------------------------------------
(* The ring. *)

(* The index after i. *)
LEMMA RingSuccessor ==
  ASSUME NEW i \in Place
  PROVE  (i + 1) % RingSize = IF i = NPhys THEN 0 ELSE i + 1
BY DnpAssumption DEF Place, RingSize

(* Popping removes the head from the window. *)
LEMMA WindowPop ==
  ASSUME NEW h \in Place, NEW t \in Place, h # t
  PROVE  /\ h \in Between(h, t)
         /\ (h + 1) % RingSize \in Place
         /\ Between((h + 1) % RingSize, t) = Between(h, t) \ {h}
<1>. DEFINE next == IF h = NPhys THEN 0 ELSE h + 1
<1>1. (h + 1) % RingSize = next
  BY RingSuccessor
<1>2. next \in Place /\ h \in Between(h, t)
  BY DnpAssumption DEF Place, Between
<1>3. Between(next, t) = Between(h, t) \ {h}
  BY DnpAssumption DEF Place, Between
<1>. QED  BY <1>1, <1>2, <1>3

(* Pushing adds the tail to the window, unless the ring is full. *)
LEMMA WindowPush ==
  ASSUME NEW h \in Place, NEW t \in Place, (t + 1) % RingSize # h
  PROVE  /\ t \notin Between(h, t)
         /\ (t + 1) % RingSize \in Place
         /\ Between(h, (t + 1) % RingSize) = Between(h, t) \cup {t}
<1>. DEFINE next == IF t = NPhys THEN 0 ELSE t + 1
<1>1. (t + 1) % RingSize = next
  BY RingSuccessor
<1>2. next \in Place /\ t \notin Between(h, t)
  BY DnpAssumption DEF Place, Between
<1>3. Between(h, next) = Between(h, t) \cup {t}
  BY <1>1, DnpAssumption DEF Place, Between
<1>. QED  BY <1>1, <1>2, <1>3

(* A window is made of places of the ring. *)
LEMMA WindowPlaces ==
  ASSUME NEW h \in Place, NEW t \in Place
  PROVE  Between(h, t) \subseteq Place
BY DnpAssumption DEF Place, Between

(* A full ring holds every slot: NPhys places, no two of which agree. *)
LEMMA FullRing ==
  ASSUME NEW h \in Place, NEW t \in Place, (t + 1) % RingSize = h,
         NEW list \in [Place -> Slot],
         \A i, j \in Between(h, t) : list[i] = list[j] => i = j
  PROVE  {list[i] : i \in Between(h, t)} = Slot
<1>1. Between(h, t) = Place \ {t}
  BY RingSuccessor, DnpAssumption DEF Place, Between
<1>2. IsFiniteSet(Place) /\ Cardinality(Place) = NPhys + 1
  BY FS_Interval, DnpAssumption DEF Place
<1>3. /\ IsFiniteSet(Place \ {t})
      /\ Cardinality(Place \ {t}) = NPhys
  BY <1>2, FS_RemoveElement, DnpAssumption
<1>4. IsFiniteSet(Slot) /\ Cardinality(Slot) = NPhys
  BY FS_Interval, DnpAssumption DEF Slot
<1>5. SUFFICES ASSUME NEW s \in Slot, s \notin {list[i] : i \in Place \ {t}}
               PROVE  FALSE
  BY <1>1
<1>6. /\ IsFiniteSet(Slot \ {s})
      /\ Cardinality(Slot \ {s}) = NPhys - 1
  BY <1>4, FS_RemoveElement
<1>. DEFINE f == [i \in Place \ {t} |-> list[i]]
<1>7. f \in [Place \ {t} -> Slot \ {s}]
  BY <1>5
<1>8. NPhys - 1 < NPhys
  BY DnpAssumption
<1>9. \E x, y \in Place \ {t} : x # y /\ f[x] = f[y]
  <2>. HIDE DEF f
  <2>1. Cardinality(Slot \ {s}) < Cardinality(Place \ {t})
    BY <1>3, <1>6, <1>8
  <2>. QED  BY <2>1, <1>3, <1>6, <1>7, FS_PigeonHole
<1>. QED  BY <1>1, <1>9

(* The membrane stays an integer. *)
LEMMA LifType ==
  ASSUME NEW v \in Int, NEW in \in Int
  PROVE  lif_step(v, in) \in Int
BY LifAssumption DEF lif_step, Integrated

-----------------------------------------------------------------------------
(* Initially no slot is taken and the ring lists all of them. *)
LEMMA InitInv == Init => Inv
<1>. SUFFICES ASSUME Init PROVE Inv
  OBVIOUS
<1>. USE DnpAssumption
<1>1. TypeOK
  BY DEF Init, TypeOK, NoCurrent, Neuron, Slot, Place
<1>2. MapsAgree
  BY DEF Init, MapsAgree
<1>3. FreeListExact
  <2>1. Window = 0 .. NPhys - 1
    BY DEF Init, Window, Between
  <2>2. \A i \in Window : free_list[i] = i
    BY <2>1 DEF Init, Place
  <2>3. {p \in Slot : ~valid[p]} = Slot
    BY DEF Init
  <2>. QED  BY <2>1, <2>2, <2>3 DEF FreeListExact, Slot
<1>. QED  BY <1>1, <1>2, <1>3 DEF Inv

(* A step that touches neither the maps nor the free list nor the owners
   preserves what the two properties say of them. *)
LEMMA MapsUntouched ==
  ASSUME Inv, UNCHANGED <<mapVars, freeVars, valid, rev_map>>
  PROVE  MapsAgree' /\ FreeListExact'
<1>1. MapsAgree'
  BY DEF Inv, MapsAgree, mapVars
<1>2. FreeListExact'
  BY DEF Inv, FreeListExact, Window, freeVars
<1>. QED  BY <1>1, <1>2

LEMMA CallInv ==
  ASSUME Inv, NEW input \in [Neuron -> Currents], Call(input)
  PROVE  Inv'
<1>1. TypeOK'
  <2>1. age' \in [Slot -> Nat]
    BY DEF Inv, TypeOK, Call
  <2>2. current' \in [Neuron -> Int]
    BY DnpAssumption DEF Call
  <2>. QED  BY <2>1, <2>2, DnpAssumption
         DEF Inv, TypeOK, Call, scratchVars, mapVars, freeVars, countVars
<1>2. MapsAgree' /\ FreeListExact'
  BY MapsUntouched DEF Call
<1>. QED  BY <1>1, <1>2 DEF Inv

(* The control variables of a loop over the neurons keep their type. *)
LEMMA UpdateLoop ==
  ASSUME TypeOK, pc = "update", Advance(NLog, "fire")
  PROVE  /\ at \in Neuron
         /\ pc' \in {"update", "fire"} /\ at' \in Nat
         /\ pc' = "update" => at' < NLog
         /\ pc' = "fire" => at' = 0
<1>1. at \in Nat /\ at < NLog
  BY DEF TypeOK
<1>. QED  BY <1>1, DnpAssumption DEF Advance, Neuron

LEMMA PruneLoop ==
  ASSUME TypeOK, pc = "prune", Advance(NPhys, "idle")
  PROVE  /\ at \in Slot
         /\ pc' \in {"prune", "idle"} /\ at' \in Nat
         /\ pc' = "prune" => at' < NPhys
         /\ pc' = "idle" => at' = 0
<1>1. at \in Nat /\ at < NPhys
  BY DEF TypeOK
<1>. QED  BY <1>1, DnpAssumption DEF Advance, Slot

LEMMA IgnoreInv ==
  ASSUME Inv, Ignore
  PROVE  Inv'
<1>1. TypeOK'
  BY UpdateLoop
     DEF Inv, TypeOK, Ignore, slotVars, scratchVars, mapVars, freeVars, countVars
<1>2. MapsAgree' /\ FreeListExact'
  BY MapsUntouched DEF Ignore, slotVars
<1>. QED  BY <1>1, <1>2 DEF Inv

LEMMA StageInv ==
  ASSUME Inv, Stage
  PROVE  Inv'
<1>0. at \in Neuron
  BY UpdateLoop DEF Inv, Stage
<1>1. TypeOK'
  <2>1. slot_input' \in [Slot -> Int] /\ age' \in [Slot -> Nat]
    BY <1>0 DEF Inv, TypeOK, Stage
  <2>. QED  BY <2>1, UpdateLoop
         DEF Inv, TypeOK, Stage, mapVars, freeVars, countVars
<1>2. MapsAgree' /\ FreeListExact'
  BY MapsUntouched DEF Stage
<1>. QED  BY <1>1, <1>2 DEF Inv

(* The slot popped is not valid, so it has no owner that could lose it. *)
LEMMA AllocateInv ==
  ASSUME Inv, Allocate
  PROVE  Inv'
<1>. DEFINE p == free_list[free_head]
<1>0. /\ at \in Neuron /\ free_head \in Place /\ free_tail \in Place
      /\ free_head # free_tail /\ ~map_valid[at]
  BY UpdateLoop DEF Inv, TypeOK, Allocate, free_empty
<1>1. /\ free_head \in Window
      /\ free_head' \in Place
      /\ Window' = Window \ {free_head}
  BY <1>0, WindowPop DEF Allocate, Window
<1>2. p \in Slot /\ ~valid[p]
  BY <1>0, <1>1 DEF Inv, TypeOK, FreeListExact
<1>3. TypeOK'
  <2>1. /\ potential' \in [Slot -> Int] /\ valid' \in [Slot -> BOOLEAN]
        /\ age' \in [Slot -> Nat] /\ pending' \in [Slot -> BOOLEAN]
        /\ rev_map' \in [Slot -> Neuron] /\ slot_input' \in [Slot -> Int]
    BY <1>0, <1>2 DEF Inv, TypeOK, Allocate
  <2>2. map_table' \in [Neuron -> Slot] /\ map_valid' \in [Neuron -> BOOLEAN]
    BY <1>0, <1>2 DEF Inv, TypeOK, Allocate
  <2>3. live' \in Int /\ free_head' \in Place
    BY <1>1 DEF Inv, TypeOK, Allocate
  <2>. QED  BY <2>1, <2>2, <2>3, UpdateLoop DEF Inv, TypeOK, Allocate
<1>4. MapsAgree'
  <2>1. ASSUME NEW n \in Neuron, map_valid'[n]
        PROVE  valid'[map_table'[n]] /\ rev_map'[map_table'[n]] = n
    <3>1. CASE n = at
      BY <3>1, <1>0, <1>2 DEF Inv, TypeOK, Allocate
    <3>2. CASE n # at
      <4>1. /\ map_valid[n] /\ map_table'[n] = map_table[n]
            /\ map_table[n] \in Slot
        BY <3>2, <2>1, <1>0 DEF Inv, TypeOK, Allocate
      <4>2. valid[map_table[n]] /\ rev_map[map_table[n]] = n
        BY <4>1 DEF Inv, MapsAgree
      <4>. QED  BY <4>1, <4>2, <1>2 DEF Inv, TypeOK, Allocate
    <3>. QED  BY <3>1, <3>2
  <2>2. ASSUME NEW q \in Slot, valid'[q]
        PROVE  map_valid'[rev_map'[q]] /\ map_table'[rev_map'[q]] = q
    <3>1. CASE q = p
      BY <3>1, <1>0, <1>2 DEF Inv, TypeOK, Allocate
    <3>2. CASE q # p
      <4>1. valid[q] /\ rev_map'[q] = rev_map[q] /\ rev_map[q] \in Neuron
        BY <3>2, <2>2, <1>2 DEF Inv, TypeOK, Allocate
      <4>2. map_valid[rev_map[q]] /\ map_table[rev_map[q]] = q
        BY <4>1 DEF Inv, MapsAgree
      <4>3. rev_map[q] # at
        BY <4>2, <1>0
      <4>. QED  BY <4>1, <4>2, <4>3, <1>0 DEF Inv, TypeOK, Allocate
    <3>. QED  BY <3>1, <3>2
  <2>. QED  BY <2>1, <2>2 DEF MapsAgree
<1>5. FreeListExact'
  <2>1. free_list' = free_list
    BY DEF Allocate
  <2>2. {x \in Slot : ~valid'[x]} = {x \in Slot : ~valid[x]} \ {p}
    BY <1>2 DEF Inv, TypeOK, Allocate
  <2>3. \A i, j \in Window : free_list[i] = free_list[j] => i = j
    BY DEF Inv, FreeListExact
  <2>4. {free_list[i] : i \in Window \ {free_head}}
          = {free_list[i] : i \in Window} \ {p}
    BY <1>1, <2>3
  <2>5. {free_list'[i] : i \in Window'} = {x \in Slot : ~valid'[x]}
    BY <1>1, <2>1, <2>2, <2>4 DEF Inv, FreeListExact
  <2>6. \A i, j \in Window' : free_list'[i] = free_list'[j] => i = j
    BY <1>1, <2>1, <2>3
  <2>. QED  BY <2>5, <2>6 DEF FreeListExact
<1>. QED  BY <1>3, <1>4, <1>5 DEF Inv

LEMMA FireInv ==
  ASSUME Inv, Fire
  PROVE  Inv'
<1>1. TypeOK'
  <2>1. potential' \in [Slot -> Int] /\ slot_input' \in [Slot -> Int]
    <3>1. ASSUME NEW p \in Slot
          PROVE  potential[p] \in Int /\ slot_input[p] \in Int
      BY DEF Inv, TypeOK
    <3>2. \A p \in Slot : lif_step(potential[p], slot_input[p]) \in Int
      BY <3>1, LifType
    <3>. QED  BY <3>1, <3>2 DEF Fire
  <2>2. age' \in [Slot -> Nat] /\ peak' \in Int
    BY DEF Inv, TypeOK, Fire
  <2>3. fired_mask' \in [Slot -> BOOLEAN]
    BY Zenon DEF Inv, TypeOK, Fire, SlotFires, Fires, Finalized
  <2>4. out' \subseteq Neuron
    BY DEF Inv, TypeOK, Fire
  <2>5. pc' = "prune" /\ at' = at /\ at = 0
    BY DEF Inv, TypeOK, Fire
  <2>. QED  BY <2>1, <2>2, <2>3, <2>4, <2>5, DnpAssumption
         DEF Inv, TypeOK, Fire, mapVars, freeVars
<1>2. MapsAgree' /\ FreeListExact'
  BY MapsUntouched DEF Fire
<1>. QED  BY <1>1, <1>2 DEF Inv

LEMMA KeepInv ==
  ASSUME Inv, Keep
  PROVE  Inv'
<1>0. at \in Slot
  BY PruneLoop DEF Inv, Keep, NextSlot
<1>1. TypeOK'
  <2>1. fired_mask' \in [Slot -> BOOLEAN]
    BY <1>0 DEF Inv, TypeOK, Keep
  <2>2. current' \in [Neuron -> Int]
    BY DEF Inv, TypeOK, Keep, NextSlot, NoCurrent
  <2>. QED  BY <2>1, <2>2, PruneLoop
         DEF Inv, TypeOK, Keep, NextSlot, slotVars, mapVars, freeVars, countVars
<1>2. MapsAgree' /\ FreeListExact'
  BY MapsUntouched DEF Keep, slotVars
<1>. QED  BY <1>1, <1>2 DEF Inv

(* The slot pushed is valid, so it is not on the list, so the ring is not
   full. *)
LEMMA ReclaimInv ==
  ASSUME Inv, reclaim
  PROVE  Inv'
<1>0. /\ at \in Slot /\ valid[at]
      /\ free_head \in Place /\ free_tail \in Place
  BY PruneLoop DEF Inv, TypeOK, reclaim, NextSlot, Zombie, Finalized
<1>1. rev_map[at] \in Neuron /\ map_valid[rev_map[at]] /\ map_table[rev_map[at]] = at
  BY <1>0 DEF Inv, TypeOK, MapsAgree
<1>2. (free_tail + 1) % RingSize # free_head
  <2>1. SUFFICES ASSUME (free_tail + 1) % RingSize = free_head PROVE FALSE
    OBVIOUS
  <2>2. {free_list[i] : i \in Window} = Slot
    BY <2>1, <1>0, FullRing DEF Inv, TypeOK, FreeListExact, Window
  <2>. QED  BY <2>2, <1>0 DEF Inv, FreeListExact
<1>3. /\ free_tail \notin Window
      /\ free_tail' \in Place
      /\ Window' = Window \cup {free_tail}
  BY <1>0, <1>2, WindowPush DEF reclaim, Window
<1>4. TypeOK'
  <2>1. valid' \in [Slot -> BOOLEAN] /\ pending' \in [Slot -> BOOLEAN]
    BY <1>0 DEF Inv, TypeOK, reclaim
  <2>2. map_valid' \in [Neuron -> BOOLEAN]
    BY <1>1 DEF Inv, TypeOK, reclaim
  <2>3. free_list' \in [Place -> Slot] /\ live' \in Int
    BY <1>0 DEF Inv, TypeOK, reclaim
  <2>4. current' \in [Neuron -> Int]
    BY DEF Inv, TypeOK, reclaim, NextSlot, NoCurrent
  <2>. QED  BY <1>3, <2>1, <2>2, <2>3, <2>4, PruneLoop
         DEF Inv, TypeOK, reclaim, NextSlot, scratchVars
<1>5. MapsAgree'
  <2>1. rev_map' = rev_map /\ map_table' = map_table
    BY DEF reclaim
  <2>2. ASSUME NEW n \in Neuron, map_valid'[n]
        PROVE  valid'[map_table[n]] /\ rev_map[map_table[n]] = n
    <3>1. map_valid[n] /\ n # rev_map[at]
      BY <2>2, <1>1 DEF Inv, TypeOK, reclaim
    <3>2. valid[map_table[n]] /\ rev_map[map_table[n]] = n
      BY <3>1 DEF Inv, MapsAgree
    <3>3. map_table[n] # at /\ map_table[n] \in Slot
      BY <3>1, <3>2 DEF Inv, TypeOK
    <3>. QED  BY <3>2, <3>3, <1>0 DEF Inv, TypeOK, reclaim
  <2>3. ASSUME NEW q \in Slot, valid'[q]
        PROVE  map_valid'[rev_map[q]] /\ map_table[rev_map[q]] = q
    <3>1. valid[q] /\ q # at
      BY <2>3, <1>0 DEF Inv, TypeOK, reclaim
    <3>2. map_valid[rev_map[q]] /\ map_table[rev_map[q]] = q
      BY <3>1 DEF Inv, MapsAgree
    <3>3. rev_map[q] # rev_map[at] /\ rev_map[q] \in Neuron
      BY <3>1, <3>2, <1>1 DEF Inv, TypeOK
    <3>. QED  BY <3>2, <3>3, <1>1 DEF Inv, TypeOK, reclaim
  <2>. QED  BY <2>1, <2>2, <2>3 DEF MapsAgree
<1>6. FreeListExact'
  <2>. DEFINE list == free_list
              list2 == [list EXCEPT ![free_tail] = at]
  <2>1. free_list' = list2
    BY DEF reclaim
  <2>2. Window \subseteq Place
    BY <1>0, WindowPlaces DEF Window
  <2>3. \A i \in Window : list2[i] = list[i]
    BY <1>3, <2>2 DEF Inv, TypeOK
  <2>4. list2[free_tail] = at
    BY <1>0 DEF Inv, TypeOK
  <2>5. {list[i] : i \in Window} = {x \in Slot : ~valid[x]}
    BY DEF Inv, FreeListExact
  <2>6. \A i, j \in Window : list[i] = list[j] => i = j
    BY DEF Inv, FreeListExact
  <2>7. {x \in Slot : ~valid'[x]} = {x \in Slot : ~valid[x]} \cup {at}
    BY <1>0 DEF Inv, TypeOK, reclaim
  <2>8. at \notin {list[i] : i \in Window}
    BY <2>5, <1>0
  <2>. HIDE DEF list, list2
  <2>9. \A i, j \in Window \cup {free_tail} : list2[i] = list2[j] => i = j
    BY <2>3, <2>4, <2>6, <2>8
  <2>10. {list2[i] : i \in Window \cup {free_tail}}
           = {list[i] : i \in Window} \cup {at}
    BY <2>3, <2>4
  <2>. QED  BY <1>3, <2>1, <2>5, <2>7, <2>9, <2>10 DEF FreeListExact
<1>. QED  BY <1>4, <1>5, <1>6 DEF Inv

LEMMA ResetInv ==
  ASSUME Inv, reset
  PROVE  Inv'
<1>1. free_list' = [i \in Place |-> IF i = NPhys THEN free_list[i] ELSE i]
  BY DEF reset, Cleared
<1>2. TypeOK'
  <2>1. free_list' \in [Place -> Slot]
    <3>1. \A i \in Place : i # NPhys => i \in Slot
      BY DnpAssumption DEF Place, Slot
    <3>. QED  BY <1>1, <3>1 DEF Inv, TypeOK
  <2>2. free_head' \in Place /\ free_tail' \in Place
    BY DnpAssumption DEF reset, Cleared, Place
  <2>. QED  BY <2>1, <2>2, DnpAssumption DEF Inv, TypeOK, reset, Cleared
<1>3. MapsAgree'
  BY DEF reset, Cleared, MapsAgree
<1>4. FreeListExact'
  <2>1. Window' = 0 .. NPhys - 1
    BY DnpAssumption DEF reset, Cleared, Window, Between
  <2>2. \A i \in Window' : free_list'[i] = i
    BY <2>1, <1>1, DnpAssumption DEF Place
  <2>3. {p \in Slot : ~valid'[p]} = Slot
    BY DEF reset, Cleared
  <2>. QED  BY <2>1, <2>2, <2>3 DEF FreeListExact, Slot
<1>. QED  BY <1>2, <1>3, <1>4 DEF Inv

LEMMA ResetMetricsInv ==
  ASSUME Inv, reset_metrics
  PROVE  Inv'
<1>1. TypeOK'
  BY DEF Inv, TypeOK, reset_metrics, slotVars, scratchVars, mapVars, freeVars,
         callVars
<1>2. MapsAgree' /\ FreeListExact'
  BY MapsUntouched DEF reset_metrics, slotVars
<1>. QED  BY <1>1, <1>2 DEF Inv

LEMMA StutterInv ==
  ASSUME Inv, UNCHANGED dnpVars
  PROVE  Inv'
<1>1. TypeOK'
  BY DEF Inv, TypeOK, dnpVars, slotVars, scratchVars, mapVars, freeVars,
         countVars, callVars
<1>2. MapsAgree' /\ FreeListExact'
  BY MapsUntouched DEF dnpVars, slotVars
<1>. QED  BY <1>1, <1>2 DEF Inv

(* Every step preserves the invariant. *)
LEMMA NextInv == Inv /\ [Next]_dnpVars => Inv'
<1>. SUFFICES ASSUME Inv, [Next]_dnpVars PROVE Inv'
  OBVIOUS
<1>1. ASSUME NEW input \in [Neuron -> Currents], Call(input) PROVE Inv'
  BY <1>1, CallInv
<1>2. CASE Ignore
  BY <1>2, IgnoreInv
<1>3. CASE Stage
  BY <1>3, StageInv
<1>4. CASE Allocate
  BY <1>4, AllocateInv
<1>5. CASE Fire
  BY <1>5, FireInv
<1>6. CASE Keep
  BY <1>6, KeepInv
<1>7. CASE reclaim
  BY <1>7, ReclaimInv
<1>8. CASE reset
  BY <1>8, ResetInv
<1>9. CASE reset_metrics
  BY <1>9, ResetMetricsInv
<1>10. CASE UNCHANGED dnpVars
  BY <1>10, StutterInv
<1>. QED
  BY <1>1, <1>2, <1>3, <1>4, <1>5, <1>6, <1>7, <1>8, <1>9, <1>10 DEF Next

(* The invariant holds of every run. *)
LEMMA Invariant == Spec => []Inv
<1>1. Init => Inv
  BY InitInv
<1>2. Inv /\ [Next]_dnpVars => Inv'
  BY NextInv
<1>. QED  BY <1>1, <1>2, PTL DEF Spec

(* The maps are inverse to each other, in the middle of a step too: no two
   neurons ever share a slot (map_table_ and rev_map_ of Dnp). *)
THEOREM MapBijection == Spec => []MapsAgree
<1>1. Inv => MapsAgree
  BY DEF Inv
<1>. QED  BY <1>1, Invariant, PTL

(* The free list holds exactly the slots that are not valid, each once, and
   its ring never overflows. *)
THEOREM FreeListSound == Spec => []FreeListExact
<1>1. Inv => FreeListExact
  BY DEF Inv
<1>. QED  BY <1>1, Invariant, PTL

(* Every variable of Dnp keeps its type. *)
THEOREM DnpTypeCorrect == Spec => []TypeOK
<1>1. Inv => TypeOK
  BY DEF Inv
<1>. QED  BY <1>1, Invariant, PTL

-----------------------------------------------------------------------------
(* Occupancy, and what a step leaves behind: the inputs of a step are used up
   by Fire, its marks are taken away slot by slot. *)
Tidy ==
  /\ live = Cardinality({p \in Slot : valid[p]})
  /\ pc \in {"idle", "prune"} => peak >= live
  /\ \A p \in Slot : ~(valid[p] /\ pending[p])
  /\ \A p \in Slot : ~valid[p] \/ pc \in {"idle", "prune"} => slot_input[p] = 0
  /\ \A p \in Slot : fired_mask[p] => valid[p] /\ pc = "prune" /\ p >= at

LEMMA SlotsFinite ==
  ASSUME NEW S \in SUBSET Slot
  PROVE  IsFiniteSet(S) /\ Cardinality(S) \in Nat
<1>1. IsFiniteSet(Slot)
  BY FS_Interval, DnpAssumption DEF Slot
<1>. QED  BY <1>1, FS_Subset, FS_CardinalityType

LEMMA InitTidy == Init => Tidy
<1>. SUFFICES ASSUME Init PROVE Tidy
  OBVIOUS
<1>1. {p \in Slot : valid[p]} = {}
  BY DEF Init
<1>. QED  BY <1>1, FS_EmptySet DEF Init, Tidy

(* While the owners of the slots stay, so does their number. *)
LEMMA SameOccupancy ==
  ASSUME Tidy, UNCHANGED <<valid, pending, live>>
  PROVE  /\ live' = Cardinality({p \in Slot : valid'[p]})
         /\ \A p \in Slot : ~(valid'[p] /\ pending'[p])
BY DEF Tidy

LEMMA AllocateTidy ==
  ASSUME Inv, Tidy, Allocate
  PROVE  Tidy'
<1>. DEFINE p == free_list[free_head]
            V == {q \in Slot : valid[q]}
<1>0. /\ at \in Neuron /\ free_head \in Place /\ free_tail \in Place
      /\ free_head # free_tail /\ ~map_valid[at]
  BY UpdateLoop DEF Inv, TypeOK, Allocate, free_empty
<1>1. free_head \in Window
  BY <1>0, WindowPop DEF Window
<1>2. p \in Slot /\ ~valid[p]
  BY <1>0, <1>1 DEF Inv, TypeOK, FreeListExact
<1>3. {q \in Slot : valid'[q]} = V \cup {p}
  BY <1>2 DEF Allocate, Inv, TypeOK
<1>4. live' = Cardinality({q \in Slot : valid'[q]})
  <2>1. live' = live + 1 /\ live = Cardinality(V) /\ p \notin V
    BY <1>2 DEF Allocate, Tidy
  <2>2. IsFiniteSet(V) /\ Cardinality(V) \in Nat
    BY SlotsFinite
  <2>3. Cardinality(V \cup {p}) = Cardinality(V) + 1
    <3>. HIDE DEF V, p
    <3>. QED  BY <2>1, <2>2, FS_AddElement
  <2>. QED  BY <1>3, <2>1, <2>3
<1>5. \A q \in Slot : /\ valid'[q] = IF q = p THEN TRUE ELSE valid[q]
                      /\ pending'[q] = IF q = p THEN FALSE ELSE pending[q]
                      /\ slot_input'[q] = IF q = p THEN current[at] ELSE slot_input[q]
                      /\ fired_mask'[q] = fired_mask[q]
  BY <1>2 DEF Allocate, Inv, TypeOK
<1>6. pc = "update" /\ pc' \in {"update", "fire"}
  BY UpdateLoop DEF Inv, Allocate
<1>7. \A q \in Slot : ~(valid'[q] /\ pending'[q])
  BY <1>5 DEF Tidy
<1>8. \A q \in Slot : ~valid'[q] => slot_input'[q] = 0
  BY <1>5 DEF Tidy
<1>9. \A q \in Slot : ~fired_mask'[q]
  BY <1>5, <1>6 DEF Tidy
<1>. QED  BY <1>4, <1>6, <1>7, <1>8, <1>9 DEF Tidy

LEMMA ReclaimTidy ==
  ASSUME Inv, Tidy, reclaim
  PROVE  Tidy'
<1>. DEFINE V == {q \in Slot : valid[q]}
<1>0. /\ at \in Slot /\ valid[at] /\ ~fired_mask[at]
      /\ pc = "prune" /\ pc' \in {"prune", "idle"}
      /\ pc' = "prune" => at' = at + 1
      /\ pc' = "idle" => at + 1 = NPhys
  BY PruneLoop DEF Inv, TypeOK, reclaim, NextSlot, Advance, Zombie, Finalized
<1>1. {q \in Slot : valid'[q]} = V \ {at}
  BY <1>0 DEF reclaim, Inv, TypeOK
<1>2. /\ live' = live - 1 /\ live = Cardinality(V) /\ at \in V
      /\ IsFiniteSet(V) /\ Cardinality(V) \in Nat /\ peak' = peak /\ peak >= live
      /\ peak \in Int
  BY <1>0, SlotsFinite DEF reclaim, Tidy, Inv, TypeOK
<1>3. live' = Cardinality({q \in Slot : valid'[q]})
  <2>1. Cardinality(V \ {at}) = Cardinality(V) - 1
    <3>. HIDE DEF V
    <3>. QED  BY <1>2, FS_RemoveElement
  <2>. QED  BY <1>1, <1>2, <2>1
<1>4. peak' >= live'
  BY <1>2
<1>5. \A q \in Slot : /\ valid'[q] = IF q = at THEN FALSE ELSE valid[q]
                      /\ pending'[q] = IF q = at THEN TRUE ELSE pending[q]
                      /\ slot_input'[q] = slot_input[q] /\ fired_mask'[q] = fired_mask[q]
  BY <1>0 DEF reclaim, scratchVars, Inv, TypeOK
<1>6. \A q \in Slot : ~(valid'[q] /\ pending'[q])
  BY <1>5 DEF Tidy
<1>7. \A q \in Slot : slot_input'[q] = 0
  BY <1>0, <1>5 DEF Tidy
<1>8. \A q \in Slot : fired_mask'[q] => valid'[q] /\ pc' = "prune" /\ q >= at'
  <2>1. SUFFICES ASSUME NEW q \in Slot, fired_mask'[q]
                 PROVE  valid'[q] /\ pc' = "prune" /\ q >= at'
    OBVIOUS
  <2>2. fired_mask[q] /\ valid[q] /\ q >= at /\ q # at
    BY <1>0, <1>5, <2>1 DEF Tidy
  <2>3. q >= at + 1 /\ at + 1 # NPhys
    BY <1>0, <2>2, DnpAssumption DEF Slot
  <2>. QED  BY <1>0, <1>5, <2>2, <2>3
<1>. QED  BY <1>3, <1>4, <1>6, <1>7, <1>8 DEF Tidy

LEMMA KeepTidy ==
  ASSUME Inv, Tidy, Keep
  PROVE  Tidy'
<1>0. /\ at \in Slot /\ pc = "prune" /\ pc' \in {"prune", "idle"}
      /\ pc' = "prune" => at' = at + 1
      /\ pc' = "idle" => at + 1 = NPhys
  BY PruneLoop DEF Inv, Keep, NextSlot, Advance
<1>1. /\ UNCHANGED <<valid, pending, live, peak, slot_input>>
      /\ fired_mask' = [fired_mask EXCEPT ![at] = @ /\ ~Finalized(at)]
  BY DEF Keep, slotVars, countVars
<1>2. \A q \in Slot : fired_mask'[q] => valid'[q] /\ pc' = "prune" /\ q >= at'
  <2>1. SUFFICES ASSUME NEW q \in Slot, fired_mask'[q]
                 PROVE  valid'[q] /\ pc' = "prune" /\ q >= at'
    OBVIOUS
  <2>2. fired_mask[q] /\ valid[q] /\ q >= at /\ q # at
    <3>1. q # at => fired_mask'[q] = fired_mask[q]
      BY <1>0, <1>1 DEF Inv, TypeOK
    <3>2. fired_mask'[at] <=> fired_mask[at] /\ ~Finalized(at)
      BY <1>0, <1>1 DEF Inv, TypeOK
    <3>3. fired_mask[at] => Finalized(at)
      BY <1>0 DEF Tidy, Finalized
    <3>. QED  BY <2>1, <3>1, <3>2, <3>3 DEF Tidy
  <2>3. q >= at + 1 /\ at + 1 # NPhys
    BY <1>0, <2>2, DnpAssumption DEF Slot
  <2>. QED  BY <1>0, <1>1, <2>2, <2>3
<1>3. \A q \in Slot : slot_input'[q] = 0
  BY <1>0, <1>1 DEF Tidy
<1>4. peak' >= live'
  BY <1>0, <1>1 DEF Tidy
<1>. QED  BY <1>1, <1>2, <1>3, <1>4, SameOccupancy DEF Tidy

LEMMA FireTidy ==
  ASSUME Inv, Tidy, Fire
  PROVE  Tidy'
<1>1. /\ UNCHANGED <<valid, pending, live>> /\ pc = "fire" /\ pc' = "prune" /\ at' = at
      /\ peak' = (IF live > peak THEN live ELSE peak) /\ at = 0
  BY DEF Fire, Inv, TypeOK
<1>2. \A q \in Slot : /\ slot_input'[q] = IF Finalized(q) THEN 0 ELSE slot_input[q]
                      /\ fired_mask'[q] <=> fired_mask[q] \/ SlotFires(q)
  BY DEF Fire
<1>3. \A q \in Slot : slot_input'[q] = 0
  BY <1>2 DEF Tidy, Finalized
<1>4. \A q \in Slot : fired_mask'[q] => valid'[q] /\ q >= at'
  <2>1. \A q \in Slot : fired_mask'[q] => valid[q]
    BY <1>1, <1>2 DEF Tidy, SlotFires, Finalized
  <2>2. \A q \in Slot : q >= 0
    BY DEF Slot
  <2>. QED  BY <1>1, <2>1, <2>2
<1>5. peak' >= live'
  BY <1>1 DEF Inv, TypeOK
<1>. QED  BY <1>1, <1>3, <1>4, <1>5, SameOccupancy DEF Tidy

LEMMA StageTidy ==
  ASSUME Inv, Tidy, Stage
  PROVE  Tidy'
<1>0. /\ at \in Neuron /\ map_valid[at] /\ pc = "update" /\ pc' \in {"update", "fire"}
      /\ UNCHANGED <<valid, pending, live, fired_mask>>
  BY UpdateLoop DEF Inv, Stage, countVars
<1>1. map_table[at] \in Slot /\ valid[map_table[at]]
  BY <1>0 DEF Inv, TypeOK, MapsAgree
<1>2. \A q \in Slot : q # map_table[at] => slot_input'[q] = slot_input[q]
  BY <1>1 DEF Stage, Inv, TypeOK
<1>3. \A q \in Slot : ~valid'[q] => slot_input'[q] = 0
  BY <1>0, <1>1, <1>2 DEF Tidy
<1>4. \A q \in Slot : ~fired_mask'[q]
  BY <1>0 DEF Tidy
<1>. QED  BY <1>0, <1>3, <1>4, SameOccupancy DEF Tidy

LEMMA StepTidy == Inv /\ Tidy /\ [Next]_dnpVars => Tidy'
<1>. SUFFICES ASSUME Inv, Tidy, [Next]_dnpVars PROVE Tidy'
  OBVIOUS
<1>1. ASSUME NEW input \in [Neuron -> Currents], Call(input) PROVE Tidy'
  <2>1. /\ UNCHANGED <<valid, pending, live, slot_input, fired_mask>>
        /\ pc = "idle" /\ pc' = "update"
    BY <1>1 DEF Call, scratchVars, countVars
  <2>. QED  BY <2>1, SameOccupancy DEF Tidy
<1>2. CASE Ignore
  <2>1. /\ UNCHANGED <<valid, pending, live, slot_input, fired_mask>>
        /\ pc = "update" /\ pc' \in {"update", "fire"}
    BY <1>2, UpdateLoop DEF Inv, Ignore, slotVars, scratchVars, countVars
  <2>. QED  BY <2>1, SameOccupancy DEF Tidy
<1>3. CASE reset
  <2>1. {p \in Slot : valid'[p]} = {}
    BY <1>3 DEF reset, Cleared
  <2>2. live' = 0 /\ peak' = 0 /\ Cardinality({}) = 0
    BY <1>3, FS_EmptySet DEF reset, Cleared
  <2>3. \A q \in Slot : ~valid'[q] /\ slot_input'[q] = 0 /\ ~fired_mask'[q]
    BY <1>3 DEF reset, Cleared
  <2>. QED  BY <2>1, <2>2, <2>3 DEF Tidy
<1>4. CASE reset_metrics
  <2>1. /\ UNCHANGED <<valid, pending, live, slot_input, fired_mask, pc, at>>
        /\ peak' = live /\ live \in Int
    BY <1>4 DEF reset_metrics, slotVars, scratchVars, callVars, Inv, TypeOK
  <2>. QED  BY <2>1, SameOccupancy DEF Tidy
<1>5. CASE UNCHANGED dnpVars
  BY <1>5 DEF dnpVars, slotVars, scratchVars, countVars, callVars, Tidy
<1>. QED
  BY <1>1, <1>2, <1>3, <1>4, <1>5, StageTidy, AllocateTidy, FireTidy, KeepTidy, ReclaimTidy
     DEF Next

LEMMA TidyHolds == Spec => []Tidy
BY InitTidy, StepTidy, Invariant, PTL DEF Spec

(* live_ counts the valid slots, peak_ bounds it, no valid slot is pending
   and no input or mark outlives its step. *)
THEOREM OccupancyCounted == Spec => []OccupancyExact
<1>1. Tidy => OccupancyExact
  BY DEF Tidy, OccupancyExact
<1>. QED  BY <1>1, TidyHolds, PTL

-----------------------------------------------------------------------------
(* The refinement of NeuronStore: what the step under way has made so far of
   the store that was shown at the end of the last one. *)

Held == DOMAIN shown.membrane
Asking == {n \in Neuron : current[n] # 0} \ Held
Coming == Store!Entering(shown, current, NPhys)
Inside == Held \cup Coming
MembraneBefore(n) == IF n \in Held THEN shown.membrane[n] ELSE 0
Firing(n) == Fires(MembraneBefore(n), current[n])
MembraneAfter(n) == lif_step(MembraneBefore(n), current[n])
IdleAfter(n) == IF Firing(n) \/ current[n] # 0 THEN 0 ELSE shown.idle[n] + 1
Staying(n) == Firing(n) \/ (IdleAfter(n) < AgeThresh /\ MembraneAfter(n) > PotThresh)

(* The neurons whose turn in UpdateFSM is over. *)
Served == IF pc = "update" THEN 0 .. at - 1 ELSE Neuron

Rested ==
  /\ Mapped = Held
  /\ \A n \in Held : /\ potential[map_table[n]] = shown.membrane[n]
                     /\ age[map_table[n]] = shown.idle[n]
  /\ {n \in Neuron : ever_mapped[n]} = shown.ever

(* Up to Fire: the neurons that enter do so in their order, until the slots
   are taken. *)
Entered ==
  /\ Mapped = Held \cup (Coming \cap Served)
  /\ Asking \cap Served \subseteq Mapped \/ \A p \in Slot : valid[p]
  /\ {n \in Neuron : ever_mapped[n]} = shown.ever \cup (Coming \cap Served)
  /\ \A n \in Mapped :
       /\ potential[map_table[n]] = MembraneBefore(n)
       /\ age[map_table[n]] = IF n \in Served /\ current[n] # 0 THEN 0 ELSE shown.idle[n] + 1
       /\ slot_input[map_table[n]] = IF n \in Served THEN current[n] ELSE 0

(* After Fire: the slots before at have been visited. *)
Swept ==
  /\ Mapped = {n \in Inside : map_table[n] >= at \/ Staying(n)}
  /\ {n \in Neuron : ever_mapped[n]} = shown.ever \cup Coming
  /\ out = {n \in Inside : Firing(n)}
  /\ \A n \in Inside :
       /\ rev_map[map_table[n]] = n
       /\ potential[map_table[n]] = MembraneAfter(n)
       /\ age[map_table[n]] = IdleAfter(n)
       /\ fired_mask[map_table[n]] <=> Firing(n) /\ map_table[n] >= at

Stored ==
  /\ Held \subseteq Neuron /\ DOMAIN shown.idle = Held
  /\ \A n \in Held : shown.membrane[n] \in Int /\ shown.idle[n] \in Nat
  /\ pc # "idle" => current \in [Neuron -> Currents]
  /\ pc = "idle" => Rested
  /\ pc \in {"update", "fire"} => Entered
  /\ pc = "prune" => Swept

(* What the abstract step says, in these terms. *)
LEMMA SameCardinality ==
  ASSUME NEW S
  PROVE  Store!Cardinality(S) = Cardinality(S)
BY Zenon DEF Store!Cardinality, Cardinality

LEMMA ComingIs ==
  ASSUME Stored, pc # "idle"
  PROVE  Coming = {n \in Asking : Cardinality({m \in Asking : m < n})
                                    < NPhys - Cardinality(Held)}
<1>1. DOMAIN current = Neuron
  BY DEF Stored
<1>2. {n \in DOMAIN current : current[n] # 0} \ Store!held(shown) = Asking
  BY <1>1 DEF Asking, Held, Store!held
<1>3. Coming = {n \in {m \in DOMAIN current : current[m] # 0} \ Store!held(shown) :
                   Cardinality({m \in {k \in DOMAIN current : current[k] # 0}
                                      \ Store!held(shown) : m < n})
                     < NPhys - Cardinality(Store!held(shown))}
  BY SameCardinality, Zenon DEF Coming, Store!Entering
<1>. QED  BY <1>2, <1>3 DEF Held, Store!held

LEMMA StoreStepIs ==
  ASSUME Stored, pc # "idle"
  PROVE  Store!StoreStep(shown, current, NPhys) =
           [membrane |-> [n \in {x \in Inside : Staying(x)} |-> MembraneAfter(n)],
            idle     |-> [n \in {x \in Inside : Staying(x)} |-> IdleAfter(n)],
            ever     |-> shown.ever \cup Coming,
            fired    |-> {n \in Inside : Firing(n)}]
BY Zenon DEF Store!StoreStep, Store!held, Store!Fires, Store!Integrated, Store!lif_step,
       Coming, Held, Inside, Firing, MembraneAfter, MembraneBefore, IdleAfter, Staying,
       Fires, Integrated, lif_step

(* The maps pair the mapped neurons with the valid slots. *)
LEMMA MappedCount ==
  ASSUME Inv
  PROVE  /\ IsFiniteSet(Mapped)
         /\ Cardinality(Mapped) = Cardinality({p \in Slot : valid[p]})
<1>. DEFINE V == {p \in Slot : valid[p]}
            f == [n \in Mapped |-> map_table[n]]
<1>1. IsFiniteSet(Mapped)
  <2>1. IsFiniteSet(Neuron)
    BY FS_Interval, DnpAssumption DEF Neuron
  <2>. QED  BY <2>1, FS_Subset DEF Mapped
<1>2. \A n \in Mapped : map_table[n] \in V /\ rev_map[map_table[n]] = n
  BY DEF Mapped, Inv, TypeOK, MapsAgree
<1>3. \A p \in V : rev_map[p] \in Mapped /\ map_table[rev_map[p]] = p
  BY DEF Mapped, Inv, TypeOK, MapsAgree
<1>4. f \in [Mapped -> V]
  BY <1>2
<1>5. \A a, b \in Mapped : f[a] = f[b] => a = b
  BY <1>2
<1>6. \A p \in V : \E n \in Mapped : f[n] = p
  BY <1>3
<1>7. f \in Bijection(Mapped, V)
  <2>. HIDE DEF f, V
  <2>. QED  BY <1>4, <1>5, <1>6
         DEF Bijection, Injection, Surjection, IsInjective
<1>. HIDE DEF f, V
<1>. QED  BY <1>1, <1>7, FS_Bijection DEF ExistsBijection, V

(* The free list is empty when every slot is taken. *)
LEMMA EmptyMeansFull ==
  ASSUME Inv
  PROVE  free_empty <=> \A p \in Slot : valid[p]
<1>1. free_head \in Place /\ free_tail \in Place
  BY DEF Inv, TypeOK
<1>2. {free_list[i] : i \in Window} = {p \in Slot : ~valid[p]}
  BY DEF Inv, FreeListExact
<1>3. CASE free_head = free_tail
  <2>1. Window = {}
    BY <1>1, <1>3, DnpAssumption DEF Window, Between, Place
  <2>. QED  BY <1>2, <1>3, <2>1 DEF free_empty
<1>4. CASE free_head # free_tail
  <2>1. free_head \in Window
    BY <1>1, <1>4, WindowPop DEF Window
  <2>. QED  BY <1>2, <1>4, <2>1 DEF free_empty
<1>. QED  BY <1>3, <1>4

(* A neuron that asks for a slot gets one if NeuronStore lets it in. *)
LEMMA Turn ==
  ASSUME Inv, Stored, pc = "update", at \in Asking, ~map_valid[at]
  PROVE  at \in Coming <=> ~\A p \in Slot : valid[p]
<1>. DEFINE E == Coming \cap Served
            A == {m \in Asking : m < at}
            V == {p \in Slot : valid[p]}
<1>0. at \in Nat /\ Entered /\ Asking \subseteq Neuron /\ Coming \subseteq Asking
  BY ComingIs DEF Inv, TypeOK, Stored, Asking
<1>1. A = Asking \cap Served
  <2>1. Served = 0 .. at - 1
    BY DEF Served
  <2>2. \A m \in Neuron : m < at <=> m \in 0 .. at - 1
    BY <1>0, DnpAssumption DEF Neuron
  <2>. QED  BY <1>0, <2>1, <2>2
<1>2. Held \cup E = Mapped /\ Held \cap E = {}
  BY <1>0 DEF Entered, Asking
<1>3. IsFiniteSet(Neuron)
  BY FS_Interval, DnpAssumption DEF Neuron
<1>4. /\ Held \subseteq Neuron /\ E \subseteq A /\ A \subseteq Neuron
  BY <1>0, <1>1 DEF Stored
<1>5. /\ IsFiniteSet(Held) /\ IsFiniteSet(E) /\ IsFiniteSet(A)
      /\ Cardinality(Held) \in Nat /\ Cardinality(E) \in Nat /\ Cardinality(A) \in Nat
      /\ Cardinality(E) <= Cardinality(A)
  <2>. HIDE DEF E, A
  <2>1. IsFiniteSet(Held) /\ IsFiniteSet(A)
    BY <1>3, <1>4, FS_Subset
  <2>. QED  BY <1>4, <2>1, FS_Subset, FS_CardinalityType
<1>6. Cardinality(V) = Cardinality(Held) + Cardinality(E)
  <2>1. Cardinality(Mapped) = Cardinality(V)
    BY MappedCount
  <2>2. Cardinality(Held \cup E) = Cardinality(Held) + Cardinality(E) - Cardinality(Held \cap E)
    <3>. HIDE DEF E
    <3>. QED  BY <1>5, FS_Union
  <2>3. Cardinality(Held \cap E) = 0
    BY <1>2, FS_EmptySet
  <2>4. Cardinality(Held) + Cardinality(E) - 0 = Cardinality(Held) + Cardinality(E)
    <3>. HIDE DEF E
    <3>. QED  BY <1>5
  <2>. HIDE DEF E, V
  <2>. QED  BY <1>2, <2>1, <2>2, <2>3, <2>4
<1>7. at \in Coming <=> Cardinality(A) < NPhys - Cardinality(Held)
  BY ComingIs
<1>8. IsFiniteSet(Slot) /\ Cardinality(Slot) = NPhys
  BY FS_Interval, DnpAssumption DEF Slot
<1>9. CASE \A p \in Slot : valid[p]
  <2>1. V = Slot
    BY <1>9
  <2>2. Cardinality(A) >= NPhys - Cardinality(Held)
    <3>1. Cardinality(Held) + Cardinality(E) = NPhys
      BY <1>6, <1>8, <2>1
    <3>. HIDE DEF A, E
    <3>. QED  BY <1>5, <3>1
  <2>3. ~(Cardinality(A) < NPhys - Cardinality(Held))
    <3>. HIDE DEF A
    <3>. QED  BY <1>5, <2>2, DnpAssumption
  <2>. QED  BY <1>7, <1>9, <2>3
<1>10. CASE ~\A p \in Slot : valid[p]
  <2>1. A \subseteq Mapped
    BY <1>0, <1>1, <1>10 DEF Entered
  <2>2. A \cap Held = {}
    BY DEF Asking
  <2>3. A = E
    BY <1>2, <1>4, <2>1, <2>2
  <2>4. V # Slot /\ V \subseteq Slot
    BY <1>10
  <2>5. Cardinality(V) < NPhys
    <3>. HIDE DEF V
    <3>1. Cardinality(V) <= NPhys /\ Cardinality(V) # NPhys /\ Cardinality(V) \in Nat
      BY <1>8, <2>4, FS_Subset, FS_CardinalityType
    <3>. QED  BY <3>1, DnpAssumption
  <2>6. Cardinality(A) < NPhys - Cardinality(Held)
    <3>. HIDE DEF A, E, V
    <3>. QED  BY <1>5, <1>6, <2>3, <2>5, DnpAssumption
  <2>. QED  BY <1>7, <1>10, <2>6
<1>. QED  BY <1>9, <1>10

(* The terms of a step under way do not change before its end. *)
LEMMA SameStep ==
  ASSUME UNCHANGED <<shown, current>>
  PROVE  /\ Held' = Held /\ Asking' = Asking /\ Coming' = Coming /\ Inside' = Inside
         /\ \A n : /\ MembraneBefore(n)' = MembraneBefore(n)
                   /\ MembraneAfter(n)' = MembraneAfter(n)
                   /\ IdleAfter(n)' = IdleAfter(n)
                   /\ Firing(n)' <=> Firing(n)
                   /\ Staying(n)' <=> Staying(n)
<1>1. Held' = Held
  BY DEF Held
<1>2. Asking' = Asking
  BY <1>1 DEF Asking
<1>3. Coming' = Coming
  BY Zenon DEF Coming
<1>4. Inside' = Inside
  BY <1>1, <1>3 DEF Inside
<1>5. \A n : MembraneBefore(n)' = MembraneBefore(n)
  BY <1>1 DEF MembraneBefore
<1>6. \A n : Firing(n)' <=> Firing(n)
  BY <1>5 DEF Firing, Fires, Integrated
<1>7. \A n : MembraneAfter(n)' = MembraneAfter(n)
  BY <1>5 DEF MembraneAfter, lif_step, Fires, Integrated
<1>8. \A n : IdleAfter(n)' = IdleAfter(n)
  BY <1>6 DEF IdleAfter
<1>9. \A n : Staying(n)' <=> Staying(n)
  BY <1>6, <1>7, <1>8 DEF Staying
<1>. QED  BY <1>1, <1>2, <1>3, <1>4, <1>5, <1>6, <1>7, <1>8, <1>9

(* Where the properties speak of the neurons of the store. *)
LEMMA StoreNeurons ==
  ASSUME Stored, pc # "idle"
  PROVE  /\ Asking \subseteq Neuron /\ Coming \subseteq Asking /\ Inside \subseteq Neuron
         /\ Asking \cap Held = {}
BY ComingIs DEF Stored, Asking, Inside

(* One iteration of UpdateFSM serves one neuron. *)
LEMMA ServeNext ==
  ASSUME TypeOK, pc = "update", Advance(NLog, "fire")
  PROVE  /\ Served' = Served \cup {at} /\ at \notin Served /\ Served \subseteq Neuron
         /\ at \in Neuron /\ pc' \in {"update", "fire"}
<1>1. at \in Neuron /\ at \in Nat /\ Served = 0 .. at - 1
  BY UpdateLoop DEF TypeOK, Served
<1>2. 0 .. at = (0 .. at - 1) \cup {at} /\ at \notin 0 .. at - 1 /\ 0 .. at - 1 \subseteq Neuron
  BY <1>1, DnpAssumption DEF Neuron
<1>3. CASE at + 1 = NLog
  <2>1. pc' = "fire" /\ NLog - 1 = at
    BY <1>1, <1>3, DnpAssumption DEF Advance
  <2>2. Served' = Neuron /\ Neuron = 0 .. at
    BY <2>1 DEF Served, Neuron
  <2>. QED  BY <1>1, <1>2, <2>1, <2>2
<1>4. CASE at + 1 # NLog
  <2>1. pc' = "update" /\ at' = at + 1 /\ at' - 1 = at
    BY <1>1, <1>4 DEF Advance
  <2>2. Served' = 0 .. at
    BY <2>1 DEF Served
  <2>. QED  BY <1>1, <1>2, <2>1, <2>2
<1>. QED  BY <1>3, <1>4

LEMMA CallStored ==
  ASSUME Inv, Tidy, Stored, NEW input \in [Neuron -> Currents], Call(input)
  PROVE  Stored'
<1>1. /\ pc = "idle" /\ pc' = "update" /\ shown' = shown /\ current' = input /\ at' = 0
      /\ UNCHANGED <<potential, valid, rev_map, slot_input, map_table, map_valid, ever_mapped>>
      /\ age' = [p \in Slot |-> IF valid[p] THEN age[p] + 1 ELSE age[p]]
  BY DEF Call, scratchVars, mapVars, Inv, TypeOK
<1>2. Rested
  BY <1>1 DEF Stored
<1>3. Held' = Held /\ Mapped' = Mapped /\ Served' = {}
  BY <1>1 DEF Held, Mapped, Served
<1>4. Entered'
  <2>1. Mapped' = Held' /\ {n \in Neuron : ever_mapped'[n]} = shown'.ever
    BY <1>1, <1>2, <1>3 DEF Rested
  <2>2. ASSUME NEW n \in Mapped'
        PROVE  /\ potential'[map_table'[n]] = MembraneBefore(n)'
               /\ age'[map_table'[n]] = shown'.idle[n] + 1
               /\ slot_input'[map_table'[n]] = 0
    <3>1. n \in Held /\ n \in Neuron /\ map_valid[n]
      BY <1>2, <1>3, <2>2 DEF Rested, Mapped
    <3>2. map_table[n] \in Slot /\ valid[map_table[n]]
      BY <3>1 DEF Inv, TypeOK, MapsAgree
    <3>3. slot_input[map_table[n]] = 0
      BY <1>1, <3>2 DEF Tidy
    <3>4. /\ potential[map_table[n]] = shown.membrane[n]
          /\ age[map_table[n]] = shown.idle[n]
      BY <1>2, <3>1 DEF Rested
    <3>5. MembraneBefore(n)' = shown.membrane[n]
      BY <1>1, <1>3, <3>1 DEF MembraneBefore
    <3>. QED  BY <1>1, <3>2, <3>3, <3>4, <3>5
  <2>. QED  BY <1>3, <2>1, <2>2 DEF Entered
<1>. QED  BY <1>1, <1>3, <1>4 DEF Stored

LEMMA IgnoreStored ==
  ASSUME Inv, Stored, Ignore
  PROVE  Stored'
<1>1. /\ pc = "update"
      /\ current[at] = 0 \/ (~map_valid[at] /\ free_empty)
      /\ Advance(NLog, "fire")
      /\ UNCHANGED <<potential, valid, age, slot_input, map_table, map_valid, ever_mapped>>
      /\ UNCHANGED <<shown, current>>
  BY DEF Ignore, slotVars, scratchVars, mapVars
<1>2. /\ Served' = Served \cup {at} /\ at \notin Served /\ Served \subseteq Neuron
      /\ at \in Neuron /\ pc' \in {"update", "fire"}
  BY <1>1, ServeNext DEF Inv
<1>3. Entered /\ Mapped' = Mapped
  BY <1>1 DEF Stored, Mapped
<1>4. /\ Held' = Held /\ Asking' = Asking /\ Coming' = Coming
      /\ \A n : MembraneBefore(n)' = MembraneBefore(n)
  BY <1>1, SameStep
<1>5. /\ at \notin Coming
      /\ at \in Asking => \A p \in Slot : valid[p]
  <2>1. CASE current[at] = 0
    BY <1>1, <2>1, StoreNeurons DEF Asking
  <2>2. CASE ~map_valid[at] /\ free_empty
    BY <1>1, <2>2, EmptyMeansFull, Turn, StoreNeurons
  <2>. QED  BY <1>1, <2>1, <2>2
<1>6. Coming \cap Served' = Coming \cap Served
  BY <1>2, <1>5
<1>7. (Asking \cap Served') \subseteq Mapped \/ \A p \in Slot : valid[p]
  BY <1>2, <1>3, <1>5 DEF Entered
<1>8. ASSUME NEW n \in Mapped
      PROVE  /\ age[map_table[n]] = IF n \in Served' /\ current[n] # 0
                                    THEN 0 ELSE shown.idle[n] + 1
             /\ slot_input[map_table[n]] = IF n \in Served' THEN current[n] ELSE 0
  <2>1. n = at => current[n] = 0
    BY <1>1 DEF Mapped
  <2>. QED  BY <1>2, <1>3, <2>1 DEF Entered
<1>9. Entered'
  BY <1>1, <1>3, <1>4, <1>6, <1>7, <1>8 DEF Entered
<1>. QED  BY <1>1, <1>2, <1>4, <1>9 DEF Stored

LEMMA StageStored ==
  ASSUME Inv, Tidy, Stored, Stage
  PROVE  Stored'
<1>. DEFINE p == map_table[at]
<1>1. /\ pc = "update" /\ current[at] # 0 /\ map_valid[at]
      /\ Advance(NLog, "fire")
      /\ UNCHANGED <<potential, valid, map_table, map_valid, ever_mapped>>
      /\ UNCHANGED <<shown, current>>
  BY DEF Stage, mapVars
<1>2. /\ Served' = Served \cup {at} /\ at \notin Served /\ Served \subseteq Neuron
      /\ at \in Neuron /\ pc' \in {"update", "fire"}
  BY <1>1, ServeNext DEF Inv
<1>3. Entered /\ Mapped' = Mapped /\ at \in Mapped
  BY <1>1, <1>2 DEF Stored, Mapped
<1>4. /\ Held' = Held /\ Asking' = Asking /\ Coming' = Coming
      /\ \A n : MembraneBefore(n)' = MembraneBefore(n)
  BY <1>1, SameStep
<1>5. p \in Slot /\ valid[p] /\ ~pending[p]
  BY <1>1, <1>2 DEF Inv, TypeOK, MapsAgree, Tidy
<1>6. \A q \in Slot : /\ slot_input'[q] = IF q = p THEN current[at] ELSE slot_input[q]
                      /\ age'[q] = IF q = p THEN 0 ELSE age[q]
  BY <1>5 DEF Stage, Inv, TypeOK
<1>7. at \in Held /\ at \notin Coming
  BY <1>1, <1>2, <1>3, StoreNeurons DEF Entered
<1>8. Coming \cap Served' = Coming \cap Served
  BY <1>2, <1>7
<1>9. (Asking \cap Served') \subseteq Mapped \/ \A q \in Slot : valid[q]
  BY <1>2, <1>3 DEF Entered
<1>10. ASSUME NEW n \in Mapped
       PROVE  /\ age'[map_table[n]] = IF n \in Served' /\ current[n] # 0
                                      THEN 0 ELSE shown.idle[n] + 1
              /\ slot_input'[map_table[n]] = IF n \in Served' THEN current[n] ELSE 0
  <2>1. map_table[n] \in Slot /\ rev_map[map_table[n]] = n /\ rev_map[p] = at
    BY <1>1, <1>2 DEF Mapped, Inv, TypeOK, MapsAgree
  <2>2. CASE n = at
    BY <1>1, <1>2, <1>5, <1>6, <2>2
  <2>3. CASE n # at
    BY <1>2, <1>3, <1>6, <2>1, <2>3 DEF Entered
  <2>. QED  BY <2>2, <2>3
<1>11. Entered'
  BY <1>1, <1>3, <1>4, <1>8, <1>9, <1>10 DEF Entered
<1>. QED  BY <1>1, <1>2, <1>4, <1>11 DEF Stored

LEMMA AllocateStored ==
  ASSUME Inv, Stored, Allocate
  PROVE  Stored'
<1>. DEFINE p == free_list[free_head]
<1>1. /\ pc = "update" /\ current[at] # 0 /\ ~map_valid[at] /\ ~free_empty
      /\ Advance(NLog, "fire")
      /\ UNCHANGED <<shown, current>>
  BY DEF Allocate
<1>2. /\ Served' = Served \cup {at} /\ at \notin Served /\ Served \subseteq Neuron
      /\ at \in Neuron /\ pc' \in {"update", "fire"}
  BY <1>1, ServeNext DEF Inv
<1>3. Entered /\ at \notin Mapped /\ at \notin Held
  BY <1>1, <1>2 DEF Stored, Mapped, Entered
<1>e. /\ Mapped = Held \cup (Coming \cap Served)
      /\ (Asking \cap Served) \subseteq Mapped \/ \A q \in Slot : valid[q]
      /\ {n \in Neuron : ever_mapped[n]} = shown.ever \cup (Coming \cap Served)
  BY <1>3 DEF Entered
<1>4. /\ Held' = Held /\ Asking' = Asking /\ Coming' = Coming
      /\ \A n : MembraneBefore(n)' = MembraneBefore(n)
  BY <1>1, SameStep
<1>5. p \in Slot /\ ~valid[p]
  <2>1. free_head \in Window /\ free_head \in Place
    BY <1>1, WindowPop DEF Inv, TypeOK, Window, free_empty
  <2>. QED  BY <2>1 DEF Inv, TypeOK, FreeListExact
<1>6. at \in Asking /\ at \in Coming
  <2>1. at \in Asking
    BY <1>1, <1>2, <1>3 DEF Asking
  <2>. QED  BY <1>1, <2>1, EmptyMeansFull, Turn
<1>7. /\ \A q \in Slot : /\ slot_input'[q] = IF q = p THEN current[at] ELSE slot_input[q]
                         /\ age'[q] = IF q = p THEN 0 ELSE age[q]
                         /\ potential'[q] = IF q = p THEN 0 ELSE potential[q]
                         /\ valid'[q] = IF q = p THEN TRUE ELSE valid[q]
      /\ \A n \in Neuron : /\ map_table'[n] = IF n = at THEN p ELSE map_table[n]
                           /\ map_valid'[n] = IF n = at THEN TRUE ELSE map_valid[n]
                           /\ ever_mapped'[n] = IF n = at THEN TRUE ELSE ever_mapped[n]
  BY <1>2, <1>5 DEF Allocate, Inv, TypeOK
<1>8. Mapped' = Mapped \cup {at}
  BY <1>2, <1>7 DEF Mapped
<1>9. Coming \cap Served' = (Coming \cap Served) \cup {at}
  BY <1>2, <1>6
<1>10. (Asking \cap Served') \subseteq Mapped' \/ \A q \in Slot : valid'[q]
  <2>1. CASE (Asking \cap Served) \subseteq Mapped
    BY <1>2, <1>8, <2>1
  <2>2. CASE \A q \in Slot : valid[q]
    BY <1>7, <2>2
  <2>. QED  BY <1>e, <2>1, <2>2
<1>11. {n \in Neuron : ever_mapped'[n]} = shown.ever \cup (Coming \cap Served')
  <2>1. {n \in Neuron : ever_mapped'[n]} = {n \in Neuron : ever_mapped[n]} \cup {at}
    BY <1>2, <1>7
  <2>. QED  BY <1>e, <1>9, <2>1
<1>12. ASSUME NEW n \in Mapped'
       PROVE  /\ potential'[map_table'[n]] = MembraneBefore(n)
              /\ age'[map_table'[n]] = IF n \in Served' /\ current[n] # 0
                                       THEN 0 ELSE shown.idle[n] + 1
              /\ slot_input'[map_table'[n]] = IF n \in Served' THEN current[n] ELSE 0
  <2>1. CASE n = at
    BY <1>1, <1>2, <1>3, <1>5, <1>7, <2>1 DEF MembraneBefore
  <2>2. CASE n # at
    <3>1. n \in Mapped /\ n \in Neuron /\ map_valid[n]
      BY <1>8, <2>2 DEF Mapped
    <3>2. map_table[n] \in Slot /\ valid[map_table[n]] /\ map_table[n] # p
      BY <1>5, <3>1 DEF Inv, TypeOK, MapsAgree
    <3>3. n \in Served' <=> n \in Served
      BY <1>2, <2>2
    <3>4. /\ potential[map_table[n]] = MembraneBefore(n)
          /\ age[map_table[n]] = IF n \in Served /\ current[n] # 0
                                 THEN 0 ELSE shown.idle[n] + 1
          /\ slot_input[map_table[n]] = IF n \in Served THEN current[n] ELSE 0
      BY <1>3, <3>1 DEF Entered
    <3>5. map_table'[n] = map_table[n]
      BY <1>7, <2>2, <3>1
    <3>6. /\ potential'[map_table[n]] = potential[map_table[n]]
          /\ age'[map_table[n]] = age[map_table[n]]
          /\ slot_input'[map_table[n]] = slot_input[map_table[n]]
      BY <1>7, <3>2
    <3>. HIDE DEF p
    <3>. QED  BY <3>3, <3>4, <3>5, <3>6
  <2>. QED  BY <2>1, <2>2
<1>13. Mapped' = Held \cup (Coming \cap Served')
  BY <1>3, <1>8, <1>9 DEF Entered
<1>14. Entered'
  BY <1>1, <1>4, <1>10, <1>11, <1>12, <1>13 DEF Entered
<1>. QED  BY <1>1, <1>2, <1>4, <1>14 DEF Stored

LEMMA FireStored ==
  ASSUME Inv, Tidy, Stored, Fire
  PROVE  Stored'
<1>1. /\ pc = "fire" /\ pc' = "prune" /\ at = 0 /\ at' = 0
      /\ UNCHANGED <<valid, rev_map, map_table, map_valid, ever_mapped>>
      /\ UNCHANGED <<shown, current>>
  BY DEF Fire, mapVars, Inv, TypeOK
<1>2. /\ Held' = Held /\ Coming' = Coming /\ Inside' = Inside
      /\ \A n : /\ MembraneAfter(n)' = MembraneAfter(n)
                /\ IdleAfter(n)' = IdleAfter(n)
                /\ Firing(n)' <=> Firing(n)
                /\ Staying(n)' <=> Staying(n)
  BY <1>1, SameStep
<1>3. /\ Mapped = Inside /\ Inside \subseteq Neuron
      /\ {n \in Neuron : ever_mapped[n]} = shown.ever \cup Coming
  <2>1. Entered /\ Coming \subseteq Neuron /\ Inside \subseteq Neuron
    BY <1>1, StoreNeurons DEF Stored
  <2>2. Served = Neuron
    BY <1>1 DEF Served
  <2>. QED  BY <2>1, <2>2 DEF Entered, Inside
<1>4. ASSUME NEW n \in Inside
      PROVE  /\ map_table[n] \in Slot /\ rev_map[map_table[n]] = n
             /\ SlotFires(map_table[n]) <=> Firing(n)
             /\ potential'[map_table[n]] = MembraneAfter(n)
             /\ age'[map_table[n]] = IdleAfter(n)
             /\ fired_mask'[map_table[n]] <=> Firing(n)
  <2>. DEFINE p == map_table[n]
  <2>1. p \in Slot /\ valid[p] /\ rev_map[p] = n /\ n \in Neuron
    BY <1>3 DEF Mapped, Inv, TypeOK, MapsAgree
  <2>2. Finalized(p) /\ ~fired_mask[p]
    BY <1>1, <2>1 DEF Tidy, Finalized
  <2>3. /\ potential[p] = MembraneBefore(n) /\ slot_input[p] = current[n]
        /\ age[p] = IF current[n] # 0 THEN 0 ELSE shown.idle[n] + 1
    BY <1>1, <1>3, <2>1 DEF Stored, Entered, Served
  <2>4. SlotFires(p) <=> Firing(n)
    BY <2>2, <2>3 DEF SlotFires, Firing
  <2>5. potential'[p] = MembraneAfter(n)
    BY <2>1, <2>2, <2>3 DEF Fire, MembraneAfter
  <2>6. age'[p] = IdleAfter(n)
    BY <2>1, <2>3, <2>4 DEF Fire, IdleAfter
  <2>7. fired_mask'[p] <=> Firing(n)
    BY <2>1, <2>2, <2>4 DEF Fire
  <2>. QED  BY <2>1, <2>4, <2>5, <2>6, <2>7
<1>5. out' = {n \in Inside : Firing(n)}
  <2>1. \A p \in Slot : SlotFires(p) => rev_map[p] \in Inside /\ map_table[rev_map[p]] = p
    BY <1>3 DEF SlotFires, Finalized, Mapped, Inv, TypeOK, MapsAgree
  <2>2. out' = {rev_map[p] : p \in {x \in Slot : SlotFires(x)}}
    BY DEF Fire
  <2>3. \A n : n \in out' => n \in Inside /\ Firing(n)
    BY <1>4, <2>1, <2>2
  <2>4. \A n \in Inside : Firing(n) => n \in out'
    BY <1>4, <2>2
  <2>. QED  BY <2>3, <2>4
<1>6. \A n \in Inside : map_table[n] >= 0
  BY <1>4 DEF Slot
<1>7. Mapped' = {n \in Inside : map_table'[n] >= at' \/ Staying(n)'}
  BY <1>1, <1>3, <1>6 DEF Mapped
<1>8. Swept'
  BY <1>1, <1>2, <1>3, <1>4, <1>5, <1>6, <1>7 DEF Swept
<1>. QED  BY <1>1, <1>2, <1>8 DEF Stored

(* One iteration of PRUNE: a slot's owner stays exactly if the abstract step
   says so. *)
LEMMA SweepOne ==
  ASSUME Inv, Tidy, Stored, Keep \/ reclaim
  PROVE  /\ Mapped' = {n \in Inside : map_table[n] >= at + 1 \/ Staying(n)}
         /\ UNCHANGED <<map_table, rev_map, potential, age, ever_mapped, out>>
         /\ \A n \in Inside :
              fired_mask'[map_table[n]] <=> Firing(n) /\ map_table[n] >= at + 1
<1>1. /\ pc = "prune" /\ at \in Slot /\ at \in Nat
      /\ UNCHANGED <<map_table, rev_map, potential, age, ever_mapped, out>>
  BY PruneLoop DEF Keep, reclaim, NextSlot, slotVars, mapVars, Inv, TypeOK
<1>2. Swept /\ Inside \subseteq Neuron
  BY <1>1, StoreNeurons DEF Stored
<1>3. \A n \in Inside : map_table[n] \in Slot /\ map_table[n] \in Nat
  BY <1>2, DnpAssumption DEF Inv, TypeOK, Slot
<1>4. ASSUME NEW n \in Inside, map_table[n] = at
      PROVE  /\ n \in Mapped /\ rev_map[at] = n /\ valid[at] /\ Finalized(at)
             /\ Zombie(at) <=> ~Staying(n)
             /\ fired_mask[at] <=> Firing(n)
  <2>1. n \in Mapped /\ rev_map[at] = n
    BY <1>1, <1>2, <1>4 DEF Swept
  <2>2. valid[at]
    BY <1>4, <2>1 DEF Mapped, Inv, MapsAgree
  <2>3. Finalized(at)
    BY <1>1, <2>2 DEF Tidy, Finalized
  <2>4. fired_mask[at] <=> Firing(n)
    BY <1>1, <1>2, <1>4 DEF Swept
  <2>5. potential[at] = MembraneAfter(n) /\ age[at] = IdleAfter(n)
    BY <1>2, <1>4 DEF Swept
  <2>6. /\ potential[at] \in Int /\ age[at] \in Nat /\ AgeThresh \in Nat /\ PotThresh \in Int
    BY <1>1, DnpAssumption DEF Inv, TypeOK
  <2>7. (age[at] >= AgeThresh \/ potential[at] <= PotThresh) <=>
          ~(IdleAfter(n) < AgeThresh /\ MembraneAfter(n) > PotThresh)
    BY <2>5, <2>6
  <2>8. Zombie(at) <=> ~Staying(n)
    BY <2>3, <2>4, <2>7 DEF Zombie, Staying
  <2>. QED  BY <2>1, <2>2, <2>3, <2>4, <2>8
<1>5. Mapped = {n \in Inside : map_table[n] >= at \/ Staying(n)}
  BY <1>2 DEF Swept
<1>6. \A n \in Inside : map_table[n] >= at <=> map_table[n] = at \/ map_table[n] >= at + 1
  BY <1>1, <1>3
<1>7. CASE Keep
  <2>1. /\ Mapped' = Mapped /\ ~Zombie(at)
        /\ fired_mask' = [fired_mask EXCEPT ![at] = fired_mask[at] /\ ~Finalized(at)]
    BY <1>7 DEF Keep, mapVars, Mapped
  <2>2. Mapped' = {n \in Inside : map_table[n] >= at + 1 \/ Staying(n)}
    BY <1>4, <1>5, <1>6, <2>1
  <2>3. ASSUME NEW n \in Inside
        PROVE  fired_mask'[map_table[n]] <=> Firing(n) /\ map_table[n] >= at + 1
    <3>1. CASE map_table[n] = at
      <4>1. fired_mask'[at] <=> fired_mask[at] /\ ~Finalized(at)
        BY <1>1, <2>1 DEF Inv, TypeOK
      <4>2. ~(at >= at + 1)
        BY <1>1
      <4>. QED  BY <1>4, <3>1, <4>1, <4>2
    <3>2. CASE map_table[n] # at
      <4>1. fired_mask'[map_table[n]] = fired_mask[map_table[n]]
        BY <1>3, <2>1, <3>2 DEF Inv, TypeOK
      <4>. QED  BY <1>2, <1>6, <3>2, <4>1 DEF Swept
    <3>. QED  BY <3>1, <3>2
  <2>. QED  BY <1>1, <2>2, <2>3
<1>8. CASE reclaim
  <2>. DEFINE owner == rev_map[at]
  <2>1. /\ Zombie(at) /\ map_valid' = [map_valid EXCEPT ![owner] = FALSE]
        /\ fired_mask' = fired_mask
    BY <1>8 DEF reclaim, scratchVars
  <2>2. valid[at] /\ ~fired_mask[at]
    BY <2>1 DEF Zombie, Finalized
  <2>3. owner \in Mapped /\ owner \in Neuron /\ map_table[owner] = at
    BY <1>1, <2>2 DEF Mapped, Inv, TypeOK, MapsAgree
  <2>4. owner \in Inside /\ ~Staying(owner)
    BY <1>4, <1>5, <2>1, <2>3
  <2>5. Mapped' = Mapped \ {owner}
    BY <2>1, <2>3 DEF Mapped, Inv, TypeOK
  <2>6. \A n \in Inside : map_table[n] = at => n = owner
    BY <1>4
  <2>7. Mapped' = {n \in Inside : map_table[n] >= at + 1 \/ Staying(n)}
    <3>1. ~(at >= at + 1)
      BY <1>1
    <3>2. \A n \in Inside : n = owner => ~(map_table[n] >= at + 1 \/ Staying(n))
      BY <2>3, <2>4, <3>1
    <3>. HIDE DEF owner
    <3>. QED  BY <1>5, <1>6, <2>5, <2>6, <3>2
  <2>8. ASSUME NEW n \in Inside
        PROVE  fired_mask'[map_table[n]] <=> Firing(n) /\ map_table[n] >= at + 1
    <3>1. fired_mask[map_table[n]] <=> Firing(n) /\ map_table[n] >= at
      BY <1>2 DEF Swept
    <3>2. map_table[n] = at => ~fired_mask[map_table[n]]
      BY <2>2
    <3>. QED  BY <1>1, <1>6, <2>1, <2>2, <3>1, <3>2
  <2>. QED  BY <1>1, <2>7, <2>8
<1>. QED  BY <1>7, <1>8

(* PRUNE goes on to the next slot, or the step is over. *)
LEMMA SweepStored ==
  ASSUME Inv, Inv', Tidy, Stored, Keep \/ reclaim
  PROVE  /\ Stored'
         /\ pc' = "idle" => shown' = Store!StoreStep(shown, current, NPhys)
         /\ pc' # "idle" => shown' = shown
<1>1. /\ pc = "prune" /\ at \in Slot /\ at \in Nat
      /\ pc' \in {"prune", "idle"}
      /\ pc' = "prune" => at' = at + 1
      /\ pc' = "idle" => at + 1 = NPhys
      /\ pc' = "idle" => shown' = Shown'
      /\ pc' # "idle" => shown' = shown /\ current' = current
  BY PruneLoop DEF Keep, reclaim, NextSlot, Advance, Inv, TypeOK
<1>2. /\ Mapped' = {n \in Inside : map_table[n] >= at + 1 \/ Staying(n)}
      /\ UNCHANGED <<map_table, rev_map, potential, age, ever_mapped, out>>
      /\ \A n \in Inside :
           fired_mask'[map_table[n]] <=> Firing(n) /\ map_table[n] >= at + 1
  BY SweepOne
<1>3. Swept /\ Inside \subseteq Neuron
  BY <1>1, StoreNeurons DEF Stored
<1>4. CASE pc' = "prune"
  <2>1. /\ Held' = Held /\ Coming' = Coming /\ Inside' = Inside
        /\ \A n : /\ MembraneAfter(n)' = MembraneAfter(n)
                  /\ IdleAfter(n)' = IdleAfter(n)
                  /\ Firing(n)' <=> Firing(n)
                  /\ Staying(n)' <=> Staying(n)
    BY <1>1, <1>4, SameStep
  <2>2. at' = at + 1 /\ shown' = shown /\ current' = current
    BY <1>1, <1>4
  <2>3. Mapped' = {n \in Inside' : map_table'[n] >= at' \/ Staying(n)'}
    BY <1>2, <2>1, <2>2
  <2>4. Swept'
    BY <1>2, <1>3, <2>1, <2>2, <2>3 DEF Swept
  <2>. QED  BY <1>1, <1>4, <2>1, <2>2, <2>4 DEF Stored
<1>5. CASE pc' = "idle"
  <2>1. Mapped' = {n \in Inside : Staying(n)}
    <3>1. \A n \in Inside : ~(map_table[n] >= at + 1)
      <4>1. SUFFICES ASSUME NEW n \in Inside PROVE ~(map_table[n] >= at + 1)
        OBVIOUS
      <4>2. map_table[n] \in 0 .. NPhys - 1
        BY <1>3 DEF Inv, TypeOK, Slot
      <4>. QED  BY <1>1, <1>5, <4>2, DnpAssumption
    <3>. QED  BY <1>2, <3>1
  <2>2. shown' = [membrane |-> [n \in Mapped' |-> potential[map_table[n]]],
                  idle     |-> [n \in Mapped' |-> age[map_table[n]]],
                  ever     |-> {n \in Neuron : ever_mapped[n]},
                  fired    |-> out]
    BY <1>1, <1>2, <1>5, Zenon DEF Shown
  <2>3. shown' = Store!StoreStep(shown, current, NPhys)
    <3>1. /\ [n \in Mapped' |-> potential[map_table[n]]]
               = [n \in {x \in Inside : Staying(x)} |-> MembraneAfter(n)]
          /\ [n \in Mapped' |-> age[map_table[n]]]
               = [n \in {x \in Inside : Staying(x)} |-> IdleAfter(n)]
      BY <1>3, <2>1 DEF Swept
    <3>2. /\ {n \in Neuron : ever_mapped[n]} = shown.ever \cup Coming
          /\ out = {n \in Inside : Firing(n)}
      BY <1>3 DEF Swept
    <3>. QED  BY <1>1, <2>2, <3>1, <3>2, StoreStepIs
  <2>4. /\ Held' = Mapped' /\ DOMAIN shown'.idle = Mapped' /\ Mapped' \subseteq Neuron
        /\ shown'.ever = {n \in Neuron : ever_mapped'[n]}
        /\ \A n \in Mapped' : /\ shown'.membrane[n] = potential'[map_table'[n]]
                              /\ shown'.idle[n] = age'[map_table'[n]]
    BY <1>2, <1>3, <2>1, <2>2 DEF Held
  <2>5. Rested'
    BY <2>4 DEF Rested
  <2>6. \A n \in Mapped' : shown'.membrane[n] \in Int /\ shown'.idle[n] \in Nat
    BY <2>4 DEF Inv, TypeOK
  <2>. QED  BY <1>5, <2>3, <2>4, <2>5, <2>6 DEF Stored
<1>. QED  BY <1>1, <1>4, <1>5

LEMMA ResetStored ==
  ASSUME Inv, Stored, reset
  PROVE  Stored' /\ shown' = Nothing
<1>1. /\ pc = "idle" /\ pc' = "idle" /\ shown' = Nothing
      /\ Mapped' = {} /\ {n \in Neuron : ever_mapped'[n]} = {}
  BY DEF reset, Cleared, Mapped
<1>2. Held' = {} /\ DOMAIN shown'.idle = {} /\ shown'.ever = {}
  BY <1>1 DEF Held, Nothing
<1>. QED  BY <1>1, <1>2 DEF Stored, Rested

LEMMA RestingStored ==
  ASSUME Stored,
         UNCHANGED <<potential, age, slot_input, fired_mask, valid, rev_map, map_table,
                     map_valid, ever_mapped, out, pc, at, current, shown>>
  PROVE  Stored'
<1>1. /\ Held' = Held /\ Asking' = Asking /\ Coming' = Coming /\ Inside' = Inside
      /\ \A n : /\ MembraneBefore(n)' = MembraneBefore(n)
                /\ MembraneAfter(n)' = MembraneAfter(n)
                /\ IdleAfter(n)' = IdleAfter(n)
                /\ Firing(n)' <=> Firing(n)
                /\ Staying(n)' <=> Staying(n)
  BY SameStep
<1>2. Mapped' = Mapped /\ Served' = Served
  BY DEF Mapped, Served
<1>3. Rested => Rested'
  BY <1>1, <1>2 DEF Rested
<1>4. Entered => Entered'
  BY <1>1, <1>2 DEF Entered
<1>5. Swept => Swept'
  BY <1>1, <1>2 DEF Swept
<1>. QED  BY <1>1, <1>3, <1>4, <1>5 DEF Stored

LEMMA InitStored == Init => Stored
<1>. SUFFICES ASSUME Init PROVE Stored
  OBVIOUS
<1>1. Held = {} /\ DOMAIN shown.idle = {} /\ shown.ever = {}
  BY DEF Init, Held, Nothing
<1>2. Mapped = {} /\ {n \in Neuron : ever_mapped[n]} = {}
  BY DEF Init, Mapped
<1>. QED  BY <1>1, <1>2 DEF Init, Stored, Rested

(* Every step keeps the invariant and is a step of NeuronStore or none. *)
LEMMA StepStored ==
  Inv /\ Inv' /\ Tidy /\ Stored /\ [Next]_dnpVars
    => Stored' /\ [Store!StoreNext]_shown
<1>. SUFFICES ASSUME Inv, Inv', Tidy, Stored, [Next]_dnpVars
              PROVE  Stored' /\ [Store!StoreNext]_shown
  OBVIOUS
<1>1. ASSUME NEW input \in [Neuron -> Currents], Call(input)
      PROVE  Stored' /\ [Store!StoreNext]_shown
  BY <1>1, CallStored DEF Call
<1>2. CASE Ignore
  BY <1>2, IgnoreStored DEF Ignore
<1>3. CASE Stage
  BY <1>3, StageStored DEF Stage
<1>4. CASE Allocate
  BY <1>4, AllocateStored DEF Allocate
<1>5. CASE Fire
  BY <1>5, FireStored DEF Fire
<1>6. CASE Keep \/ reclaim
  <2>1. /\ Stored'
        /\ pc' = "idle" => shown' = Store!StoreStep(shown, current, NPhys)
        /\ pc' # "idle" => shown' = shown
    BY <1>6, SweepStored
  <2>2. current \in [Store!Neuron -> Currents]
    BY <1>6 DEF Stored, Keep, reclaim, Neuron, Store!Neuron
  <2>3. pc' = "idle" => Store!Timestep(current)
    BY <2>1 DEF Store!Timestep
  <2>. QED  BY <2>1, <2>2, <2>3 DEF Store!StoreNext
<1>7. CASE reset
  BY <1>7, ResetStored DEF Store!StoreNext, Store!Empty, Store!EmptyStore, Nothing
<1>8. CASE reset_metrics
  BY <1>8, RestingStored DEF reset_metrics, slotVars, scratchVars, mapVars, callVars
<1>9. CASE UNCHANGED dnpVars
  BY <1>9, RestingStored DEF dnpVars, slotVars, scratchVars, mapVars, callVars
<1>. QED
  BY <1>1, <1>2, <1>3, <1>4, <1>5, <1>6, <1>7, <1>8, <1>9 DEF Next

(* Slots make no difference: for any numbers of neurons and slots, any
   thresholds and any inputs, what a caller of step() sees is what a store
   without slots, maps or a free list would show. *)
THEOREM SlotsInvisible == Spec => ImplementsStore
<1>1. Init => Store!StoreInit
  BY DEF Init, Nothing, Store!StoreInit, Store!EmptyStore
<1>. QED  BY <1>1, InitStored, StepStored, Invariant, TidyHolds, PTL
       DEF Spec, ImplementsStore, Store!StoreSpec

-----------------------------------------------------------------------------
(* With room for every neuron and thresholds out of reach, nothing is ever
   pruned.  The age threshold is out of reach above MaxAge; the other one
   below any lower bound of the currents, which membranes cannot pass either. *)

LEMMA DivBound ==
  ASSUME NEW a \in Int, NEW t \in Nat \ {0}
  PROVE  a \div t \in Int /\ (a >= 0 => a \div t >= 0) /\ (a < 0 => a \div t >= a)
<1>. DEFINE q == a \div t
            r == a % t
<1>1. q \in Int /\ r \in 0 .. t - 1 /\ a = t * q + r
  OBVIOUS
<1>. HIDE DEF q, r
<1>2. a >= 0 => q >= 0
  <2>1. SUFFICES ASSUME a >= 0, q <= -1 PROVE FALSE
    BY <1>1
  <2>2. t * q <= t * (-1)
    BY <1>1, <2>1
  <2>. QED  BY <1>1, <2>1, <2>2
<1>3. a < 0 => q >= a
  <2>1. SUFFICES ASSUME a < 0, q <= a - 1 PROVE FALSE
    BY <1>1
  <2>2. t * q <= t * (a - 1)
    BY <1>1, <2>1
  <2>3. t * (a - 1) = t * a - t
    OBVIOUS
  <2>4. t * a <= 1 * a
    BY <2>1
  <2>5. t * q \in Int /\ t * a \in Int
    BY <1>1
  <2>. QED  BY <1>1, <2>2, <2>3, <2>4, <2>5
<1>. QED  BY <1>1, <1>2, <1>3 DEF q

LEMMA LifBound ==
  ASSUME NEW low \in Int, low <= 0, NEW v \in Int, v >= low, NEW in \in Int, in >= low
  PROVE  lif_step(v, in) >= low
<1>. DEFINE q == (in - v) \div Tau
<1>1. q \in Int /\ (in - v >= 0 => q >= 0) /\ (in - v < 0 => q >= in - v)
  BY LifAssumption, DivBound
<1>. HIDE DEF q
<1>2. v + q >= low
  BY <1>1
<1>. QED  BY <1>2 DEF lif_step, Integrated, q

(* No slot grows older than MaxAge. *)
Young == pc # "idle" => \A p \in Slot : age[p] <= MaxAge

LEMMA InitYoung == Init => Young
BY DEF Init, Young

LEMMA StepYoung == TypeOK /\ Young /\ [Next]_dnpVars => Young'
<1>. SUFFICES ASSUME TypeOK, Young, [Next]_dnpVars PROVE Young'
  OBVIOUS
<1>0. MaxAge \in Nat /\ \A p \in Slot : age[p] \in Nat
  BY DnpAssumption DEF TypeOK
<1>1. ASSUME NEW input \in [Neuron -> Currents], Call(input) PROVE Young'
  <2>1. \A p \in Slot : age[p] < MaxAge /\ (age'[p] = age[p] + 1 \/ age'[p] = age[p])
    BY <1>1 DEF Call
  <2>. QED  BY <1>0, <2>1 DEF Young
<1>2. CASE Stage \/ Allocate \/ Fire
  <2>1. pc # "idle" /\ \A p \in Slot : age'[p] = age[p] \/ age'[p] = 0
    BY <1>2 DEF Stage, Allocate, Fire, TypeOK
  <2>. QED  BY <1>0, <2>1 DEF Young
<1>3. CASE Ignore \/ Keep \/ reclaim
  BY <1>3 DEF Ignore, Keep, reclaim, slotVars, Young
<1>4. CASE reset \/ reset_metrics \/ UNCHANGED dnpVars
  BY <1>4 DEF reset, reset_metrics, dnpVars, slotVars, callVars, Young
<1>. QED  BY <1>1, <1>2, <1>3, <1>4 DEF Next

LEMMA YoungHolds == Spec => []Young
BY InitYoung, StepYoung, DnpTypeCorrect, PTL DEF Spec

(* There is a slot for every neuron that asks. *)
LEMMA RoomForAll ==
  ASSUME Stored, pc # "idle", NPhys >= NLog
  PROVE  Coming = Asking
<1>1. Asking \subseteq Neuron /\ Held \subseteq Neuron /\ Asking \cap Held = {}
  BY StoreNeurons DEF Stored
<1>2. IsFiniteSet(Neuron) /\ Cardinality(Neuron) = NLog
  BY FS_Interval, DnpAssumption DEF Neuron
<1>3. ASSUME NEW n \in Asking
      PROVE  Cardinality({m \in Asking : m < n}) < NPhys - Cardinality(Held)
  <2>. DEFINE A == {m \in Asking : m < n}
  <2>1. ~(n < n)
    BY <1>1 DEF Neuron
  <2>2. A \subseteq Neuron \ {n} /\ Held \subseteq Neuron \ {n} /\ A \cap Held = {}
    BY <1>1, <2>1
  <2>3. IsFiniteSet(Neuron \ {n}) /\ Cardinality(Neuron \ {n}) = NLog - 1
    BY <1>1, <1>2, FS_RemoveElement
  <2>. HIDE DEF A
  <2>4. IsFiniteSet(A) /\ IsFiniteSet(Held)
    BY <2>2, <2>3, FS_Subset
  <2>5. Cardinality(A) \in Nat /\ Cardinality(Held) \in Nat
    BY <2>4, FS_CardinalityType
  <2>6. Cardinality(A \cup Held) = Cardinality(A) + Cardinality(Held) - 0
    BY <2>2, <2>4, FS_Union, FS_EmptySet
  <2>7. Cardinality(A \cup Held) <= NLog - 1
    <3>1. A \cup Held \in SUBSET (Neuron \ {n})
      BY <2>2
    <3>. QED  BY <2>3, <3>1, FS_Subset
  <2>8. Cardinality(A) < NPhys - Cardinality(Held)
    BY <2>5, <2>6, <2>7, DnpAssumption
  <2>. QED  BY <2>8 DEF A
<1>. QED  BY <1>3, ComingIs

(* Every membrane of the store stays above the bound. *)
Above(low) == \A n \in Held : shown.membrane[n] >= low

(* What a neuron without a membrane in the store has in a dense soma. *)
DenseMembrane(n) == IF n \in Held THEN shown.membrane[n] ELSE 0

(* Pruning is off: no neuron of the store leaves it. *)
LEMMA NothingPruned ==
  ASSUME TypeOK, Stored, Young, pc = "prune",
         AgeThresh > MaxAge,
         NEW low \in Int, low <= 0, PotThresh < low, \A c \in Currents : c >= low,
         Above(low)
  PROVE  \A n \in Inside : Staying(n) /\ MembraneAfter(n) \in Int /\ MembraneAfter(n) >= low
<1>1. SUFFICES ASSUME NEW n \in Inside
               PROVE  Staying(n) /\ MembraneAfter(n) \in Int /\ MembraneAfter(n) >= low
  OBVIOUS
<1>2. n \in Neuron /\ map_table[n] \in Slot
  BY StoreNeurons DEF Stored, TypeOK
<1>3. current[n] \in Int /\ current[n] >= low
  BY <1>2, DnpAssumption DEF Stored
<1>4. MembraneBefore(n) \in Int /\ MembraneBefore(n) >= low
  BY DEF MembraneBefore, Above, Stored
<1>5. MembraneAfter(n) \in Int /\ MembraneAfter(n) >= low
  BY <1>3, <1>4, LifBound, LifType DEF MembraneAfter
<1>6. IdleAfter(n) <= MaxAge /\ IdleAfter(n) \in Nat
  BY <1>2 DEF Stored, Swept, Young, TypeOK
<1>7. IdleAfter(n) < AgeThresh /\ MembraneAfter(n) > PotThresh
  BY <1>5, <1>6, DnpAssumption
<1>. QED  BY <1>5, <1>7 DEF Staying

(* A membrane at rest stays there without an input. *)
LEMMA RestingNeuron == ~Fires(0, 0) /\ lif_step(0, 0) = 0
<1>1. 0 \div Tau = 0 /\ VThreshold > 0
  BY LifAssumption
<1>. QED  BY <1>1, LifAssumption DEF Fires, lif_step, Integrated

(* The dense soma that the store stands for. *)
Dense == [membrane |-> [n \in Neuron |-> DenseMembrane(n)], fired |-> shown.fired]

LEMMA DenseNext ==
  ASSUME Stored, pc = "prune", NPhys >= NLog,
         \A n \in Inside : Staying(n),
         shown' = Store!StoreStep(shown, current, NPhys)
  PROVE  Dense' = Soma!DenseStep(Dense, current)
<1>1. /\ DOMAIN current = Neuron /\ Held \subseteq Neuron /\ Inside \subseteq Neuron
      /\ \A n \in Neuron \ Inside : current[n] = 0 /\ n \notin Held
  BY RoomForAll, StoreNeurons DEF Stored, Inside, Asking
<1>2. /\ shown'.membrane = [n \in Inside |-> MembraneAfter(n)]
      /\ shown'.fired = {n \in Inside : Firing(n)}
  <2>1. {n \in Inside : Staying(n)} = Inside
    OBVIOUS
  <2>. QED  BY <2>1, StoreStepIs
<1>3. \A n \in Neuron : MembraneBefore(n) = DenseMembrane(n)
  BY DEF MembraneBefore, DenseMembrane
<1>4. Held' = Inside
  BY <1>2 DEF Held
<1>5. ASSUME NEW n \in Neuron
      PROVE  /\ DenseMembrane(n)' = lif_step(DenseMembrane(n), current[n])
             /\ n \in shown'.fired <=> Fires(DenseMembrane(n), current[n])
  <2>1. CASE n \in Inside
    <3>1. DenseMembrane(n)' = MembraneAfter(n)
      BY <1>2, <1>4, <2>1 DEF DenseMembrane
    <3>2. n \in shown'.fired <=> Firing(n)
      BY <1>2, <2>1
    <3>. QED  BY <1>3, <3>1, <3>2 DEF MembraneAfter, Firing
  <2>2. CASE n \notin Inside
    <3>1. DenseMembrane(n)' = 0 /\ n \notin shown'.fired
      BY <1>2, <1>4, <2>2 DEF DenseMembrane
    <3>2. DenseMembrane(n) = 0 /\ current[n] = 0
      BY <1>1, <2>2 DEF DenseMembrane
    <3>. QED  BY <3>1, <3>2, RestingNeuron
  <2>. QED  BY <2>1, <2>2
<1>6. shown'.fired = {n \in Neuron : Fires(DenseMembrane(n), current[n])}
  BY <1>1, <1>2, <1>5
<1>7. Dense' = [membrane |-> [n \in Neuron |-> lif_step(DenseMembrane(n), current[n])],
                fired |-> {n \in Neuron : Fires(DenseMembrane(n), current[n])}]
  <2>1. Dense' = [membrane |-> [n \in Neuron |-> DenseMembrane(n)'], fired |-> shown'.fired]
    BY DEF Dense
  <2>2. [n \in Neuron |-> DenseMembrane(n)']
          = [n \in Neuron |-> lif_step(DenseMembrane(n), current[n])]
    BY <1>5
  <2>. QED  BY <1>6, <2>1, <2>2
<1>8. Soma!DenseStep(Dense, current)
        = [membrane |-> [n \in Neuron |-> lif_step(Dense.membrane[n], current[n])],
           fired |-> {n \in Neuron : Fires(Dense.membrane[n], current[n])}]
  BY <1>1, Zenon DEF Soma!DenseStep, Soma!lif_step, Soma!Fires, Soma!Integrated,
                     lif_step, Fires, Integrated
<1>9. \A n \in Neuron : Dense.membrane[n] = DenseMembrane(n)
  BY DEF Dense
<1>. QED  BY <1>7, <1>8, <1>9

LEMMA ShownKept ==
  ASSUME NEW low, UNCHANGED shown
  PROVE  Dense' = Dense /\ (Above(low) => Above(low)')
BY DEF Dense, DenseMembrane, Held, Above

LEMMA ShownEmpty ==
  ASSUME NEW low, shown' = Nothing
  PROVE  Soma!reset /\ Above(low)'
<1>1. Held' = {} /\ shown'.fired = {}
  BY DEF Held, Nothing
<1>2. Dense' = [membrane |-> [n \in Neuron |-> 0], fired |-> {}]
  BY <1>1 DEF Dense, DenseMembrane
<1>. QED  BY <1>1, <1>2 DEF Above, Soma!reset, Soma!DenseStore, Dense, DenseMembrane, Held,
                            Neuron, Soma!Neuron

(* Dynamic pruning with a slot for every neuron and thresholds out of reach is
   the plain soma, as dnp.hpp:26 says: same spikes, same membranes, after every
   call, for any number of neurons and any currents above some bound. *)
THEOREM SomaReproduced ==
  ASSUME NPhys >= NLog, AgeThresh > MaxAge,
         NEW low \in Int, low <= 0, PotThresh < low, \A c \in Currents : c >= low
  PROVE  Spec => ReproducesSoma
<1>1. Init => Soma!SomaInit /\ Above(low)
  <2>1. SUFFICES ASSUME Init PROVE Soma!SomaInit /\ Above(low)
    OBVIOUS
  <2>2. Held = {} /\ shown.fired = {}
    BY <2>1 DEF Init, Held, Nothing
  <2>3. Dense = [membrane |-> [n \in Neuron |-> 0], fired |-> {}]
    BY <2>2 DEF Dense, DenseMembrane
  <2>. QED  BY <2>2, <2>3 DEF Above, Soma!SomaInit, Soma!DenseStore, Dense, DenseMembrane,
                              Held, Neuron, Soma!Neuron
<1>2. Inv /\ Inv' /\ Tidy /\ Stored /\ Young /\ Above(low) /\ [Next]_dnpVars
        => Above(low)' /\ [Soma!SomaNext]_Dense
  <2>. SUFFICES ASSUME Inv, Inv', Tidy, Stored, Young, Above(low), [Next]_dnpVars
                PROVE  Above(low)' /\ [Soma!SomaNext]_Dense
    OBVIOUS
  <2>1. CASE Keep \/ reclaim
    <3>1. /\ pc = "prune" /\ TypeOK
          /\ pc' = "idle" => shown' = Store!StoreStep(shown, current, NPhys)
          /\ pc' # "idle" => shown' = shown
      BY <2>1, SweepStored DEF Keep, reclaim, Inv
    <3>2. \A n \in Inside : Staying(n) /\ MembraneAfter(n) >= low
      BY <3>1, NothingPruned
    <3>3. CASE pc' = "idle"
      <4>1. Dense' = Soma!DenseStep(Dense, current)
        BY <3>1, <3>2, <3>3, DenseNext
      <4>2. current \in [Soma!Neuron -> Currents]
        BY <3>1 DEF Stored, Neuron, Soma!Neuron
      <4>3. Soma!SomaNext
        BY <4>1, <4>2 DEF Soma!SomaNext, Soma!fire, Dense, DenseMembrane, Held
      <4>4. shown'.membrane = [n \in {x \in Inside : Staying(x)} |-> MembraneAfter(n)]
        BY <3>1, <3>3, StoreStepIs
      <4>5. Above(low)'
        BY <3>2, <4>4 DEF Above, Held
      <4>. QED  BY <4>3, <4>5
    <3>. QED  BY <3>1, <3>3, ShownKept
  <2>2. CASE reset
    BY <2>2, ShownEmpty DEF reset, Soma!SomaNext
  <2>3. CASE ~(Keep \/ reclaim \/ reset)
    <3>1. UNCHANGED shown
      BY <2>3 DEF Next, Call, Ignore, Stage, Allocate, Fire, reset_metrics, callVars, dnpVars
    <3>. QED  BY <3>1, ShownKept
  <2>. QED  BY <2>1, <2>2, <2>3
<1>3. [Soma!SomaNext]_Dense
        => [Soma!SomaNext]_[membrane |-> [n \in Neuron |-> IF n \in DOMAIN shown.membrane
                                                         THEN shown.membrane[n] ELSE 0],
                            fired    |-> shown.fired]
  BY DEF Dense, DenseMembrane, Held
<1>. QED  BY <1>1, <1>2, <1>3, InitStored, StepStored, YoungHolds, Invariant,
             TidyHolds, PTL
       DEF Spec, ReproducesSoma, Soma!SomaSpec
=============================================================================
