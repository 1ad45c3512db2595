--------------------------------- MODULE Dnp ---------------------------------
(***************************************************************************)
(* Dynamic neuron pruning (sim/src/functional/dnp.cpp): a PE's NLog        *)
(* logical neurons share NPhys physical slots, as in a virtual memory.  A  *)
(* neuron gets a slot with its first input, from a FIFO free list, and     *)
(* loses it when it is pruned.                                             *)
(*                                                                         *)
(* Dnp::step is a sequence of loops.  Those whose iterations touch one     *)
(* slot each are one action; UpdateFSM and PRUNE, whose iterations share   *)
(* the free list, are one action per iteration.  The counters of prunes,   *)
(* rejects and allocations are left out.                                   *)
(***************************************************************************)
EXTENDS Lif, FiniteSets

CONSTANTS
  NLog,        \* n_log
  NPhys,       \* n_phys
  AgeThresh,   \* age_thresh
  PotThresh,   \* pot_thresh
  Currents,    \* the input currents a neuron may receive in a timestep
  MaxAge       \* bound: no step begins with a slot of that age

ASSUME DnpAssumption ==
  /\ NLog \in Nat \ {0} /\ NPhys \in Nat \ {0}
  /\ AgeThresh \in Nat /\ PotThresh \in Int
  /\ Currents \subseteq Int /\ MaxAge \in Nat

Neuron == 0 .. NLog - 1
Slot == 0 .. NPhys - 1
RingTooSmall == NPhys      \* faulty: full and empty look alike
RingSize == NPhys + 1      \* free_list_.size()
Place == 0 .. NPhys        \* indices of free_list_

VARIABLES
  potential,     \* state_: membrane of each slot
  valid,         \* valid_: slot occupied
  age,           \* age_: timesteps since its last input or spike
  pending,       \* pending_: reclaimed, not yet allocated again
  rev_map,       \* rev_map_: slot -> neuron
  slot_input,    \* slot_input_: this step's input of each slot
  fired_mask,    \* fired_mask_: slot fired in this step
  map_table,     \* map_table_: neuron -> slot
  map_valid,     \* map_valid_: neuron has a slot
  ever_mapped,   \* ever_mapped_: neuron has had a slot
  free_list,     \* free_list_: ring of slots
  free_head,     \* free_head_
  free_tail,     \* free_tail_
  live,          \* live_
  peak,          \* peak_
  pc,            \* the loop step() is in; "idle" between two calls
  at,            \* its loop variable
  current,       \* step()'s argument
  out,           \* the neurons step() has emitted
  shown          \* history: what a caller sees between two calls

slotVars == <<potential, valid, age, pending, rev_map>>
scratchVars == <<slot_input, fired_mask>>
mapVars == <<map_table, map_valid, ever_mapped>>
freeVars == <<free_list, free_head, free_tail>>
countVars == <<live, peak>>
callVars == <<pc, at, current, out>>
dnpVars == <<slotVars, scratchVars, mapVars, freeVars, countVars, callVars, shown>>

NoCurrent == [n \in Neuron |-> 0]

Nothing == [membrane |-> << >>, idle |-> << >>, ever |-> {}, fired |-> {}]

Cleared ==
  /\ potential' = [p \in Slot |-> 0] /\ valid' = [p \in Slot |-> FALSE]
  /\ age' = [p \in Slot |-> 0] /\ pending' = [p \in Slot |-> FALSE]
  /\ slot_input' = [p \in Slot |-> 0] /\ fired_mask' = [p \in Slot |-> FALSE]
  /\ map_valid' = [n \in Neuron |-> FALSE]
  /\ ever_mapped' = [n \in Neuron |-> FALSE]
  /\ free_list' = [i \in Place |-> IF i = NPhys THEN free_list[i] ELSE i]
  /\ free_head' = 0 /\ free_tail' = NPhys
  /\ live' = 0 /\ peak' = 0

Init ==
  /\ potential = [p \in Slot |-> 0] /\ valid = [p \in Slot |-> FALSE]
  /\ age = [p \in Slot |-> 0] /\ pending = [p \in Slot |-> FALSE]
  /\ rev_map = [p \in Slot |-> 0]
  /\ slot_input = [p \in Slot |-> 0] /\ fired_mask = [p \in Slot |-> FALSE]
  /\ map_table = [n \in Neuron |-> 0] /\ map_valid = [n \in Neuron |-> FALSE]
  /\ ever_mapped = [n \in Neuron |-> FALSE]
  /\ free_list = [i \in Place |-> IF i = NPhys THEN 0 ELSE i]
  /\ free_head = 0 /\ free_tail = NPhys
  /\ live = 0 /\ peak = 0
  /\ pc = "idle" /\ at = 0 /\ current = NoCurrent /\ out = {}
  /\ shown = Nothing

-----------------------------------------------------------------------------
(* One call of step().  The definitions that follow a "faulty:" are plausible
   mistakes in the one after them; no action uses them. *)

(* faulty: one iteration less. *)
AdvanceShort(bound, next) ==
  IF at + 2 >= bound THEN pc' = next /\ at' = 0 ELSE pc' = pc /\ at' = at + 1

(* The next iteration of a loop over 0 .. bound - 1, or what follows it. *)
Advance(bound, next) ==
  IF at + 1 = bound THEN pc' = next /\ at' = 0 ELSE pc' = pc /\ at' = at + 1

(* AGEINCREMENT. *)
Call(input) ==
  /\ pc = "idle"
  /\ \A p \in Slot : age[p] < MaxAge
  /\ age' = [p \in Slot |-> IF valid[p] THEN age[p] + 1 ELSE age[p]]
  /\ pc' = "update" /\ current' = input /\ out' = {}
  /\ UNCHANGED <<potential, valid, pending, rev_map, scratchVars, mapVars,
                 freeVars, countVars, at, shown>>

(* faulty: free_pop without the check. *)
NeverEmpty == FALSE

free_empty == free_head = free_tail

(* UpdateFSM: no input, or no slot for it: the input is dropped. *)
Ignore ==
  /\ pc = "update"
  /\ current[at] = 0 \/ (~map_valid[at] /\ free_empty)
  /\ Advance(NLog, "fire")
  /\ UNCHANGED <<slotVars, scratchVars, mapVars, freeVars, countVars, current,
                 out, shown>>

Stage ==
  LET p == map_table[at]
  IN  /\ pc = "update" /\ current[at] # 0 /\ map_valid[at]
      /\ IF pending[p] THEN UNCHANGED <<slot_input, age>>
         ELSE /\ slot_input' = [slot_input EXCEPT ![p] = current[at]]
              /\ age' = [age EXCEPT ![p] = 0]
      /\ Advance(NLog, "fire")
      /\ UNCHANGED <<potential, valid, pending, rev_map, fired_mask, mapVars,
                     freeVars, countVars, current, out, shown>>

Allocate ==
  LET p == free_list[free_head]
  IN  /\ pc = "update" /\ current[at] # 0 /\ ~map_valid[at] /\ ~free_empty
      /\ free_head' = (free_head + 1) % RingSize
      /\ map_table' = [map_table EXCEPT ![at] = p]
      /\ map_valid' = [map_valid EXCEPT ![at] = TRUE]
      /\ ever_mapped' = [ever_mapped EXCEPT ![at] = TRUE]
      /\ rev_map' = [rev_map EXCEPT ![p] = at]
      /\ valid' = [valid EXCEPT ![p] = TRUE]
      /\ pending' = [pending EXCEPT ![p] = FALSE]
      /\ potential' = [potential EXCEPT ![p] = 0]
      /\ age' = [age EXCEPT ![p] = 0]
      /\ slot_input' = [slot_input EXCEPT ![p] = current[at]]
      /\ live' = live + 1
      /\ Advance(NLog, "fire")
      /\ UNCHANGED <<fired_mask, free_list, free_tail, peak, current, out, shown>>

(* peak_ is taken between the two loops; then LIF and FIRE. *)
(* faulty: no leak without an input. *)
FinalizedFed(p) == valid[p] /\ ~pending[p] /\ slot_input[p] # 0

Finalized(p) == valid[p] /\ ~pending[p]
SlotFires(p) == Finalized(p) /\ Fires(potential[p], slot_input[p])

Fire ==
  /\ pc = "fire"
  /\ peak' = (IF live > peak THEN live ELSE peak)
  /\ potential' = [p \in Slot |-> IF Finalized(p)
                                  THEN lif_step(potential[p], slot_input[p])
                                  ELSE potential[p]]
  /\ slot_input' = [p \in Slot |-> IF Finalized(p) THEN 0 ELSE slot_input[p]]
  /\ age' = [p \in Slot |-> IF SlotFires(p) THEN 0 ELSE age[p]]
  /\ fired_mask' = [p \in Slot |-> fired_mask[p] \/ SlotFires(p)]
  /\ out' = {rev_map[p] : p \in {x \in Slot : SlotFires(x)}}
  /\ pc' = "prune"
  /\ UNCHANGED <<valid, pending, rev_map, mapVars, freeVars, live, at, current, shown>>

(* What Dnp::mapped and Dnp::potential tell of the neurons, their ages and
   the neurons emitted, once PRUNE is over; should_skip is pruned of it. *)
Mapped == {n \in Neuron : map_valid[n]}
Shown ==
  [membrane |-> [n \in Mapped |-> potential[map_table[n]]],
   idle     |-> [n \in Mapped |-> age[map_table[n]]],
   ever     |-> {n \in Neuron : ever_mapped[n]},
   fired    |-> out]

NextSlot ==
  /\ Advance(NPhys, "idle")
  /\ current' = (IF pc' = "idle" THEN NoCurrent ELSE current)
  /\ UNCHANGED out
  /\ IF pc' = "idle" THEN shown' = Shown' ELSE UNCHANGED shown

(* faulty: a spike does not protect. *)
ZombieFired(p) ==
  Finalized(p) /\ (age[p] >= AgeThresh \/ potential[p] <= PotThresh)

Zombie(p) == Finalized(p) /\ ~fired_mask[p] /\
             (age[p] >= AgeThresh \/ potential[p] <= PotThresh)

Keep ==
  /\ pc = "prune" /\ ~Zombie(at)
  /\ fired_mask' = [fired_mask EXCEPT ![at] = @ /\ ~Finalized(at)]
  /\ UNCHANGED <<slotVars, slot_input, mapVars, freeVars, countVars>>
  /\ NextSlot

reclaim ==
  /\ pc = "prune" /\ Zombie(at)
  /\ valid' = [valid EXCEPT ![at] = FALSE]
  /\ pending' = [pending EXCEPT ![at] = TRUE]
  /\ map_valid' = [map_valid EXCEPT ![rev_map[at]] = FALSE]
  /\ free_list' = [free_list EXCEPT ![free_tail] = at]
  /\ free_tail' = (free_tail + 1) % RingSize
  /\ live' = live - 1
  /\ UNCHANGED <<potential, age, rev_map, scratchVars, map_table, ever_mapped,
                 free_head, peak>>
  /\ NextSlot

-----------------------------------------------------------------------------
(* Between two calls.  reset() leaves map_table_ and rev_map_ as they are. *)
reset ==
  /\ pc = "idle"
  /\ Cleared
  /\ out' = {} /\ shown' = Nothing
  /\ UNCHANGED <<rev_map, map_table, pc, at, current>>

(* The warm-up of a run is over: the neurons' state is kept. *)
reset_metrics ==
  /\ pc = "idle"
  /\ peak' = live
  /\ UNCHANGED <<slotVars, scratchVars, mapVars, freeVars, live, callVars, shown>>

Next ==
  \/ \E input \in [Neuron -> Currents] : Call(input)
  \/ Ignore \/ Stage \/ Allocate
  \/ Fire
  \/ Keep \/ reclaim
  \/ reset \/ reset_metrics

Spec == Init /\ [][Next]_dnpVars

-----------------------------------------------------------------------------
TypeOK ==
  /\ potential \in [Slot -> Int] /\ valid \in [Slot -> BOOLEAN]
  /\ age \in [Slot -> Nat] /\ pending \in [Slot -> BOOLEAN]
  /\ rev_map \in [Slot -> Neuron] /\ slot_input \in [Slot -> Int]
  /\ fired_mask \in [Slot -> BOOLEAN]
  /\ map_table \in [Neuron -> Slot] /\ map_valid \in [Neuron -> BOOLEAN]
  /\ ever_mapped \in [Neuron -> BOOLEAN]
  /\ free_list \in [Place -> Slot]
  /\ free_head \in Place /\ free_tail \in Place
  /\ live \in Int /\ peak \in Int
  /\ pc \in {"idle", "update", "fire", "prune"}
  /\ at \in Nat
  /\ pc = "update" => at < NLog
  /\ pc = "prune" => at < NPhys
  /\ pc \in {"idle", "fire"} => at = 0
  /\ current \in [Neuron -> Int] /\ out \subseteq Neuron

(* The map table and the reverse map are inverse to each other on the valid
   entries, in the middle of a step too, though reset, reclaim and a new
   allocation leave stale entries behind in both: no two neurons share a
   slot, and a slot's spikes and prunes go to its owner. *)
MapsAgree ==
  /\ \A n \in Neuron :
       map_valid[n] => valid[map_table[n]] /\ rev_map[map_table[n]] = n
  /\ \A p \in Slot :
       valid[p] => map_valid[rev_map[p]] /\ map_table[rev_map[p]] = p

(* The places of the ring from h up to t, t excluded. *)
Between(h, t) == IF h <= t THEN h .. t - 1 ELSE (h .. NPhys) \cup (0 .. t - 1)
Window == Between(free_head, free_tail)

(* The free list holds exactly the slots that are not valid, each once, and
   never overflows into looking empty: its NPhys + 1 entries suffice. *)
FreeListExact ==
  /\ \A i, j \in Window : free_list[i] = free_list[j] => i = j
  /\ {free_list[i] : i \in Window} = {p \in Slot : ~valid[p]}

(* The occupancy that is reported as the storage in use is the number of
   valid slots; none of them is pending, so no input of a mapped neuron is
   ever ignored, and none keeps an input or a mark beyond its step. *)
OccupancyExact ==
  /\ live = Cardinality({p \in Slot : valid[p]})
  /\ pc \in {"idle", "prune"} => peak >= live
  /\ \A p \in Slot : ~(valid[p] /\ pending[p])
  /\ pc = "idle" => \A p \in Slot : slot_input[p] = 0 /\ ~fired_mask[p]

Store == INSTANCE NeuronStore WITH store <- shown

(* Which physical slot a neuron gets, and what the slot held before, makes no
   difference to any neuron. *)
ImplementsStore == Store!StoreSpec

Soma ==
  INSTANCE DenseSoma WITH
    soma <- [membrane |-> [n \in Neuron |-> IF n \in DOMAIN shown.membrane
                                            THEN shown.membrane[n] ELSE 0],
             fired    |-> shown.fired]

(* "With n_phys >= n_log and pruning off ... it reproduces dense Soma's
   firing exactly" (dnp.hpp:26); the membranes agree as well. *)
ReproducesSoma == Soma!SomaSpec
=============================================================================
