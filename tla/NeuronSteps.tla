----------------------------- MODULE NeuronSteps -----------------------------
(***************************************************************************)
(* One timestep of a PE's neurons, as functions of their state: with plain *)
(* somas, where every neuron has a membrane, and with dynamic pruning,     *)
(* where a partial function from neurons to membranes holds at most nPhys  *)
(* of them.  There neurons with an input enter, lowest first, while there  *)
(* is room; all neurons in it integrate; the silent ones among them that   *)
(* have been idle for long, or whose membrane is low, leave.               *)
(***************************************************************************)
EXTENDS Lif, FiniteSets

CONSTANTS
  AgeThresh,   \* age_thresh
  PotThresh    \* pot_thresh

(* The membranes in the store, for how many timesteps each has been idle,
   the neurons that were ever in it, those that fired in the last timestep. *)
EmptyStore ==
  [membrane |-> << >>, idle |-> << >>, ever |-> {}, fired |-> {}]

held(s) == DOMAIN s.membrane

(* Those with fewer competitors below them than there is room. *)
Entering(s, current, nPhys) ==
  LET asking == {n \in DOMAIN current : current[n] # 0} \ held(s)
  IN  {n \in asking :
         Cardinality({m \in asking : m < n}) < nPhys - Cardinality(held(s))}

StoreStep(s, current, nPhys) ==
  LET entering  == Entering(s, current, nPhys)
      in        == held(s) \cup entering
      before(n) == IF n \in held(s) THEN s.membrane[n] ELSE 0
      fires     == {n \in in : Fires(before(n), current[n])}
      after     == [n \in in |-> lif_step(before(n), current[n])]
      age       == [n \in in |->
                      IF n \in fires \/ current[n] # 0 THEN 0 ELSE s.idle[n] + 1]
      stay      == {n \in in : \/ n \in fires
                               \/ age[n] < AgeThresh /\ after[n] > PotThresh}
  IN  [membrane |-> [n \in stay |-> after[n]],
       idle     |-> [n \in stay |-> age[n]],
       ever     |-> s.ever \cup entering,
       fired    |-> fires]

(* A pruned neuron: it was in the store and is not. *)
pruned(s, n) == n \in s.ever /\ n \notin held(s)

DenseStore(neurons) ==
  [membrane |-> [n \in neurons |-> 0], fired |-> {}]

DenseStep(s, current) ==
  [membrane |-> [n \in DOMAIN current |-> lif_step(s.membrane[n], current[n])],
   fired    |-> {n \in DOMAIN current : Fires(s.membrane[n], current[n])}]
=============================================================================
