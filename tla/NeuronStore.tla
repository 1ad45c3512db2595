----------------------------- MODULE NeuronStore -----------------------------
(***************************************************************************)
(* What dynamic neuron pruning promises, without slots, maps or a free     *)
(* list: each call is one StoreStep.                                       *)
(***************************************************************************)
EXTENDS NeuronSteps

CONSTANTS NLog, NPhys, Currents

VARIABLE store

Neuron == 0 .. NLog - 1

StoreInit == store = EmptyStore

Timestep(current) == store' = StoreStep(store, current, NPhys)

Empty == store' = EmptyStore

StoreNext == (\E current \in [Neuron -> Currents] : Timestep(current)) \/ Empty

StoreSpec == StoreInit /\ [][StoreNext]_store
=============================================================================
