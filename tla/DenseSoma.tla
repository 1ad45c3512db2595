------------------------------ MODULE DenseSoma ------------------------------
(***************************************************************************)
(* The plain Soma (sim/include/neurort/functional/soma.hpp): every neuron  *)
(* has a membrane of its own and integrates in every timestep.             *)
(***************************************************************************)
EXTENDS NeuronSteps

CONSTANTS
  NLog,      \* neurons of the PE
  Currents   \* the input currents a neuron may receive in a timestep

VARIABLE soma  \* v_, and the neurons fire() appended in the last timestep

Neuron == 0 .. NLog - 1

SomaInit == soma = DenseStore(Neuron)

fire(current) == soma' = DenseStep(soma, current)

reset == soma' = DenseStore(Neuron)

SomaNext == (\E current \in [Neuron -> Currents] : fire(current)) \/ reset

SomaSpec == SomaInit /\ [][SomaNext]_soma
=============================================================================
