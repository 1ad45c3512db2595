-------------------------------- MODULE MCDnp --------------------------------
(***************************************************************************)
(* Small neuron stores for model-checking Dnp.                             *)
(***************************************************************************)
EXTENDS Dnp

(* An input that fires a charged neuron in the second timestep, and an
   inhibitory one. *)
Charging == {0, 9}
AnySign == {-4, 0, 9}

Unreachable == -100
=============================================================================
