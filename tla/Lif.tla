-------------------------------- MODULE Lif --------------------------------
(***************************************************************************)
(* The leaky integrate-and-fire step that dense and pruned neurons share   *)
(* (sim/include/neurort/functional/lif.hpp).  Potentials and currents are  *)
(* whole multiples of a unit; the quotient is rounded down to one, where   *)
(* the code rounds to a double.  No property depends on the rounding.      *)
(***************************************************************************)
EXTENDS Integers

CONSTANTS Tau, VThreshold

(* NetworkRunner takes tau and the threshold from the image only if none
   positive is given; the compiler writes positive ones. *)
ASSUME LifAssumption == Tau \in Nat \ {0} /\ VThreshold \in Nat \ {0}

Integrated(v, in) == v + (in - v) \div Tau
Fires(v, in) == Integrated(v, in) >= VThreshold
lif_step(v, in) == IF Fires(v, in) THEN 0 ELSE Integrated(v, in)
=============================================================================
