----------------------------- MODULE MCBspEngine -----------------------------
(***************************************************************************)
(* Small meshes for model-checking BspEngine.                              *)
(***************************************************************************)
EXTENDS BspEngine

MCFlit == [type : {"Report", "NextTimestep", "Spike"}, src : Node, dst : Node,
           timestep : Timestep]

At(x, y) == [x |-> x, y |-> y]
Root == At(0, 0)
Corner == At(W - 1, H - 1)
Times(k, dst) == [i \in 1 .. k |-> dst]

(* On a line: the two ends choose between silence and a burst to the other
   end that exceeds the credits; the middle sends to its neighbour. *)
EndsBurst ==
  [n \in Node |-> [ts \in Timestep |->
     IF n = Root THEN {<< >>, Times(2, Corner)}
     ELSE IF n = Corner THEN {<< >>, Times(2, Root)} ELSE {neighbor_destinations(n)}]]

(* On a 2 x 2 mesh, two unequal streams meet at the corner, a hotspot where
   one flit is ejected per cycle: the barrier is over before the longer stream
   is, and its spikes cross into the next timestep, or are left to drain().
   The corner itself sends anywhere. *)
Overtaken ==
  [n \in Node |-> [ts \in Timestep |->
     IF n = At(1, 0) THEN {hotspot_destinations(n, Corner, 12)}
     ELSE IF n = At(0, 1) THEN {<< >>, hotspot_destinations(n, Corner, 24)}
     ELSE IF n = Corner THEN {<<uniform_destination(n, r)>> : r \in 0 .. W * H - 1}
     ELSE {<< >>}]]
=============================================================================
