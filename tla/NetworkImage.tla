---------------------------- MODULE NetworkImage ----------------------------
(***************************************************************************)
(* The compiled network as the simulator reads it                          *)
(* (sim/include/neurort/network/network_image.hpp).                        *)
(***************************************************************************)
EXTENDS ImageTables

CONSTANTS
  Image,      \* pes_: for each PE its tables
  Coprocs     \* the attention blocks of attention.bin

Neurons(i) == neurons(Image, i)
Targets == decoded(Image)
max_delay == longest_delay(Image)
ProjectionPes == projection_pes(Coprocs)

-----------------------------------------------------------------------------
(* What NetworkImage::load checks of the tables, what the compiler makes sure
   of so that no decoded address "escapes this PE", and that attention takes
   at least one stage. *)
ImageAssumption ==
  /\ \A g \in all_groups(Image) :
       /\ g.dst_pe \in DOMAIN Image
       /\ g.dendrite_id \in DOMAIN Image[g.dst_pe].dendrites
       /\ \A L \in 1 .. 3 : g.levels[L].count >= 1
       /\ combine(g.meta) = 2 => avg_n(g.meta) > 0
       /\ \A k \in DOMAIN GroupTargets(g) :
            LET target   == GroupTargets(g)[k]
                synapses == decompress(Image[g.dst_pe].dendrites[g.dendrite_id],
                                       target.go1, target.go2)
            IN  /\ target.go1 \in 0 .. 65535 /\ target.go2 \in 0 .. 65535
                /\ \A s \in DOMAIN synapses :
                     /\ synapses[s].neuron \in Neurons(g.dst_pe)
                     /\ synapses[s].weight \in DOMAIN Image[g.dst_pe].weights
  /\ \A i \in DOMAIN Image : \A k \in DOMAIN Image[i].axon_groups :
       \A p \in DOMAIN GroupTargets(Image[i].axon_groups[k]) :
         GroupTargets(Image[i].axon_groups[k])[p].src \in Neurons(i)
  /\ \A c \in DOMAIN Coprocs :
       Coprocs[c].delay >= 1 /\ Coprocs[c].embed % Coprocs[c].heads = 0

ASSUME ImageAssumption

(* load refuses a longer delay than kMaxDelay. *)
ASSUME DelayAssumption == \A g \in all_groups(Image) : g.delay \in 0 .. 15
=============================================================================
