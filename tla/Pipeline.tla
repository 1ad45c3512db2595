------------------------------ MODULE Pipeline ------------------------------
(***************************************************************************)
(* Timesteps of a compiled network, as what running it promises, without a *)
(* mesh, a barrier, a ring or a notion of cycles: in a timestep every PE   *)
(* fires from the currents that are due, and every spike's currents are    *)
(* due exactly its axon delay later, once per MaxPool window.              *)
(***************************************************************************)
EXTENDS ImageTables, NeuronSteps

CONSTANTS
  UseDnp,      \* dynamic pruning is enabled
  SkipPruned   \* pruned neurons get no current

VARIABLES
  input_seq,  \* for each input PE the currents of one period
  t,          \* timesteps simulated
  soma,       \* the neurons of each PE
  counts,     \* how often each neuron has fired in the measured window
  due,        \* due[i][d]: what arrives at PE i in d timesteps from now
  ssa         \* for each attention block the outputs still to be projected

lineVars == <<input_seq, t, soma, counts, due, ssa>>

NoCurrent(chip, i) == [n \in neurons(chip.image, i) |-> 0]
Blank(chip, i) == [current |-> NoCurrent(chip, i), windows |-> {}]

(* Before the first timestep. *)
FirstSoma(chip) == [i \in DOMAIN chip.image |->
  IF UseDnp THEN EmptyStore ELSE DenseStore(neurons(chip.image, i))]
NoCounts(chip) == [i \in DOMAIN chip.image |-> NoCurrent(chip, i)]
NothingDue(chip) ==
  [i \in DOMAIN chip.image |-> [d \in 1 .. chip.delays |-> Blank(chip, i)]]
FirstSsa(chip) ==
  [c \in DOMAIN chip.coprocs |->
     [d \in 1 .. chip.coprocs[c].delay |-> NoAttention(chip.coprocs[c])]]

(* What drives PE i: its input, the attention of some timesteps ago, or the
   spikes due now. *)
Drive(chip, i) ==
  IF i \in projection_pes(chip.coprocs)
  THEN LET c == CHOOSE c \in DOMAIN chip.coprocs : i \in chip.coprocs[c].proj_pes
       IN  projection(chip.image, i, chip.coprocs[c], Head(ssa[c]))
  ELSE IF i \in DOMAIN input_seq
  THEN input_seq[i][(t % Len(input_seq[i])) + 1]
  ELSE due[i][1].current

Fired(chip, i) ==
  IF i \in chip.inert THEN soma[i]
  ELSE IF UseDnp THEN StoreStep(soma[i], Drive(chip, i), chip.slots[i])
  ELSE DenseStep(soma[i], Drive(chip, i))

(* What is due after the neurons have become after. *)
Sent(chip, after) ==
  LET spikes == UNION {UNION {{<<i, n, k>> : k \in DOMAIN chip.to[i][n]} : n \in after[i].fired} :
                         i \in DOMAIN chip.image}
      target(s) == chip.to[s[1]][s[2]][s[3]]
      skipped(i) == {n \in neurons(chip.image, i) :
                       UseDnp /\ SkipPruned /\ pruned(after[i], n)}
      arriving(i, d) ==
        {<<s, target(s)>> :
           s \in {x \in spikes : target(x).dst_pe = i /\ due_in(target(x).delay) = d}}
  IN  [i \in DOMAIN chip.image |-> [d \in 1 .. chip.delays |->
         received(chip.image, i, skipped(i),
                  IF d = chip.delays THEN Blank(chip, i) ELSE due[i][d + 1],
                  arriving(i, d))]]

StepOf(chip) ==
  LET after == [i \in DOMAIN chip.image |-> Fired(chip, i)]
  IN  /\ t' = t + 1
      /\ soma' = after
      /\ counts' = [i \in DOMAIN counts |-> [n \in DOMAIN counts[i] |->
           counts[i][n] + IF n \in after[i].fired THEN 1 ELSE 0]]
      /\ due' = Sent(chip, after)
      /\ ssa' = [c \in DOMAIN ssa |->
           Append(Tail(ssa[c]),
                  attention(chip.image, chip.coprocs[c],
                            [i \in DOMAIN after |-> after[i].fired]))]
      /\ UNCHANGED input_seq

ResetCountsOf(chip) ==
  /\ counts' = NoCounts(chip)
  /\ UNCHANGED <<input_seq, t, soma, due, ssa>>
=============================================================================
