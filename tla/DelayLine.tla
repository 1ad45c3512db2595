------------------------------ MODULE DelayLine ------------------------------
(***************************************************************************)
(* What running a compiled network promises: the timesteps of Pipeline.    *)
(***************************************************************************)
EXTENDS Pipeline

CONSTANTS
  Chip,        \* the network that is run, as Pipeline's operators take it
  InputSeqs    \* the input sequences that may be given

LineInit ==
  /\ input_seq \in InputSeqs
  /\ t = 0
  /\ soma = FirstSoma(Chip) /\ counts = NoCounts(Chip)
  /\ due = NothingDue(Chip) /\ ssa = FirstSsa(Chip)

Step == StepOf(Chip)
ResetCounts == ResetCountsOf(Chip)

LineNext == Step \/ ResetCounts

LineSpec == LineInit /\ [][LineNext]_lineVars
=============================================================================
