-------------------------- MODULE TimestepBarrier --------------------------
(***************************************************************************)
(* What the decentralised barrier promises: a PE is released from a        *)
(* timestep only when every PE has finished its work of that timestep, and *)
(* the next one begins only when every PE has been released.               *)
(***************************************************************************)
EXTENDS Naturals

CONSTANTS NumPe, NumTimesteps

VARIABLES
  t,          \* the timestep all PEs are in
  done,       \* the PEs whose local work of t is finished
  released    \* the PEs that may leave t

barrierVars == <<t, done, released>>

All == 0 .. NumPe - 1

BarrierInit == t = 0 /\ done = {} /\ released = {}

(* A PE finishes, or is released, or both at once. *)
Compute(i) ==
  /\ done' \in {done, done \cup {i}}
  /\ released' \in {released, released \cup {i}}
  /\ released' # released => done' = All
  /\ UNCHANGED t

Begin ==
  /\ released = All
  /\ t + 1 < NumTimesteps
  /\ t' = t + 1 /\ done' = {} /\ released' = {}

BarrierNext == (\E i \in All : Compute(i)) \/ Begin

BarrierSpec == BarrierInit /\ [][BarrierNext]_barrierVars
=============================================================================
