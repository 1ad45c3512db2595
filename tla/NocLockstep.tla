---------------------------- MODULE NocLockstep ----------------------------
(***************************************************************************)
(* What a NoC cycle promises: all routers and all processing elements act  *)
(* at once, each on the state the cycle started from.  There is no staging *)
(* and no order; the next state is a function of the present one.  It is   *)
(* the meaning of "results are bit-identical for any thread count"         *)
(* (sim/include/neurort/engine/engine.hpp:23).                             *)
(***************************************************************************)
EXTENDS MeshTopology, Sequences

CONSTANTS Flit, CreditInit, Traffic

VARIABLES cur, outCredit, rrCursor, injectCredit, eject, pending, got

lockstepVars == <<cur, outCredit, rrCursor, injectCredit, eject, pending, got>>

LockstepInit ==
  /\ cur = [n \in Node |-> [p \in Dir |-> << >>]]
  /\ outCredit = [n \in Node |->
                    [d \in Dir |-> IF has_neighbor(n, d) THEN CreditInit ELSE 0]]
  /\ rrCursor = [n \in Node |-> [d \in Dir |-> 0]]
  /\ injectCredit = [n \in Node |-> CreditInit]
  /\ eject = [n \in Node |-> << >>]
  /\ \E tr \in Traffic :
       pending = [n \in Node |->
                    [i \in 1 .. Len(tr[n]) |->
                       [src |-> n, dst |-> tr[n][i], id |-> i]]]
  /\ got = [n \in Node |-> << >>]

Asks(r, o) ==
  {p \in Dir : cur[r][p] # << >> /\ route_xy(r, Head(cur[r][p]).dst) = o}

(* The first asking port at or after the cursor, cyclically. *)
Chosen(r, o) ==
  LET k == CHOOSE k \in 0 .. 4 :
             /\ (rrCursor[r][o] + k) % 5 \in Asks(r, o)
             /\ \A j \in 0 .. k - 1 : (rrCursor[r][o] + j) % 5 \notin Asks(r, o)
  IN  (rrCursor[r][o] + k) % 5

Sends(r, o) == Asks(r, o) # {} /\ (o = Local \/ outCredit[r][o] > 0)
Drops(r, p) == \E o \in Dir : Sends(r, o) /\ Chosen(r, o) = p
Moved(r, o) == IF Sends(r, o) THEN <<Head(cur[r][Chosen(r, o)])>> ELSE << >>

Batch(n) == IF injectCredit[n] < Len(pending[n])
            THEN injectCredit[n] ELSE Len(pending[n])

(* What enters port p of node n in this cycle. *)
Arrivals(n, p) ==
  IF p = Local THEN SubSeq(pending[n], 1, Batch(n))
  ELSE IF has_neighbor(n, p) THEN Moved(step(n, p), opposite(p)) ELSE << >>

One(b) == IF b THEN 1 ELSE 0

Cycle ==
  /\ cur' = [n \in Node |-> [p \in Dir |->
       (IF Drops(n, p) THEN Tail(cur[n][p]) ELSE cur[n][p]) \o Arrivals(n, p)]]
  /\ outCredit' = [n \in Node |-> [d \in Dir |->
       IF d \in Cardinal /\ has_neighbor(n, d)
       THEN outCredit[n][d] - One(Sends(n, d))
              + One(Drops(step(n, d), opposite(d)))
       ELSE outCredit[n][d]]]
  /\ rrCursor' = [n \in Node |-> [o \in Dir |->
       IF Sends(n, o) THEN (Chosen(n, o) + 1) % 5 ELSE rrCursor[n][o]]]
  /\ injectCredit' = [n \in Node |->
       injectCredit[n] - Batch(n) + One(Drops(n, Local))]
  /\ eject' = [n \in Node |-> Moved(n, Local)]
  /\ pending' = [n \in Node |->
       SubSeq(pending[n], Batch(n) + 1, Len(pending[n]))]
  /\ got' = [n \in Node |-> got[n] \o Moved(n, Local)]

LockstepSpec == LockstepInit /\ [][Cycle]_lockstepVars
=============================================================================
