------------------------------- MODULE Router -------------------------------
(***************************************************************************)
(* The routers of the mesh: input-buffered, XY-routed, credit              *)
(* backpressured (sim/src/functional/router.cpp).  A router's compute runs *)
(* in phase A of a NoC cycle and its commit in phase B; the module gives   *)
(* both as actions on the state of the whole mesh, together with the two   *)
(* entry points a processing element uses.  Who takes those steps, and in  *)
(* which order, is said by the modules that extend this one.               *)
(*                                                                         *)
(* A flit is any record with a destination: what it carries is left to the *)
(* modules that extend this one.                                           *)
(***************************************************************************)
EXTENDS MeshTopology, Sequences, FiniteSets

CONSTANTS
  Flit,         \* the flits that travel, each with a field dst
  CreditInit    \* noc.credit_init

InBufCap == 32

(* Config::parse rejects any other credit_init. *)
ASSUME CreditAssumption == CreditInit \in 1 .. InBufCap

(* Flits are only ever addressed to a PE of the mesh. *)
ASSUME FlitAssumption == \A f \in Flit : f.dst \in Node

VARIABLES
  cur,             \* in_: visible half of the input FIFO of each port
  nxt,             \* in_: staged half, invisible until commit
  outCredit,       \* out_credit_: free slots left downstream, per output
  credInbox,       \* cred_inbox_: credits given back, not yet taken
  rrCursor,        \* rr_cursor_: where arbitration of an output starts
  injectCredit,    \* inject_credit_: free slots left in the Local input
  peCreditReturn,  \* pe_credit_return_: Local slots freed this cycle
  eject,           \* eject_in_ of the attached PE, visible half
  ejectNxt         \* eject_in_ of the attached PE, staged half

routerVars == <<cur, nxt, outCredit, credInbox, rrCursor, injectCredit,
                peCreditReturn, eject, ejectNxt>>

(* Faulty variants of definitions stand before them, each with one mistake,
   to show that the properties notice it; nothing else uses them. *)
MergeOverwrites(visible, staged) == IF staged = << >> THEN visible ELSE staged
MergeInFront(visible, staged) == staged \o visible

(* DoubleBufferedFifo::commit appends the staged half to the visible one. *)
Merge(visible, staged) == visible \o staged

DrainedNothing(visible) == visible

(* The drain loop of a PE empties its visible ingress. *)
Drained(visible) == << >>

(* Mesh::build: every link starts with CreditInit credits, a missing link
   with none. *)
RouterInit ==
  /\ cur = [n \in Node |-> [p \in Dir |-> << >>]]
  /\ nxt = [n \in Node |-> [p \in Dir |-> << >>]]
  /\ outCredit = [n \in Node |->
                    [d \in Dir |-> IF has_neighbor(n, d) THEN CreditInit ELSE 0]]
  /\ credInbox = [n \in Node |-> [d \in Dir |-> 0]]
  /\ rrCursor = [n \in Node |-> [d \in Dir |-> 0]]
  /\ injectCredit = [n \in Node |-> CreditInit]
  /\ peCreditReturn = [n \in Node |-> 0]
  /\ eject = [n \in Node |-> << >>]
  /\ ejectNxt = [n \in Node |-> << >>]

-----------------------------------------------------------------------------
(* Arbitration.  Every input with a flit asks for the output its head needs;
   the asks are computed once, before any output is served, so a flit that
   becomes head during the step waits for the next cycle. *)

Requests(r, o) ==
  {p \in Dir : cur[r][p] # << >> /\ route_xy(r, Head(cur[r][p]).dst) = o}

(* How far port p lies behind the round-robin cursor of output o. *)
Distance(r, o, p) == (p + PortCount - rrCursor[r][o]) % PortCount

Winner(r, o) ==
  CHOOSE p \in Requests(r, o) :
    \A q \in Requests(r, o) : Distance(r, o, p) <= Distance(r, o, q)

GrantedEjectOnCredit(r) ==
  {o \in Dir : Requests(r, o) # {} /\ outCredit[r][o] > 0}
GrantedEarlyCredit(r) ==
  {o \in Dir : /\ Requests(r, o) # {}
               /\ o = Local \/ outCredit[r][o] + credInbox[r][o] > 0}

(* The outputs that send a flit this cycle.  Ejecting needs no credit. *)
Granted(r) ==
  {o \in Dir : Requests(r, o) # {} /\ (o = Local \/ outCredit[r][o] > 0)}

PoppedUngranted(r) == {Winner(r, o) : o \in {x \in Dir : Requests(r, x) # {}}}

Popped(r) == {Winner(r, o) : o \in Granted(r)}

Sent(r, o) == Head(cur[r][Winner(r, o)])

NextCursorStays(p) == p

(* The output's cursor moves past the port it has just served. *)
NextCursor(p) == (p + 1) % PortCount

LocalFreedOnEject(r) == Local \in Granted(r)

(* A pop of the Local input gives a credit back to the PE. *)
LocalFreed(r) == Local \in Popped(r)

(* The port of router n that faces router r is p: r delivers there what it
   sends out of opposite(p), and a slot n frees there is credited to r. *)
Faces(n, p, r) == p \in Cardinal /\ has_neighbor(n, p) /\ step(n, p) = r

(* Router::compute.  Each granted output takes the head of its winner,
   writes it to the neighbour's staged half (or to the PE's), and returns one
   credit to whoever feeds the winner's port. *)
Compute(r) ==
  /\ cur' = [cur EXCEPT ![r] =
       [p \in Dir |-> IF p \in Popped(r) THEN Tail(cur[r][p]) ELSE cur[r][p]]]
  /\ nxt' = [n \in Node |-> [p \in Dir |->
       IF Faces(n, p, r) /\ opposite(p) \in Granted(r)
       THEN Append(nxt[n][p], Sent(r, opposite(p)))
       ELSE nxt[n][p]]]
  /\ ejectNxt' = [ejectNxt EXCEPT ![r] =
       IF Local \in Granted(r) THEN Append(@, Sent(r, Local)) ELSE @]
  /\ outCredit' = [outCredit EXCEPT ![r] = [o \in Dir |->
       IF o \in Granted(r) \ {Local} THEN outCredit[r][o] - 1 ELSE outCredit[r][o]]]
  /\ credInbox' = [n \in Node |-> [d \in Dir |->
       IF Faces(n, d, r) /\ opposite(d) \in Popped(r)
       THEN credInbox[n][d] + 1
       ELSE credInbox[n][d]]]
  /\ peCreditReturn' = [peCreditReturn EXCEPT ![r] =
       IF LocalFreed(r) THEN @ + 1 ELSE @]
  /\ rrCursor' = [rrCursor EXCEPT ![r] = [o \in Dir |->
       IF o \in Granted(r) THEN NextCursor(Winner(r, o)) ELSE rrCursor[r][o]]]
  /\ UNCHANGED <<injectCredit, eject>>

(* Router::commit: staged arrivals and returned credits become visible. *)
Commit(r) ==
  /\ cur' = [cur EXCEPT ![r] = [p \in Dir |-> Merge(cur[r][p], nxt[r][p])]]
  /\ nxt' = [nxt EXCEPT ![r] = [p \in Dir |-> << >>]]
  /\ outCredit' = [outCredit EXCEPT ![r] =
                     [d \in Dir |-> outCredit[r][d] + credInbox[r][d]]]
  /\ credInbox' = [credInbox EXCEPT ![r] = [d \in Dir |-> 0]]
  /\ injectCredit' = [injectCredit EXCEPT ![r] = @ + peCreditReturn[r]]
  /\ peCreditReturn' = [peCreditReturn EXCEPT ![r] = 0]
  /\ UNCHANGED <<rrCursor, eject, ejectNxt>>

-----------------------------------------------------------------------------
(* The two ends a processing element touches. *)

(* One PE compute: everything ejected in the cycle before is drained, and the
   flits fs pass through try_inject, which the credits must cover. *)
DrainAndInject(n, fs) ==
  /\ eject' = [eject EXCEPT ![n] = Drained(@)]
  /\ Len(fs) <= injectCredit[n]
  /\ nxt' = [nxt EXCEPT ![n][Local] = @ \o fs]
  /\ injectCredit' = [injectCredit EXCEPT ![n] = @ - Len(fs)]
  /\ UNCHANGED <<cur, outCredit, credInbox, rrCursor, peCreditReturn, ejectNxt>>

(* The PE's commit: what the router ejected becomes visible. *)
CommitEject(n) ==
  /\ eject' = [eject EXCEPT ![n] = Merge(@, ejectNxt[n])]
  /\ ejectNxt' = [ejectNxt EXCEPT ![n] = << >>]
  /\ UNCHANGED <<cur, nxt, outCredit, credInbox, rrCursor, injectCredit,
                 peCreditReturn>>

-----------------------------------------------------------------------------
(* How many members of A stand in a queue. *)
Count(q, A) == Cardinality({k \in DOMAIN q : q[k] \in A})

(* The whole mesh is well formed: every queue holds flits, every counter is
   a count. *)
RouterTypeOK ==
  /\ cur \in [Node -> [Dir -> Seq(Flit)]]
  /\ nxt \in [Node -> [Dir -> Seq(Flit)]]
  /\ outCredit \in [Node -> [Dir -> Nat]]
  /\ credInbox \in [Node -> [Dir -> Nat]]
  /\ rrCursor \in [Node -> [Dir -> Dir]]
  /\ injectCredit \in [Node -> Nat]
  /\ peCreditReturn \in [Node -> Nat]
  /\ eject \in [Node -> Seq(Flit)]
  /\ ejectNxt \in [Node -> Seq(Flit)]

(* The credits of a link are conserved: those its sender holds, those on the
   way back to it, and the flits in the buffer they pay for always add up to
   CreditInit (out_credit_, cred_inbox_ and in_ of two routers, updated by
   both of them within one phase). *)
LinkCreditsConserved ==
  \A n \in Node, d \in Cardinal :
    has_neighbor(n, d) =>
      LET m == step(n, d)
          p == opposite(d)
      IN  outCredit[n][d] + credInbox[n][d] + Len(cur[m][p]) + Len(nxt[m][p])
            = CreditInit

(* The same for the link from a PE into the Local input of its router. *)
InjectCreditsConserved ==
  \A n \in Node :
    injectCredit[n] + peCreditReturn[n]
      + Len(cur[n][Local]) + Len(nxt[n][Local]) = CreditInit

(* A port that faces the edge of the mesh never holds a flit. *)
EdgePortsEmpty ==
  \A n \in Node, p \in Cardinal :
    ~has_neighbor(n, p) => cur[n][p] = << >> /\ nxt[n][p] = << >>

(* Neither assertion of DoubleBufferedFifo can fire: a staged half never
   overflows and a commit always has room for it (ports.hpp:44 and :50). *)
FifoNeverOverflows ==
  \A n \in Node, p \in Dir : Len(cur[n][p]) + Len(nxt[n][p]) <= InBufCap

(* The assertion in Router::compute holds: no flit is ever routed off the
   mesh (router.cpp:80). *)
NeverRoutedOffMesh ==
  \A n \in Node, o \in Cardinal : Requests(n, o) # {} => has_neighbor(n, o)

(* What is still ahead of flit f when it stands at port p of router n: nothing
   behind it. *)
ObeysXy(n, p, f) ==
  /\ p \in {North, South} => f.dst.x = n.x
  /\ p = West  => f.dst.x >= n.x
  /\ p = East  => f.dst.x <= n.x
  /\ p = North => f.dst.y >= n.y
  /\ p = South => f.dst.y <= n.y

(* XY discipline: a flit that has turned into a column never needs to leave
   it, and none is sent back where it came from.  Without it the channels of
   the mesh could wait on each other in a circle. *)
XyDiscipline ==
  \A n \in Node, p \in Cardinal :
    /\ \A i \in 1 .. Len(cur[n][p]) : ObeysXy(n, p, cur[n][p][i])
    /\ \A i \in 1 .. Len(nxt[n][p]) : ObeysXy(n, p, nxt[n][p][i])
=============================================================================
