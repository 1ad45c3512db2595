----------------------------- MODULE NocProofs -----------------------------
(***************************************************************************)
(* Theorems about Noc for every mesh, every credit_init and every load:    *)
(* credits are conserved on every link, so no FIFO overflows; flits obey   *)
(* XY routing, so the mesh never locks up; no flit is lost, doubled or     *)
(* overtaken by one of its own pair; and the order in which the tickables  *)
(* of a sweep run makes no difference.                                     *)
(***************************************************************************)
EXTENDS Noc, RouterProofs

(* The loads are addressed to PEs of the mesh. *)
LEMMA BacklogIsSeq ==
  ASSUME NEW tr \in Traffic, NEW n \in Node
  PROVE  Backlog(tr[n], n) \in Seq(Flit)
BY TrafficAssumption

(* The flits PE n injects in a compute and those it keeps. *)
LEMMA BatchIsSeq ==
  ASSUME TypeOK, NEW n \in Node,
         NEW k, k = IF injectCredit[n] < Len(pending[n])
                    THEN injectCredit[n] ELSE Len(pending[n])
  PROVE  /\ SubSeq(pending[n], 1, k) \in Seq(Flit)
         /\ SubSeq(pending[n], k + 1, Len(pending[n])) \in Seq(Flit)
<1>1. pending[n] \in Seq(Flit) /\ Len(pending[n]) \in Nat /\ injectCredit[n] \in Nat
  BY LenProperties DEF TypeOK, RouterTypeOK
<1>2. k \in 0 .. Len(pending[n])
  BY <1>1
<1>3. \A i \in 1 .. k : i \in 1 .. Len(pending[n])
  BY <1>1, <1>2
<1>4. QED
  BY <1>1, <1>2, SubSeqProperties

LEMMA StepType == TypeOK /\ [Next]_nocVars => TypeOK'
<1> SUFFICES ASSUME TypeOK, [Next]_nocVars PROVE TypeOK'
  OBVIOUS
<1>0. RouterTypeOK
  BY DEF TypeOK
<1>1. ASSUME NEW n \in Node, PeCompute(n) PROVE TypeOK'
  <2> DEFINE k == IF injectCredit[n] < Len(pending[n])
                  THEN injectCredit[n] ELSE Len(pending[n])
  <2>1. /\ SubSeq(pending[n], 1, k) \in Seq(Flit)
        /\ SubSeq(pending[n], k + 1, Len(pending[n])) \in Seq(Flit)
    BY BatchIsSeq
  <2>2. RouterTypeOK'
    BY <1>0, <1>1, <2>1, DrainAndInjectType DEF PeCompute
  <2>3. pending' \in [Node -> Seq(Flit)]
    BY <1>1, <2>1 DEF PeCompute, TypeOK
  <2>4. QED
    BY <1>1, <2>2, <2>3 DEF PeCompute, Take, TypeOK
<1>2. ASSUME NEW r \in Node, RouterCompute(r) PROVE TypeOK'
  BY <1>0, <1>2, ComputeType DEF RouterCompute, Take, TypeOK
<1>3. ASSUME NEW n \in Node, PeCommit(n) PROVE TypeOK'
  BY <1>0, <1>3, CommitEjectType DEF PeCommit, Take, TypeOK
<1>4. ASSUME NEW r \in Node, RouterCommit(r) PROVE TypeOK'
  BY <1>0, <1>4, CommitType DEF RouterCommit, Take, TypeOK
<1>5. CASE EndCompute
  BY <1>5 DEF EndCompute, TypeOK, RouterTypeOK, routerVars
<1>6. CASE EndCycle
  BY <1>6 DEF EndCycle, TypeOK, RouterTypeOK, routerVars
<1>7. CASE UNCHANGED nocVars
  BY <1>7 DEF nocVars, TypeOK, RouterTypeOK, routerVars
<1>8. QED
  BY <1>1, <1>2, <1>3, <1>4, <1>5, <1>6, <1>7 DEF Next

LEMMA InitType == Init => TypeOK
<1> SUFFICES ASSUME Init PROVE TypeOK
  OBVIOUS
<1>1. RouterTypeOK
  <2>1. << >> \in Seq(Flit) /\ CreditInit \in Nat
    BY CreditAssumption DEF InBufCap
  <2>2. 0 \in Dir
    BY DEF Dir, Local, South
  <2>3. QED
    BY <2>1, <2>2 DEF RouterTypeOK, Init, RouterInit
<1>2. pending \in [Node -> Seq(Flit)]
  BY BacklogIsSeq DEF Init
<1>3. QED
  BY <1>1, <1>2 DEF Init, TypeOK

(* Every queue holds flits and every credit counter is a natural number, for
   any mesh, credit_init and load: no credit is spent that is not there. *)
THEOREM TypeCorrect == Spec => []TypeOK
BY InitType, StepType, PTL DEF Spec

LEMMA StepCredits == TypeOK /\ CreditInv /\ [Next]_nocVars => CreditInv'
<1> SUFFICES ASSUME TypeOK, CreditInv, [Next]_nocVars PROVE CreditInv'
  OBVIOUS
<1>0. RouterTypeOK
  BY DEF TypeOK
<1>1. ASSUME NEW n \in Node, PeCompute(n) PROVE CreditInv'
  <2> DEFINE k == IF injectCredit[n] < Len(pending[n])
                  THEN injectCredit[n] ELSE Len(pending[n])
  <2>1. SubSeq(pending[n], 1, k) \in Seq(Flit)
    BY BatchIsSeq
  <2>2. QED
    BY <1>0, <1>1, <2>1, DrainAndInjectCredits DEF PeCompute
<1>2. ASSUME NEW r \in Node, RouterCompute(r) PROVE CreditInv'
  BY <1>0, <1>2, ComputeCredits DEF RouterCompute
<1>3. ASSUME NEW n \in Node, PeCommit(n) PROVE CreditInv'
  BY <1>3, LinksUnchangedCredits DEF PeCommit, CommitEject
<1>4. ASSUME NEW r \in Node, RouterCommit(r) PROVE CreditInv'
  BY <1>0, <1>4, CommitCredits DEF RouterCommit
<1>5. CASE EndCompute
  BY <1>5, LinksUnchangedCredits DEF EndCompute, routerVars
<1>6. CASE EndCycle
  BY <1>6, LinksUnchangedCredits DEF EndCycle, routerVars
<1>7. CASE UNCHANGED nocVars
  BY <1>7, LinksUnchangedCredits DEF nocVars, routerVars
<1>8. QED
  BY <1>1, <1>2, <1>3, <1>4, <1>5, <1>6, <1>7 DEF Next

LEMMA CreditsHold == Spec => []CreditInv
<1>1. Init => CreditInv
  BY InitCredits DEF Init
<1>2. QED
  BY <1>1, StepCredits, TypeCorrect, PTL DEF Spec

(* Credits are conserved on every link between two routers, whatever the
   order in which the tickables of a sweep run. *)
THEOREM LinkCredits == Spec => []LinkCreditsConserved
<1>1. CreditInv => LinkCreditsConserved
  BY DEF CreditInv
<1>2. QED
  BY <1>1, CreditsHold, PTL

(* And on the link from every PE into its router. *)
THEOREM InjectCredits == Spec => []InjectCreditsConserved
<1>1. CreditInv => InjectCreditsConserved
  BY DEF CreditInv
<1>2. QED
  BY <1>1, CreditsHold, PTL

(* Hence push_next, which must not look at the occupancy, never overflows the
   32 slots of an input FIFO: both assertions of ports.hpp hold. *)
THEOREM NoFifoOverflow == Spec => []FifoNeverOverflows
<1>1. TypeOK /\ CreditInv => FifoNeverOverflows
  BY CreditsBoundFifos DEF TypeOK
<1>2. QED
  BY <1>1, CreditsHold, TypeCorrect, PTL

(* The assertion of Router::compute holds: no flit is routed off the mesh,
   where it would wait forever for a credit. *)
THEOREM NoFlitLeavesMesh == Spec => []NeverRoutedOffMesh
<1>1. TypeOK => NeverRoutedOffMesh
  BY TypedFlitsStayOnMesh DEF TypeOK
<1>2. QED
  BY <1>1, TypeCorrect, PTL

-----------------------------------------------------------------------------
(* XY discipline and the starvation bound of the arbiter. *)

LEMMA StepXy == TypeOK /\ XyDiscipline /\ [Next]_nocVars => XyDiscipline'
<1> SUFFICES ASSUME TypeOK, XyDiscipline, [Next]_nocVars PROVE XyDiscipline'
  OBVIOUS
<1>0. RouterTypeOK
  BY DEF TypeOK
<1>1. ASSUME NEW n \in Node, PeCompute(n) PROVE XyDiscipline'
  BY <1>0, <1>1, DrainAndInjectXy DEF PeCompute
<1>2. ASSUME NEW r \in Node, RouterCompute(r) PROVE XyDiscipline'
  BY <1>0, <1>2, ComputeXy DEF RouterCompute
<1>3. ASSUME NEW n \in Node, PeCommit(n) PROVE XyDiscipline'
  BY <1>3, QueuesUnchangedXy DEF PeCommit, CommitEject
<1>4. ASSUME NEW r \in Node, RouterCommit(r) PROVE XyDiscipline'
  BY <1>0, <1>4, CommitXy DEF RouterCommit
<1>5. CASE EndCompute
  BY <1>5, QueuesUnchangedXy DEF EndCompute, routerVars
<1>6. CASE EndCycle
  BY <1>6, QueuesUnchangedXy DEF EndCycle, routerVars
<1>7. CASE UNCHANGED nocVars
  BY <1>7, QueuesUnchangedXy DEF nocVars, routerVars
<1>8. QED
  BY <1>1, <1>2, <1>3, <1>4, <1>5, <1>6, <1>7 DEF Next

(* No flit in a column needs to leave it, and none is sent back where it came
   from, on any mesh and under any load. *)
THEOREM XyHolds == Spec => []XyDiscipline
<1>1. Init => XyDiscipline
  BY InitXy DEF Init
<1>2. QED
  BY <1>1, StepXy, TypeCorrect, PTL DEF Spec

LEMMA StepWaiters ==
  ASSUME TypeOK, [Next]_nocVars,
         NEW r \in Node, NEW o \in Dir, NEW p \in Dir,
         <<"router", r>> \in todo, phase = "compute", <<"router", r>> \notin todo',
         p \in Requests(r, o), o \in Granted(r), p # Winner(r, o)
  PROVE  Distance(r, o, p)' < Distance(r, o, p)
<1>1. RouterCompute(r)
  <2>1. ASSUME NEW n \in Node, PeCompute(n) \/ PeCommit(n) \/ RouterCommit(n) PROVE FALSE
    BY <2>1 DEF PeCompute, PeCommit, RouterCommit, Take
  <2>2. ~EndCompute /\ ~EndCycle /\ ~UNCHANGED nocVars
    BY DEF EndCompute, EndCycle, nocVars
  <2>3. ASSUME NEW n \in Node, RouterCompute(n) PROVE n = r
    BY <2>3 DEF RouterCompute, Take
  <2>4. QED
    BY <2>1, <2>2, <2>3 DEF Next
<1>2. QED
  BY <1>1, PassedOverIsCloser DEF RouterCompute, TypeOK

(* Whatever order the routers run in, each grant of an output to another port
   brings a waiting port strictly closer to the cursor: five requests at most
   are served before it. *)
THEOREM NobodyStarves == Spec => WaitersGetCloser
<1>1. TypeOK /\ [Next]_nocVars =>
        [\A r \in Node, o, p \in Dir :
           /\ <<"router", r>> \in todo /\ phase = "compute"
           /\ <<"router", r>> \notin todo'
           /\ p \in Requests(r, o) /\ o \in Granted(r) /\ p # Winner(r, o)
           => Distance(r, o, p)' < Distance(r, o, p)]_nocVars
  BY StepWaiters
<1>2. QED
  BY <1>1, TypeCorrect, PTL DEF Spec, WaitersGetCloser

-----------------------------------------------------------------------------
(* The sweeps: what has been done by whom at each point of a cycle. *)

Staged(n) ==
  \/ \E p \in Dir : nxt[n][p] # << >> \/ credInbox[n][p] # 0
  \/ peCreditReturn[n] # 0

(* A cycle starts with nothing staged at the routers, and each commit empties
   what the computes have staged.  A PE's ingress is drained by its compute,
   filled by its router's and made visible by its commit. *)
SweepInv ==
  /\ \A n \in Node : Len(eject[n]) <= 1 /\ Len(ejectNxt[n]) <= 1
  /\ phase = "compute" =>
       /\ todo = Tickable => \A n \in Node : ~Staged(n)
       /\ \A n \in Node : <<"router", n>> \in todo => ejectNxt[n] = << >>
       /\ \A n \in Node : <<"pe", n>> \notin todo => eject[n] = << >>
  /\ phase = "commit" =>
       /\ \A n \in Node : <<"router", n>> \notin todo => ~Staged(n)
       /\ \A n \in Node : <<"pe", n>> \in todo => eject[n] = << >>
       /\ \A n \in Node : <<"pe", n>> \notin todo => ejectNxt[n] = << >>

LEMMA TickableParts ==
  /\ \A n \in Node : <<"pe", n>> \in Tickable /\ <<"router", n>> \in Tickable
  /\ Tickable # {}
<1>1. [x |-> 0, y |-> 0] \in Node
  BY MeshAssumption DEF Node
<1>2. \A n \in Node : <<"pe", n>> \in Tickable /\ <<"router", n>> \in Tickable
  BY DEF Tickable
<1>3. QED
  BY <1>1, <1>2

LEMMA InitSweep == Init => SweepInv
<1> SUFFICES ASSUME Init PROVE SweepInv
  OBVIOUS
<1>1. \A n \in Node : ~Staged(n) /\ eject[n] = << >> /\ ejectNxt[n] = << >>
  BY DEF Init, RouterInit, Staged
<1>2. Len(<< >>) = 0
  BY EmptySeq
<1>3. QED
  BY <1>1, <1>2, TickableParts DEF Init, SweepInv

LEMMA StepSweep == TypeOK /\ SweepInv /\ [Next]_nocVars => SweepInv'
<1> SUFFICES ASSUME TypeOK, SweepInv, [Next]_nocVars PROVE SweepInv'
  OBVIOUS
<1>0. RouterTypeOK /\ todo \in SUBSET Tickable
  BY DEF TypeOK
<1>e. Len(<< >>) = 0
  BY EmptySeq
<1>1. ASSUME NEW n \in Node, PeCompute(n) PROVE SweepInv'
  <2>1. /\ phase = "compute" /\ phase' = "compute"
        /\ <<"pe", n>> \in todo /\ todo' = todo \ {<<"pe", n>>}
        /\ eject' = [eject EXCEPT ![n] = << >>] /\ ejectNxt' = ejectNxt
    BY <1>1 DEF PeCompute, Take, DrainAndInject, Drained
  <2>2. todo' # Tickable
    BY <2>1, TickableParts
  <2>3. \A m \in Node : eject'[m] = IF m = n THEN << >> ELSE eject[m]
    BY <1>0, <2>1 DEF RouterTypeOK
  <2>4. QED
    BY <1>e, <2>1, <2>2, <2>3 DEF SweepInv
<1>2. ASSUME NEW r \in Node, RouterCompute(r) PROVE SweepInv'
  <2>1. /\ phase = "compute" /\ phase' = "compute"
        /\ <<"router", r>> \in todo /\ todo' = todo \ {<<"router", r>>}
        /\ eject' = eject
        /\ ejectNxt' = [ejectNxt EXCEPT ![r] =
             IF Local \in Granted(r) THEN Append(ejectNxt[r], Sent(r, Local)) ELSE ejectNxt[r]]
    BY <1>2 DEF RouterCompute, Take, Compute
  <2>2. todo' # Tickable
    BY <2>1, TickableParts
  <2>3. Len(ejectNxt'[r]) <= 1
    <3>1. ejectNxt[r] = << >>
      BY <2>1 DEF SweepInv
    <3>2. Local \in Granted(r) => Len(Append(ejectNxt[r], Sent(r, Local))) = Len(ejectNxt[r]) + 1
      BY <1>0, SentIsFlit, AppendProperties DEF RouterTypeOK
    <3>3. ejectNxt'[r] = IF Local \in Granted(r)
                         THEN Append(ejectNxt[r], Sent(r, Local)) ELSE ejectNxt[r]
      BY <1>0, <2>1 DEF RouterTypeOK
    <3>4. QED
      BY <1>e, <3>1, <3>2, <3>3
  <2>4. \A m \in Node : m # r => ejectNxt'[m] = ejectNxt[m]
    BY <1>0, <2>1 DEF RouterTypeOK
  <2>5. QED
    BY <2>1, <2>2, <2>3, <2>4 DEF SweepInv
<1>3. ASSUME NEW n \in Node, PeCommit(n) PROVE SweepInv'
  <2>1. /\ phase = "commit" /\ phase' = "commit"
        /\ <<"pe", n>> \in todo /\ todo' = todo \ {<<"pe", n>>}
        /\ eject' = [eject EXCEPT ![n] = eject[n] \o ejectNxt[n]]
        /\ ejectNxt' = [ejectNxt EXCEPT ![n] = << >>]
        /\ UNCHANGED <<nxt, credInbox, peCreditReturn>>
    BY <1>3 DEF PeCommit, Take, CommitEject, Merge
  <2>2. eject[n] = << >> /\ ejectNxt[n] \in Seq(Flit)
    BY <1>0, <2>1 DEF SweepInv, RouterTypeOK
  <2>3. eject[n] \o ejectNxt[n] = ejectNxt[n]
    BY <2>2, ConcatEmptySeq
  <2>4. \A m \in Node : /\ eject'[m] = IF m = n THEN ejectNxt[n] ELSE eject[m]
                        /\ ejectNxt'[m] = IF m = n THEN << >> ELSE ejectNxt[m]
    BY <1>0, <2>1, <2>3 DEF RouterTypeOK
  <2>5. \A m \in Node : Staged(m)' <=> Staged(m)
    BY <2>1 DEF Staged
  <2>6. QED
    BY <1>e, <2>1, <2>4, <2>5 DEF SweepInv
<1>4. ASSUME NEW r \in Node, RouterCommit(r) PROVE SweepInv'
  <2>1. /\ phase = "commit" /\ phase' = "commit"
        /\ <<"router", r>> \in todo /\ todo' = todo \ {<<"router", r>>}
        /\ UNCHANGED <<eject, ejectNxt>>
    BY <1>4 DEF RouterCommit, Take, Commit
  <2>2. \A m \in Node, p \in Dir :
          /\ nxt'[m][p] = IF m = r THEN << >> ELSE nxt[m][p]
          /\ credInbox'[m][p] = IF m = r THEN 0 ELSE credInbox[m][p]
          /\ peCreditReturn'[m] = IF m = r THEN 0 ELSE peCreditReturn[m]
    BY <1>0, <1>4 DEF RouterCommit, Commit, RouterTypeOK
  <2>3. Local \in Dir
    BY DEF Dir, Local, South
  <2>4. \A m \in Node : Staged(m)' <=> m # r /\ Staged(m)
    BY <2>2, <2>3 DEF Staged
  <2>5. QED
    BY <2>1, <2>4 DEF SweepInv
<1>5. CASE EndCompute
  <2>1. \A m \in Node : Staged(m)' <=> Staged(m)
    BY <1>5 DEF EndCompute, routerVars, Staged
  <2>2. QED
    BY <1>5, <2>1, TickableParts DEF EndCompute, routerVars, SweepInv
<1>6. CASE EndCycle
  <2>1. \A m \in Node : Staged(m)' <=> Staged(m)
    BY <1>6 DEF EndCycle, routerVars, Staged
  <2>2. QED
    BY <1>6, <2>1, TickableParts DEF EndCycle, routerVars, SweepInv
<1>7. CASE UNCHANGED nocVars
  <2>1. \A m \in Node : Staged(m)' <=> Staged(m)
    BY <1>7 DEF nocVars, routerVars, Staged
  <2>2. QED
    BY <1>7, <2>1 DEF nocVars, routerVars, SweepInv
<1>8. QED
  BY <1>1, <1>2, <1>3, <1>4, <1>5, <1>6, <1>7 DEF Next

LEMMA SweepsHold == Spec => []SweepInv
BY InitSweep, StepSweep, TypeCorrect, PTL DEF Spec

(* The ingress of a PE never holds more than the flit of one cycle, so its 32
   slots are never at stake, whatever the order of the PE and its router. *)
THEOREM EjectBounded == Spec => []EjectAtMostOne
<1>1. TypeOK /\ SweepInv => EjectAtMostOne
  <2> SUFFICES ASSUME TypeOK, SweepInv, NEW n \in Node
               PROVE  /\ Len(eject[n]) + Len(ejectNxt[n]) <=
                           IF phase = "compute" /\ <<"pe", n>> \in todo
                              /\ <<"router", n>> \notin todo THEN 2 ELSE 1
                      /\ phase = "commit" => eject[n] = << >> \/ ejectNxt[n] = << >>
    BY DEF EjectAtMostOne
  <2> DEFINE seen == Len(eject[n])
             staged == Len(ejectNxt[n])
  <2>1. seen \in Nat /\ staged \in Nat /\ seen <= 1 /\ staged <= 1
    BY LenProperties DEF TypeOK, RouterTypeOK, SweepInv
  <2>2. (eject[n] = << >> => seen = 0) /\ (ejectNxt[n] = << >> => staged = 0)
    BY EmptySeq
  <2>3. /\ phase = "compute" /\ <<"router", n>> \in todo => ejectNxt[n] = << >>
        /\ phase = "compute" /\ <<"pe", n>> \notin todo => eject[n] = << >>
        /\ phase = "commit" => eject[n] = << >> \/ ejectNxt[n] = << >>
        /\ phase \in {"compute", "commit"}
    BY DEF SweepInv, TypeOK
  <2> HIDE DEF seen, staged
  <2>4. seen + staged <= IF phase = "compute" /\ <<"pe", n>> \in todo
                            /\ <<"router", n>> \notin todo THEN 2 ELSE 1
    BY <2>1, <2>2, <2>3
  <2>5. QED
    BY <2>3, <2>4 DEF seen, staged
<1>2. QED
  BY <1>1, SweepsHold, TypeCorrect, PTL

(* XY routing is deadlock free on every mesh, with any number of credits and
   under any load: whenever a cycle starts with a flit in the mesh, a router
   can move one. *)
THEOREM DeadlockFree == Spec => []SomeFlitCanMove
<1>1. TypeOK /\ CreditInv /\ XyDiscipline /\ SweepInv => SomeFlitCanMove
  BY NoCircularWait DEF TypeOK, SweepInv, Staged, SomeFlitCanMove
<1>2. QED
  BY <1>1, SweepsHold, CreditsHold, XyHolds, TypeCorrect, PTL

-----------------------------------------------------------------------------
(* The flow of the flits.  A queue and what is staged behind it are one line;
   behind the Local input stands the backlog of the PE.  Seen this way only
   a router's compute moves anything: commits and injections merely shift
   the border between the parts of a line. *)
Line(n, p) ==
  IF p = Local THEN (cur[n][p] \o nxt[n][p]) \o pending[n] ELSE cur[n][p] \o nxt[n][p]

LEMMA LineIsSeq ==
  ASSUME TypeOK, NEW n \in Node, NEW p \in Dir
  PROVE  Line(n, p) \in Seq(Flit)
<1>1. cur[n][p] \in Seq(Flit) /\ nxt[n][p] \in Seq(Flit) /\ pending[n] \in Seq(Flit)
  BY DEF TypeOK, RouterTypeOK
<1>2. cur[n][p] \o nxt[n][p] \in Seq(Flit)
  BY <1>1, ConcatProperties
<1>3. QED
  BY <1>1, <1>2, ConcatProperties DEF Line

(* Injecting moves the head of the backlog to the end of what is staged. *)
LEMMA PeComputeKeepsLines ==
  ASSUME TypeOK, NEW n \in Node, PeCompute(n), NEW m \in Node, NEW p \in Dir
  PROVE  Line(m, p)' = Line(m, p)
<1> DEFINE k == IF injectCredit[n] < Len(pending[n])
                THEN injectCredit[n] ELSE Len(pending[n])
           sent == SubSeq(pending[n], 1, k)
           kept == SubSeq(pending[n], k + 1, Len(pending[n]))
<1>1. /\ cur' = cur
      /\ nxt' = [nxt EXCEPT ![n][Local] = nxt[n][Local] \o sent]
      /\ pending' = [pending EXCEPT ![n] = kept]
  BY DEF PeCompute, DrainAndInject
<1>2. /\ cur[m][p] \in Seq(Flit) /\ nxt[m][p] \in Seq(Flit) /\ pending[n] \in Seq(Flit)
      /\ sent \in Seq(Flit) /\ kept \in Seq(Flit)
  BY BatchIsSeq DEF TypeOK, RouterTypeOK
<1>3. sent \o kept = pending[n]
  <2>1. Len(pending[n]) \in Nat /\ injectCredit[n] \in Nat
    BY <1>2, LenProperties DEF TypeOK, RouterTypeOK
  <2>2. k \in 0 .. Len(pending[n]) /\ 1 \in 1 .. Len(pending[n]) + 1
    BY <2>1
  <2> HIDE DEF k
  <2>3. k \in 1 - 1 .. Len(pending[n]) /\ Len(pending[n]) \in k .. Len(pending[n])
    BY <2>1, <2>2
  <2>4. sent \o kept = SubSeq(pending[n], 1, Len(pending[n]))
    BY <1>2, <2>2, <2>3, ConcatAdjacentSubSeq
  <2>5. QED
    BY <1>2, <2>4, SubSeqFull
<1>4. CASE m = n /\ p = Local
  <2> HIDE DEF sent, kept
  <2>1. nxt'[m][p] = nxt[m][p] \o sent /\ pending'[m] = kept
    BY <1>1, <1>4 DEF TypeOK, RouterTypeOK
  <2>2. (cur[m][p] \o (nxt[m][p] \o sent)) \o kept = (cur[m][p] \o nxt[m][p]) \o (sent \o kept)
    <3> DEFINE s == cur[m][p]
               t == nxt[m][p]
    <3>1. s \in Seq(Flit) /\ t \in Seq(Flit) /\ sent \in Seq(Flit) /\ kept \in Seq(Flit)
      BY <1>2
    <3> HIDE DEF s, t
    <3>2. s \o t \in Seq(Flit)
      BY <3>1, ConcatProperties
    <3>3. (s \o (t \o sent)) \o kept = (s \o t) \o (sent \o kept)
      <4>1. s \o (t \o sent) = (s \o t) \o sent
        BY <3>1, ConcatAssociative
      <4>2. ((s \o t) \o sent) \o kept = (s \o t) \o (sent \o kept)
        BY <3>1, <3>2, ConcatAssociative
      <4>3. QED
        BY <4>1, <4>2
    <3>4. QED
      BY <3>3 DEF s, t
  <2>3. QED
    BY <1>1, <1>3, <1>4, <2>1, <2>2 DEF Line
<1>5. CASE ~(m = n /\ p = Local)
  <2>1. nxt'[m][p] = nxt[m][p] /\ (p = Local => pending'[m] = pending[m])
    BY <1>1, <1>5 DEF TypeOK, RouterTypeOK
  <2>2. QED
    BY <1>1, <2>1 DEF Line
<1>6. QED
  BY <1>4, <1>5

LEMMA RouterCommitKeepsLines ==
  ASSUME TypeOK, NEW r \in Node, RouterCommit(r), NEW m \in Node, NEW p \in Dir
  PROVE  Line(m, p)' = Line(m, p)
<1>1. /\ cur'[m][p] = IF m = r THEN cur[m][p] \o nxt[m][p] ELSE cur[m][p]
      /\ nxt'[m][p] = IF m = r THEN << >> ELSE nxt[m][p]
      /\ pending' = pending
  BY DEF RouterCommit, Commit, Merge, TypeOK, RouterTypeOK
<1>2. cur[m][p] \o nxt[m][p] \in Seq(Flit)
  BY ConcatProperties DEF TypeOK, RouterTypeOK
<1>3. (cur[m][p] \o nxt[m][p]) \o << >> = cur[m][p] \o nxt[m][p]
  BY <1>2, ConcatEmptySeq
<1>4. QED
  BY <1>1, <1>3 DEF Line

(* A router's compute: the head of each winner's line leaves it, and each
   neighbour's line grows by what is sent to it. *)
LEMMA ComputeMovesLines ==
  ASSUME TypeOK, NEW r \in Node, RouterCompute(r), NEW n \in Node, NEW p \in Dir
  PROVE  Line(n, p)' =
           IF n = r /\ p \in Popped(r) THEN Tail(Line(n, p))
           ELSE IF Faces(n, p, r) /\ opposite(p) \in Granted(r)
           THEN Append(Line(n, p), Sent(r, opposite(p)))
           ELSE Line(n, p)
<1>1. /\ cur[n][p] \in Seq(Flit) /\ nxt[n][p] \in Seq(Flit) /\ pending[n] \in Seq(Flit)
      /\ cur[n][p] \o nxt[n][p] \in Seq(Flit) /\ RouterTypeOK /\ pending' = pending
  BY ConcatProperties DEF TypeOK, RouterTypeOK, RouterCompute
<1>2. /\ cur'[n][p] = IF n = r /\ p \in Popped(r) THEN Tail(cur[n][p]) ELSE cur[n][p]
      /\ nxt'[n][p] = IF Faces(n, p, r) /\ opposite(p) \in Granted(r)
                      THEN Append(nxt[n][p], Sent(r, opposite(p))) ELSE nxt[n][p]
  BY <1>1 DEF RouterCompute, Compute, RouterTypeOK
<1>3. Faces(n, p, r) => n # r /\ p # Local
  BY StepBack DEF Faces, Cardinal, Local, East, South
<1>4. CASE n = r /\ p \in Popped(r)
  <2>1. cur[n][p] # << >>
    BY <1>1, <1>4, PoppedHasFlit
  <2>2. Tail(cur[n][p]) \o nxt[n][p] = Tail(cur[n][p] \o nxt[n][p])
    BY <1>1, <2>1, TailOfConcat
  <2>3. cur[n][p] \o nxt[n][p] # << >>
    BY <1>1, <2>1, ConcatEqualIffEmpty
  <2>4. Tail(cur[n][p] \o nxt[n][p]) \o pending[n] = Tail((cur[n][p] \o nxt[n][p]) \o pending[n])
    BY <1>1, <2>3, TailOfConcat
  <2>5. QED
    BY <1>1, <1>2, <1>3, <1>4, <2>2, <2>4 DEF Line
<1>5. CASE Faces(n, p, r) /\ opposite(p) \in Granted(r)
  <2>1. Sent(r, opposite(p)) \in Flit
    BY <1>1, <1>5, SentIsFlit
  <2>2. cur[n][p] \o Append(nxt[n][p], Sent(r, opposite(p))) =
          Append(cur[n][p] \o nxt[n][p], Sent(r, opposite(p)))
    <3> DEFINE s == cur[n][p]
               t == nxt[n][p]
               e == Sent(r, opposite(p))
    <3>1. s \in Seq(Flit) /\ t \in Seq(Flit) /\ e \in Flit
      BY <1>1, <2>1
    <3> HIDE DEF s, t, e
    <3>2. s \o Append(t, e) = Append(s \o t, e)
      BY <3>1, AppendToConcat
    <3>3. QED
      BY <3>2 DEF s, t, e
  <2>3. QED
    BY <1>2, <1>3, <1>5, <2>2 DEF Line
<1>6. CASE ~(n = r /\ p \in Popped(r)) /\ ~(Faces(n, p, r) /\ opposite(p) \in Granted(r))
  BY <1>1, <1>2, <1>6 DEF Line
<1>7. QED
  BY <1>3, <1>4, <1>5, <1>6

(* Where XY routing takes a flit: first along the row of its source, then down
   or up the column of its destination. *)
Travels(f, n, p) ==
  /\ f.src \in Node /\ f.dst \in Node /\ f.id \in Nat
  /\ \/ p = Local /\ n = f.src
     \/ p = West  /\ n.y = f.src.y /\ f.src.x < n.x /\ n.x <= f.dst.x
     \/ p = East  /\ n.y = f.src.y /\ f.dst.x <= n.x /\ n.x < f.src.x
     \/ p = North /\ n.x = f.dst.x /\ f.src.y < n.y /\ n.y <= f.dst.y
     \/ p = South /\ n.x = f.dst.x /\ f.dst.y <= n.y /\ n.y < f.src.y

Hops(n, m) ==
  (IF n.x < m.x THEN m.x - n.x ELSE n.x - m.x)
    + (IF n.y < m.y THEN m.y - n.y ELSE n.y - m.y)

SamePair(f, g) == f.src = g.src /\ f.dst = g.dst

(* Every waiting flit stands on its route. *)
OnRoute ==
  \A n \in Node, p \in Dir : \A i \in 1 .. Len(Line(n, p)) : Travels(Line(n, p)[i], n, p)

(* Of two flits of one pair the older is closer to the destination, or ahead in
   the same line; so no two flits of a pair have the same number. *)
LinesInOrder ==
  \A n, m \in Node, p, q \in Dir :
    \A i \in 1 .. Len(Line(n, p)), j \in 1 .. Len(Line(m, q)) :
      LET f == Line(n, p)[i]
          g == Line(m, q)[j]
      IN  SamePair(f, g) /\ f.id <= g.id =>
            \/ Hops(n, f.dst) < Hops(m, f.dst)
            \/ n = m /\ p = q /\ i <= j

(* What was delivered was delivered at its destination and in order, *)
GotInOrder ==
  \A n \in Node :
    /\ \A i \in 1 .. Len(got[n]) : got[n][i].dst = n /\ got[n][i].id \in Nat
    /\ \A i, j \in 1 .. Len(got[n]) :
         i < j /\ got[n][i].src = got[n][j].src => got[n][i].id < got[n][j].id

(* and before whatever of its pair is still under way. *)
GotAhead ==
  \A n, m \in Node, q \in Dir :
    \A i \in 1 .. Len(got[n]), j \in 1 .. Len(Line(m, q)) :
      SamePair(got[n][i], Line(m, q)[j]) => got[n][i].id < Line(m, q)[j].id

Somewhere(f) ==
  \/ \E n \in Node, p \in Dir : \E i \in 1 .. Len(Line(n, p)) : Line(n, p)[i] = f
  \/ \E n \in Node : \E i \in 1 .. Len(got[n]) : got[n][i] = f

NothingLost ==
  \A s \in Node : \A k \in 1 .. Len(load[s]) : Somewhere(load[s][k])

FlowInv ==
  /\ load \in [Node -> Seq(Flit)] /\ got \in [Node -> Seq(Flit)]
  /\ \A s \in Node : \A k \in 1 .. Len(load[s]) : load[s][k].src = s
  /\ OnRoute /\ LinesInOrder /\ GotInOrder /\ GotAhead /\ NothingLost

(* The next hop of a flit is on its route and one hop closer. *)
LEMMA HopTravels ==
  ASSUME NEW n \in Node, NEW p \in Dir, NEW f, Travels(f, n, p),
         NEW o \in Cardinal, route_xy(n, f.dst) = o
  PROVE  /\ Travels(f, step(n, o), opposite(o))
         /\ Hops(n, f.dst) = Hops(step(n, o), f.dst) + 1
<1>1. /\ n.x \in 0 .. W - 1 /\ n.y \in 0 .. H - 1
      /\ f.dst.x \in 0 .. W - 1 /\ f.dst.y \in 0 .. H - 1
      /\ f.src.x \in 0 .. W - 1 /\ f.src.y \in 0 .. H - 1
  BY DEF Node, Travels
<1>2. W \in Nat /\ H \in Nat
  BY MeshAssumption
<1>3. p = Local => n.x = f.src.x /\ n.y = f.src.y
  BY DEF Travels, Local, East, West, North, South
<1>4. o \in {East, West, North, South}
  BY DEF Cardinal, East, West, North, South
<1>5. QED
  BY <1>1, <1>2, <1>3, <1>4
     DEF Travels, Hops, route_xy, step, opposite, Local, East, West, North, South

LEMMA HopsAreNat ==
  ASSUME NEW n \in Node, NEW m \in Node
  PROVE  Hops(n, m) \in Nat /\ (n = m => Hops(n, m) = 0)
BY MeshAssumption DEF Node, Hops

(* The hops still to go tell where on its route a flit is. *)
LEMMA RouteIsUnique ==
  ASSUME NEW n \in Node, NEW p \in Dir, NEW f, Travels(f, n, p),
         NEW m \in Node, NEW q \in Dir, NEW g, Travels(g, m, q),
         SamePair(f, g), Hops(n, f.dst) = Hops(m, f.dst)
  PROVE  n = m /\ p = q
<1>1. /\ n.x \in 0 .. W - 1 /\ n.y \in 0 .. H - 1
      /\ m.x \in 0 .. W - 1 /\ m.y \in 0 .. H - 1
      /\ f.dst.x \in 0 .. W - 1 /\ f.dst.y \in 0 .. H - 1
      /\ f.src.x \in 0 .. W - 1 /\ f.src.y \in 0 .. H - 1
  BY DEF Node, Travels
<1>2. W \in Nat /\ H \in Nat
  BY MeshAssumption
<1>3. /\ p = Local => n.x = f.src.x /\ n.y = f.src.y
      /\ q = Local => m.x = f.src.x /\ m.y = f.src.y
  BY DEF Travels, SamePair, Local, East, West, North, South
<1>4. n.x = m.x /\ n.y = m.y /\ p = q
  BY <1>1, <1>2, <1>3
     DEF Travels, SamePair, Hops, Local, East, West, North, South
<1>5. n = m
  BY <1>4 DEF Node
<1>6. QED
  BY <1>4, <1>5

LEMMA UnmovedFlow ==
  ASSUME FlowInv, UNCHANGED <<got, load>>,
         \A n \in Node, p \in Dir : Line(n, p)' = Line(n, p)
  PROVE  FlowInv'
<1>1. OnRoute'
  BY DEF FlowInv, OnRoute
<1>2. LinesInOrder'
  <2>1. LinesInOrder
    BY DEF FlowInv
  <2>2. QED
    BY <2>1 DEF LinesInOrder, SamePair, Hops
<1>3. GotInOrder'
  BY DEF FlowInv, GotInOrder
<1>4. GotAhead'
  BY DEF FlowInv, GotAhead
<1>5. NothingLost'
  <2>1. \A f : Somewhere(f) => Somewhere(f)'
    BY DEF Somewhere
  <2>2. QED
    BY <2>1 DEF FlowInv, NothingLost
<1>6. QED
  BY <1>1, <1>2, <1>3, <1>4, <1>5 DEF FlowInv

(* What an output sends stands at the head of its winner's line. *)
LEMMA SentLeadsLine ==
  ASSUME TypeOK, OnRoute, NEW r \in Node, NEW o \in Granted(r)
  PROVE  /\ o \in Dir /\ Winner(r, o) \in Dir
         /\ 1 \in 1 .. Len(Line(r, Winner(r, o)))
         /\ Line(r, Winner(r, o))[1] = Sent(r, o)
         /\ Travels(Sent(r, o), r, Winner(r, o))
         /\ route_xy(r, Sent(r, o).dst) = o
<1> DEFINE w == Winner(r, o)
           s == cur[r][w]
           t == nxt[r][w]
           u == pending[r]
<1>1. o \in Dir /\ w \in Dir /\ s # << >> /\ route_xy(r, Head(s).dst) = o
  <2>1. o \in Dir /\ w \in Requests(r, o)
    BY WinnerAsked DEF Granted, TypeOK
  <2>2. QED
    BY <2>1 DEF Requests
<1>2. s \in Seq(Flit) /\ t \in Seq(Flit) /\ u \in Seq(Flit)
  BY <1>1 DEF TypeOK, RouterTypeOK
<1>3. Len(s) >= 1 /\ Len(s) \in Nat /\ Len(t) \in Nat /\ Len(u) \in Nat /\ Head(s) = s[1]
  <2> HIDE DEF s, t, u
  <2>1. QED
    BY <1>1, <1>2, EmptySeq, LenProperties
<1>4. /\ s \o t \in Seq(Flit) /\ Len(s \o t) >= 1 /\ Len(s \o t) \in Nat
      /\ (s \o t)[1] = s[1]
  <2> HIDE DEF s, t, u
  <2>1. QED
    BY <1>2, <1>3, ConcatProperties
<1>5. Len((s \o t) \o u) >= 1 /\ Len((s \o t) \o u) \in Nat /\ ((s \o t) \o u)[1] = s[1]
  <2> DEFINE v == s \o t
  <2>1. v \in Seq(Flit) /\ Len(v) >= 1 /\ Len(v) \in Nat /\ v[1] = s[1]
    BY <1>4
  <2>2. Len(v \o u) >= 1 /\ Len(v \o u) \in Nat /\ (v \o u)[1] = v[1]
    <3> HIDE DEF s, t, u, v
    <3>1. QED
      BY <1>2, <1>3, <2>1, ConcatProperties
  <2>3. QED
    BY <2>1, <2>2
<1>6. Line(r, w)[1] = Head(s) /\ 1 \in 1 .. Len(Line(r, w))
  <2> DEFINE l == Line(r, w)
  <2>1. l = (s \o t) \o u \/ l = s \o t
    BY DEF Line
  <2>2. Len(l) \in Nat /\ Len(l) >= 1 /\ l[1] = s[1]
    <3> HIDE DEF l, s, t, u
    <3>1. QED
      BY <1>4, <1>5, <2>1
  <2>3. QED
    BY <1>3, <2>2
<1>7. QED
  BY <1>1, <1>6 DEF OnRoute, Sent

(* Where the flit at place i of a line stood before a router's compute: in the
   same line, one place further back if its head has left, or at the head of
   a line of r. *)
Stayed(r, n, p, i) ==
  LET k == IF n = r /\ p \in Popped(r) THEN i + 1 ELSE i
  IN  k \in 1 .. Len(Line(n, p)) /\ Line(n, p)'[i] = Line(n, p)[k]

Arrived(r, n, p, i) ==
  /\ Faces(n, p, r) /\ opposite(p) \in Granted(r)
  /\ i = Len(Line(n, p)) + 1
  /\ Line(n, p)'[i] = Sent(r, opposite(p))

LEMMA Origin ==
  ASSUME TypeOK, NEW r \in Node, RouterCompute(r),
         NEW n \in Node, NEW p \in Dir, NEW i \in 1 .. Len(Line(n, p)')
  PROVE  Stayed(r, n, p, i) \/ Arrived(r, n, p, i)
<1> DEFINE s == Line(n, p)
           s1 == Line(n, p)'
<1>1. s \in Seq(Flit) /\ Len(s) \in Nat
  BY LineIsSeq, LenProperties
<1>2. CASE n = r /\ p \in Popped(r)
  <2>1. s # << >>
    <3>1. cur[n][p] # << >> /\ cur[n][p] \in Seq(Flit) /\ nxt[n][p] \in Seq(Flit) /\ pending[n] \in Seq(Flit)
      BY <1>2, PoppedHasFlit DEF TypeOK, RouterTypeOK
    <3>2. cur[n][p] \o nxt[n][p] # << >> /\ cur[n][p] \o nxt[n][p] \in Seq(Flit)
      BY <3>1, ConcatEqualIffEmpty, ConcatProperties
    <3>3. QED
      BY <3>1, <3>2, ConcatEqualIffEmpty DEF Line
  <2>2. s1 = Tail(s)
    BY <1>2, ComputeMovesLines
  <2>3. Len(s1) = Len(s) - 1 /\ \A j \in 1 .. Len(s1) : s1[j] = s[j + 1]
    <3> HIDE DEF s, s1
    <3>1. QED
      BY <1>1, <2>1, <2>2, HeadTailProperties
  <2>4. i + 1 \in 1 .. Len(s) /\ s1[i] = s[i + 1]
    BY <1>1, <2>3
  <2>5. QED
    BY <1>2, <2>4 DEF Stayed
<1>3. CASE ~(n = r /\ p \in Popped(r)) /\ Faces(n, p, r) /\ opposite(p) \in Granted(r)
  <2> DEFINE e == Sent(r, opposite(p))
  <2>1. s1 = Append(s, e)
    BY <1>3, ComputeMovesLines
  <2>2. e \in Flit
    BY <1>3, SentIsFlit DEF TypeOK
  <2>3. /\ Len(s1) = Len(s) + 1 /\ s1[Len(s) + 1] = e
        /\ \A j \in 1 .. Len(s) : s1[j] = s[j]
    <3> HIDE DEF s, s1, e
    <3>1. QED
      BY <1>1, <2>1, <2>2, AppendProperties
  <2>4. CASE i = Len(s) + 1
    BY <1>3, <2>3, <2>4 DEF Arrived
  <2>5. CASE i # Len(s) + 1
    <3>1. i \in 1 .. Len(s)
      BY <1>1, <2>3, <2>5
    <3>2. QED
      BY <1>3, <2>3, <3>1 DEF Stayed
  <2>6. QED
    BY <2>4, <2>5
<1>4. CASE /\ ~(n = r /\ p \in Popped(r))
           /\ ~(Faces(n, p, r) /\ opposite(p) \in Granted(r))
  <2>1. s1 = s
    BY <1>4, ComputeMovesLines
  <2>2. QED
    BY <1>4, <2>1 DEF Stayed
<1>5. QED
  BY <1>2, <1>3, <1>4

LEMMA ArrivedFrom ==
  ASSUME TypeOK, OnRoute, NEW r \in Node, NEW n \in Node, NEW p \in Dir, NEW i,
         Arrived(r, n, p, i)
  PROVE  LET o == opposite(p)
             w == Winner(r, o)
             f == Line(n, p)'[i]
         IN  /\ o \in Cardinal /\ n = step(r, o) /\ p = opposite(o) /\ n # r
             /\ w \in Dir /\ w \in Popped(r)
             /\ 1 \in 1 .. Len(Line(r, w)) /\ f = Line(r, w)[1]
             /\ Travels(f, r, w) /\ Travels(f, n, p)
             /\ route_xy(r, f.dst) = o
             /\ Hops(r, f.dst) = Hops(n, f.dst) + 1
<1> DEFINE o == opposite(p)
           w == Winner(r, o)
           f == Line(n, p)'[i]
<1>1. o \in Granted(r) /\ f = Sent(r, o) /\ Faces(n, p, r)
  BY DEF Arrived
<1>2. /\ o \in Cardinal /\ n = step(r, o) /\ p = opposite(o) /\ n # r
  BY <1>1, StepBack DEF Faces
<1>3. /\ w \in Dir /\ 1 \in 1 .. Len(Line(r, w)) /\ f = Line(r, w)[1]
      /\ Travels(f, r, w) /\ route_xy(r, f.dst) = o
  BY <1>1, SentLeadsLine
<1>4. w \in Popped(r)
  BY <1>1 DEF Popped
<1>5. Travels(f, step(r, o), opposite(o)) /\ Hops(r, f.dst) = Hops(step(r, o), f.dst) + 1
  <2> HIDE DEF f, o, w
  <2>1. QED
    BY <1>2, <1>3, HopTravels
<1>6. QED
  BY <1>2, <1>3, <1>4, <1>5

LEMMA ComputeOnRoute ==
  ASSUME TypeOK, OnRoute, NEW r \in Node, RouterCompute(r)
  PROVE  OnRoute'
<1> SUFFICES ASSUME NEW n \in Node, NEW p \in Dir, NEW i \in 1 .. Len(Line(n, p)')
             PROVE  Travels(Line(n, p)'[i], n, p)
  BY DEF OnRoute, Travels
<1>1. CASE Stayed(r, n, p, i)
  BY <1>1 DEF Stayed, OnRoute
<1>2. CASE Arrived(r, n, p, i)
  BY <1>2, ArrivedFrom
<1>3. QED
  BY <1>1, <1>2, Origin

(* A flit moves one hop at a time and only from the head of a line: it cannot
   pass an older one of its pair, which is closer or ahead of it. *)
LEMMA ComputeLinesInOrder ==
  ASSUME TypeOK, OnRoute, LinesInOrder, NEW r \in Node, RouterCompute(r)
  PROVE  LinesInOrder'
<1> SUFFICES ASSUME NEW n \in Node, NEW m \in Node, NEW p \in Dir, NEW q \in Dir,
                    NEW i \in 1 .. Len(Line(n, p)'), NEW j \in 1 .. Len(Line(m, q)'),
                    SamePair(Line(n, p)'[i], Line(m, q)'[j]),
                    Line(n, p)'[i].id <= Line(m, q)'[j].id
             PROVE  \/ Hops(n, Line(n, p)'[i].dst) < Hops(m, Line(n, p)'[i].dst)
                    \/ n = m /\ p = q /\ i <= j
  BY DEF LinesInOrder, SamePair, Hops
<1> DEFINE f == Line(n, p)'[i]
           g == Line(m, q)'[j]
           v == Winner(r, opposite(p))
           w == Winner(r, opposite(q))
           k == IF n = r /\ p \in Popped(r) THEN i + 1 ELSE i
           l == IF m = r /\ q \in Popped(r) THEN j + 1 ELSE j
<1>1. /\ Stayed(r, n, p, i) \/ Arrived(r, n, p, i)
      /\ Stayed(r, m, q, j) \/ Arrived(r, m, q, j)
  BY Origin
<1>2. /\ Travels(f, n, p) /\ Travels(g, m, q)
      /\ Hops(n, f.dst) \in Nat /\ Hops(m, f.dst) \in Nat /\ Hops(r, f.dst) \in Nat
  <2>1. Travels(f, n, p) /\ Travels(g, m, q)
    BY ComputeOnRoute DEF OnRoute, Travels
  <2>2. QED
    BY <2>1, HopsAreNat DEF Travels
<1>3. \A a, b \in Node, c, d \in Dir :
        \A x \in 1 .. Len(Line(a, c)), y \in 1 .. Len(Line(b, d)) :
          Line(a, c)[x] = f /\ Line(b, d)[y] = g =>
            \/ Hops(a, f.dst) < Hops(b, f.dst)
            \/ a = b /\ c = d /\ x <= y
  BY DEF LinesInOrder
<1>4. Len(Line(n, p)) \in Nat /\ Len(Line(m, q)) \in Nat
  BY LineIsSeq, LenProperties
<1>5. i \in Nat /\ j \in Nat /\ i >= 1 /\ j >= 1
  <2>1. i \in Int /\ j \in Int /\ i >= 1 /\ j >= 1
    OBVIOUS
  <2>2. QED
    BY <2>1
<1>6. CASE Stayed(r, n, p, i) /\ Stayed(r, m, q, j)
  <2>1. /\ k \in 1 .. Len(Line(n, p)) /\ Line(n, p)[k] = f
        /\ l \in 1 .. Len(Line(m, q)) /\ Line(m, q)[l] = g
    BY <1>6 DEF Stayed
  <2>2. Hops(n, f.dst) < Hops(m, f.dst) \/ (n = m /\ p = q /\ k <= l)
    <3> HIDE DEF f, g, k, l
    <3>1. QED
      BY <1>3, <2>1
  <2>3. n = m /\ p = q /\ k <= l => i <= j
    BY <1>5
  <2>4. QED
    BY <2>2, <2>3
<1>7. CASE Arrived(r, n, p, i) /\ Stayed(r, m, q, j)
  <2>1. /\ l \in 1 .. Len(Line(m, q)) /\ Line(m, q)[l] = g
    BY <1>7 DEF Stayed
  <2>2. /\ v \in Dir /\ 1 \in 1 .. Len(Line(r, v)) /\ Line(r, v)[1] = f
        /\ Hops(r, f.dst) = Hops(n, f.dst) + 1
    BY <1>7, ArrivedFrom
  <2>3. Hops(r, f.dst) < Hops(m, f.dst) \/ (r = m /\ v = q /\ 1 <= l)
    <3> HIDE DEF f, g, l, v
    <3>1. QED
      BY <1>3, <2>1, <2>2
  <2>4. Hops(n, f.dst) < Hops(m, f.dst)
    <3> HIDE DEF f, g, l, v
    <3>1. QED
      BY <1>2, <2>2, <2>3
  <2>5. QED
    BY <2>4
<1>8. CASE Stayed(r, n, p, i) /\ Arrived(r, m, q, j)
  <2>1. /\ k \in 1 .. Len(Line(n, p)) /\ Line(n, p)[k] = f
    BY <1>8 DEF Stayed
  <2>2. /\ w \in Dir /\ w \in Popped(r) /\ 1 \in 1 .. Len(Line(r, w)) /\ Line(r, w)[1] = g
        /\ Hops(r, g.dst) = Hops(m, g.dst) + 1
        /\ m # r
    BY <1>8, ArrivedFrom
  <2>3. Hops(n, f.dst) < Hops(r, f.dst) \/ (n = r /\ p = w /\ k <= 1)
    <3> HIDE DEF f, g, k, w
    <3>1. QED
      BY <1>3, <2>1, <2>2
  <2>4. ~(n = r /\ p = w /\ k <= 1)
    BY <1>5, <2>2
  <2>5. Hops(r, f.dst) = Hops(m, f.dst) + 1
    BY <2>2 DEF SamePair
  <2>6. Hops(n, f.dst) < Hops(m, f.dst) \/ Hops(n, f.dst) = Hops(m, f.dst)
    <3> HIDE DEF f, g, k, w
    <3>1. QED
      BY <1>2, <2>3, <2>4, <2>5
  <2>7. Hops(n, f.dst) = Hops(m, f.dst) => n = m /\ p = q
    <3>1. SamePair(f, g)
      OBVIOUS
    <3> HIDE DEF f, g
    <3>2. QED
      BY <1>2, <3>1, RouteIsUnique
  <2>8. n = m /\ p = q => i <= j
    <3>1. j = Len(Line(m, q)) + 1
      BY <1>8 DEF Arrived
    <3>2. QED
      BY <1>4, <1>5, <2>1, <2>2, <3>1
  <2>9. QED
    BY <2>6, <2>7, <2>8
<1>9. CASE Arrived(r, n, p, i) /\ Arrived(r, m, q, j)
  <2>1. /\ n = step(r, opposite(p)) /\ p = opposite(opposite(p))
        /\ m = step(r, opposite(q)) /\ q = opposite(opposite(q))
        /\ route_xy(r, f.dst) = opposite(p) /\ route_xy(r, g.dst) = opposite(q)
    BY <1>9, ArrivedFrom
  <2>2. opposite(p) = opposite(q)
    BY <2>1 DEF SamePair
  <2>3. n = m /\ p = q
    BY <2>1, <2>2
  <2>4. i = j
    BY <1>9, <2>3 DEF Arrived
  <2>5. QED
    BY <1>5, <2>3, <2>4
<1>10. QED
  BY <1>1, <1>6, <1>7, <1>8, <1>9

(* What a router's compute does to the history of deliveries. *)
LEMMA GotGrows ==
  ASSUME TypeOK, OnRoute, got \in [Node -> Seq(Flit)],
         NEW r \in Node, RouterCompute(r)
  PROVE  /\ got' \in [Node -> Seq(Flit)]
         /\ \A n \in Node : n # r \/ Local \notin Granted(r) => got'[n] = got[n]
         /\ Local \in Granted(r) =>
              LET e == Sent(r, Local)
              IN  /\ e.dst = r /\ e.id \in Nat
                  /\ Len(got'[r]) = Len(got[r]) + 1
                  /\ got'[r][Len(got[r]) + 1] = e
                  /\ \A i \in 1 .. Len(got[r]) : got'[r][i] = got[r][i]
<1>1. got' = IF Local \in Granted(r)
             THEN [got EXCEPT ![r] = Append(got[r], Sent(r, Local))] ELSE got
  BY DEF RouterCompute
<1>2. ASSUME Local \in Granted(r)
      PROVE  /\ Sent(r, Local) \in Flit /\ Sent(r, Local).dst = r
             /\ Sent(r, Local).id \in Nat
  <2>1. /\ Sent(r, Local) \in Flit /\ Travels(Sent(r, Local), r, Winner(r, Local))
        /\ route_xy(r, Sent(r, Local).dst) = Local
    BY <1>2, SentIsFlit, SentLeadsLine DEF TypeOK
  <2>2. QED
    BY <2>1, RouteOnMesh, FlitAssumption DEF Travels
<1>3. CASE Local \in Granted(r)
  <2> DEFINE s == got[r]
             e == Sent(r, Local)
  <2>1. s \in Seq(Flit) /\ e \in Flit
    BY <1>2, <1>3
  <2>2. /\ Append(s, e) \in Seq(Flit)
        /\ Len(Append(s, e)) = Len(s) + 1 /\ Append(s, e)[Len(s) + 1] = e
        /\ \A i \in 1 .. Len(s) : Append(s, e)[i] = s[i]
    <3> HIDE DEF s, e
    <3>1. QED
      BY <2>1, AppendProperties
  <2>3. /\ got'[r] = Append(s, e)
        /\ \A n \in Node : n # r => got'[n] = got[n]
        /\ got' \in [Node -> Seq(Flit)]
    BY <1>1, <1>3, <2>2
  <2>4. QED
    BY <1>2, <1>3, <2>2, <2>3
<1>4. CASE Local \notin Granted(r)
  BY <1>1, <1>4
<1>5. QED
  BY <1>3, <1>4

LEMMA ComputeGot ==
  ASSUME TypeOK, FlowInv, NEW r \in Node, RouterCompute(r)
  PROVE  GotInOrder' /\ GotAhead'
<1> DEFINE e == Sent(r, Local)
           w == Winner(r, Local)
<1>0. /\ OnRoute /\ LinesInOrder /\ GotInOrder /\ GotAhead
      /\ got \in [Node -> Seq(Flit)]
  BY DEF FlowInv
<1>1. \A n \in Node : Len(got[n]) \in Nat
  BY <1>0, LenProperties
<1>2. /\ \A n \in Node : n # r \/ Local \notin Granted(r) => got'[n] = got[n]
      /\ Local \in Granted(r) =>
            /\ e.dst = r /\ e.id \in Nat
            /\ Len(got'[r]) = Len(got[r]) + 1
            /\ got'[r][Len(got[r]) + 1] = e
            /\ \A i \in 1 .. Len(got[r]) : got'[r][i] = got[r][i]
  BY <1>0, GotGrows
<1>3. \A n \in Node : \A i \in 1 .. Len(got'[n]) :
        \/ i \in 1 .. Len(got[n]) /\ got'[n][i] = got[n][i]
        \/ /\ Local \in Granted(r) /\ n = r
           /\ i = Len(got[r]) + 1 /\ got'[n][i] = e
  <2> SUFFICES ASSUME NEW n \in Node, NEW i \in 1 .. Len(got'[n])
               PROVE  \/ i \in 1 .. Len(got[n]) /\ got'[n][i] = got[n][i]
                      \/ /\ Local \in Granted(r) /\ n = r
                         /\ i = Len(got[r]) + 1 /\ got'[n][i] = e
    OBVIOUS
  <2> HIDE DEF e
  <2>1. CASE n # r \/ Local \notin Granted(r)
    BY <1>2, <2>1
  <2>2. CASE n = r /\ Local \in Granted(r)
    BY <1>1, <1>2, <2>2
  <2>3. QED
    BY <2>1, <2>2
<1>4. Local \in Granted(r) => /\ w \in Dir /\ 1 \in 1 .. Len(Line(r, w))
                              /\ Line(r, w)[1] = e /\ w \in Popped(r)
                              /\ Hops(r, e.dst) = 0
  BY <1>0, <1>2, SentLeadsLine, HopsAreNat DEF Popped
<1>5. GotInOrder'
  <2>1. ASSUME NEW n \in Node, NEW i \in 1 .. Len(got'[n])
        PROVE  got'[n][i].dst = n /\ got'[n][i].id \in Nat
    BY <1>0, <1>2, <1>3 DEF GotInOrder
  <2>2. ASSUME NEW n \in Node, NEW i \in 1 .. Len(got'[n]), NEW j \in 1 .. Len(got'[n]),
               i < j, got'[n][i].src = got'[n][j].src
        PROVE  got'[n][i].id < got'[n][j].id
    <3>1. i \in 1 .. Len(got[n]) /\ got'[n][i] = got[n][i]
      <4> HIDE DEF e
      <4>1. ~(i = Len(got[n]) + 1) \/ Len(got'[n]) # Len(got[n]) + 1
        BY <1>1, <2>2
      <4>2. QED
        BY <1>2, <1>3, <4>1
    <3>2. CASE j \in 1 .. Len(got[n]) /\ got'[n][j] = got[n][j]
      BY <1>0, <2>2, <3>1, <3>2 DEF GotInOrder
    <3>3. CASE Local \in Granted(r) /\ n = r /\ got'[n][j] = e
      <4>1. SamePair(got[n][i], Line(r, w)[1])
        BY <1>0, <1>2, <1>4, <2>2, <3>1, <3>3 DEF SamePair, GotInOrder
      <4>2. got[n][i].id < Line(r, w)[1].id
        <5> HIDE DEF w, e
        <5>1. QED
          BY <1>0, <1>4, <3>1, <3>3, <4>1 DEF GotAhead
      <4>3. QED
        BY <1>4, <3>1, <3>3, <4>2
    <3>4. QED
      BY <1>3, <3>2, <3>3
  <2>3. QED
    BY <2>1, <2>2 DEF GotInOrder
<1>6. GotAhead'
  <2> SUFFICES ASSUME NEW n \in Node, NEW m \in Node, NEW q \in Dir,
                      NEW i \in 1 .. Len(got'[n]), NEW j \in 1 .. Len(Line(m, q)'),
                      SamePair(got'[n][i], Line(m, q)'[j])
               PROVE  got'[n][i].id < Line(m, q)'[j].id
    BY DEF GotAhead, SamePair
  <2> DEFINE g == Line(m, q)'[j]
             v == Winner(r, opposite(q))
             l == IF m = r /\ q \in Popped(r) THEN j + 1 ELSE j
  <2>1. \/ Stayed(r, m, q, j) /\ l \in 1 .. Len(Line(m, q)) /\ Line(m, q)[l] = g
        \/ Arrived(r, m, q, j) /\ v \in Dir /\ 1 \in 1 .. Len(Line(r, v)) /\ Line(r, v)[1] = g
    BY <1>0, Origin, ArrivedFrom DEF Stayed
  <2>2. g.id \in Nat
    BY <1>0, ComputeOnRoute DEF OnRoute, Travels
  <2>3. CASE i \in 1 .. Len(got[n]) /\ got'[n][i] = got[n][i]
    <3> HIDE DEF g, l, v
    <3>1. SamePair(got[n][i], g)
      BY <2>3 DEF g
    <3>2. got[n][i].id < g.id
      BY <1>0, <2>1, <2>3, <3>1 DEF GotAhead
    <3>3. QED
      BY <2>3, <3>2 DEF g
  <2>4. CASE Local \in Granted(r) /\ n = r /\ got'[n][i] = e
    <3>1. SamePair(g, e) /\ e.dst = r /\ g.dst = r /\ e.id \in Nat
      BY <1>2, <2>4 DEF SamePair
    <3>2. Hops(m, r) \in Nat /\ Hops(r, r) = 0
      BY HopsAreNat
    <3>3. CASE Stayed(r, m, q, j)
      <4>1. l \in 1 .. Len(Line(m, q)) /\ Line(m, q)[l] = g
        BY <3>3 DEF Stayed
      <4>2. g.id <= e.id => Hops(m, r) < Hops(r, r) \/ (m = r /\ q = w /\ l <= 1)
        <5> HIDE DEF g, e, l, w
        <5>1. QED
          BY <1>0, <1>4, <2>4, <3>1, <4>1 DEF LinesInOrder
      <4>3. m = r /\ q = w => l = j + 1
        BY <1>4, <2>4
      <4>4. j \in Int /\ j >= 1
        OBVIOUS
      <4>5. ~(m = r /\ q = w /\ l <= 1)
        <5> HIDE DEF l, w
        <5>1. QED
          BY <4>3, <4>4
      <4>6. ~(g.id <= e.id)
        <5> HIDE DEF g, e, l, w
        <5>1. QED
          BY <3>2, <4>2, <4>5
      <4>7. QED
        <5> HIDE DEF g, e
        <5>1. e.id < g.id
          BY <2>2, <3>1, <4>6
        <5>2. QED
          BY <2>4, <5>1 DEF g
    <3>4. CASE Arrived(r, m, q, j)
      <4>1. route_xy(r, g.dst) = opposite(q) /\ opposite(q) \in Cardinal
        BY <1>0, <3>4, ArrivedFrom
      <4>2. route_xy(r, r) = Local
        BY RouteOnMesh
      <4>3. QED
        BY <3>1, <4>1, <4>2 DEF Cardinal, Local, East, South
    <3>5. QED
      BY <2>1, <3>3, <3>4
  <2>5. QED
    BY <1>3, <2>3, <2>4
<1>7. QED
  BY <1>5, <1>6

(* A flit that is not sent keeps its place, or moves up by one. *)
LEMMA Stays ==
  ASSUME TypeOK, NEW r \in Node, RouterCompute(r),
         NEW n \in Node, NEW p \in Dir, NEW i \in 1 .. Len(Line(n, p)),
         ~(n = r /\ p \in Popped(r) /\ i = 1)
  PROVE  \E k \in 1 .. Len(Line(n, p)') : Line(n, p)'[k] = Line(n, p)[i]
<1> DEFINE s == Line(n, p)
           s1 == Line(n, p)'
<1>1. s \in Seq(Flit) /\ Len(s) \in Nat /\ s # << >>
  <2>1. s \in Seq(Flit) /\ Len(s) \in Nat
    BY LineIsSeq, LenProperties
  <2>2. QED
    BY <2>1, EmptySeq
<1>2. CASE n = r /\ p \in Popped(r)
  <2>1. s1 = Tail(s)
    BY <1>2, ComputeMovesLines
  <2>2. Len(s1) = Len(s) - 1 /\ \A j \in 1 .. Len(s1) : s1[j] = s[j + 1]
    <3> HIDE DEF s, s1
    <3>1. QED
      BY <1>1, <2>1, HeadTailProperties
  <2>3. i - 1 \in 1 .. Len(s1) /\ s1[i - 1] = s[i]
    <3> HIDE DEF s1
    <3>1. i \in 2 .. Len(s)
      BY <1>1, <1>2
    <3>2. i - 1 \in 1 .. Len(s1) /\ (i - 1) + 1 = i
      BY <1>1, <2>2, <3>1
    <3>3. QED
      BY <2>2, <3>2
  <2>4. QED
    BY <2>3
<1>3. CASE ~(n = r /\ p \in Popped(r)) /\ Faces(n, p, r) /\ opposite(p) \in Granted(r)
  <2> DEFINE e == Sent(r, opposite(p))
  <2>1. s1 = Append(s, e) /\ e \in Flit
    BY <1>3, ComputeMovesLines, SentIsFlit DEF TypeOK
  <2>2. Len(s1) = Len(s) + 1 /\ \A j \in 1 .. Len(s) : s1[j] = s[j]
    <3> HIDE DEF s, s1, e
    <3>1. QED
      BY <1>1, <2>1, AppendProperties
  <2>3. i \in 1 .. Len(s1)
    BY <1>1, <2>2
  <2>4. QED
    BY <2>2, <2>3
<1>4. CASE /\ ~(n = r /\ p \in Popped(r))
           /\ ~(Faces(n, p, r) /\ opposite(p) \in Granted(r))
  BY <1>4, ComputeMovesLines
<1>5. QED
  BY <1>2, <1>3, <1>4

(* A flit that is sent is delivered or enters the line of the neighbour. *)
LEMMA SentArrives ==
  ASSUME TypeOK, OnRoute, got \in [Node -> Seq(Flit)],
         NEW r \in Node, RouterCompute(r), NEW o \in Granted(r)
  PROVE  \/ \E m \in Node, q \in Dir : \E k \in 1 .. Len(Line(m, q)') :
              Line(m, q)'[k] = Sent(r, o)
         \/ \E k \in 1 .. Len(got'[r]) : got'[r][k] = Sent(r, o)
<1>1. CASE o = Local
  <2>1. /\ Len(got'[r]) = Len(got[r]) + 1
        /\ got'[r][Len(got[r]) + 1] = Sent(r, Local)
    BY <1>1, GotGrows
  <2>2. Len(got[r]) \in Nat
    BY LenProperties
  <2>3. Len(got[r]) + 1 \in 1 .. Len(got'[r])
    BY <2>1, <2>2
  <2>4. QED
    BY <1>1, <2>1, <2>3
<1>2. CASE o # Local
  <2>1. Sent(r, o) \in Flit /\ has_neighbor(r, o) /\ o \in Cardinal
    <3>1. Sent(r, o) \in Flit /\ has_neighbor(r, o) /\ o \in Dir
      BY <1>2, SentIsFlit DEF TypeOK, Granted
    <3>2. QED
      BY <1>2, <3>1 DEF Cardinal, Dir, Local, East, South
  <2> DEFINE m == step(r, o)
             q == opposite(o)
  <2>2. /\ m \in Node /\ q \in Dir /\ m # r /\ opposite(q) = o /\ Faces(m, q, r)
    BY <2>1, StepBack, FacesIsLink, OppositeIsDir DEF Granted
  <2>3. Line(m, q)' = Append(Line(m, q), Sent(r, o))
    <3> HIDE DEF m, q
    <3>1. QED
      BY <2>2, ComputeMovesLines
  <2>4. Line(m, q) \in Seq(Flit) /\ Len(Line(m, q)) \in Nat
    BY <2>2, LineIsSeq, LenProperties
  <2> DEFINE s == Line(m, q)
             s1 == Line(m, q)'
             e == Sent(r, o)
  <2>5. Len(s1) = Len(s) + 1 /\ s1[Len(s) + 1] = e
    <3> HIDE DEF s, s1, e
    <3>1. s1 = Append(s, e) /\ s \in Seq(Flit) /\ e \in Flit
      BY <2>1, <2>3, <2>4 DEF s, s1, e
    <3>2. QED
      BY <3>1, AppendProperties
  <2>6. Len(s) + 1 \in 1 .. Len(s1)
    BY <2>4, <2>5
  <2>7. QED
    BY <2>2, <2>5, <2>6
<1>3. QED
  BY <1>1, <1>2

LEMMA ComputeNothingLost ==
  ASSUME TypeOK, FlowInv, NEW r \in Node, RouterCompute(r)
  PROVE  NothingLost'
<1>0. /\ OnRoute /\ NothingLost /\ got \in [Node -> Seq(Flit)] /\ load' = load
  BY DEF FlowInv, RouterCompute, Take
<1>1. \A f : Somewhere(f) => Somewhere(f)'
  <2> TAKE f
  <2>1. ASSUME NEW n \in Node, NEW p \in Dir, NEW i \in 1 .. Len(Line(n, p)),
               Line(n, p)[i] = f
        PROVE  Somewhere(f)'
    <3>1. CASE n = r /\ p \in Popped(r) /\ i = 1
      <4>1. PICK o \in Granted(r) : p = Winner(r, o)
        BY <3>1 DEF Popped
      <4>2. Sent(r, o) = f
        BY <1>0, <2>1, <3>1, <4>1, SentLeadsLine
      <4>3. \/ \E m \in Node, q \in Dir : \E k \in 1 .. Len(Line(m, q)') : Line(m, q)'[k] = f
            \/ \E k \in 1 .. Len(got'[r]) : got'[r][k] = f
        BY <1>0, <4>2, SentArrives
      <4>4. QED
        BY <4>3 DEF Somewhere
    <3>2. CASE ~(n = r /\ p \in Popped(r) /\ i = 1)
      <4>1. PICK k \in 1 .. Len(Line(n, p)') : Line(n, p)'[k] = f
        BY <2>1, <3>2, Stays
      <4>2. QED
        BY <4>1 DEF Somewhere
    <3>3. QED
      BY <3>1, <3>2
  <2>2. ASSUME NEW n \in Node, NEW i \in 1 .. Len(got[n]), got[n][i] = f
        PROVE  Somewhere(f)'
    <3>1. Len(got[n]) \in Nat
      BY <1>0, LenProperties
    <3>2. CASE n # r \/ Local \notin Granted(r)
      <4>1. got'[n] = got[n]
        BY <1>0, <3>2, GotGrows
      <4>2. QED
        BY <2>2, <4>1 DEF Somewhere
    <3>3. CASE n = r /\ Local \in Granted(r)
      <4>1. /\ Len(got'[r]) = Len(got[r]) + 1
            /\ \A j \in 1 .. Len(got[r]) : got'[r][j] = got[r][j]
        BY <1>0, <3>3, GotGrows
      <4>2. i \in 1 .. Len(got'[n]) /\ got'[n][i] = f
        BY <2>2, <3>1, <3>3, <4>1
      <4>3. QED
        BY <4>2 DEF Somewhere
    <3>4. QED
      BY <3>2, <3>3
  <2>3. QED
    BY <2>1, <2>2 DEF Somewhere
<1>2. QED
  BY <1>0, <1>1 DEF NothingLost

LEMMA StepFlow == TypeOK /\ FlowInv /\ [Next]_nocVars => FlowInv'
<1> SUFFICES ASSUME TypeOK, FlowInv, [Next]_nocVars PROVE FlowInv'
  OBVIOUS
<1>1. ASSUME NEW n \in Node, PeCompute(n) PROVE FlowInv'
  <2>1. UNCHANGED <<got, load>>
    BY <1>1 DEF PeCompute, Take
  <2>2. QED
    BY <1>1, <2>1, PeComputeKeepsLines, UnmovedFlow
<1>2. ASSUME NEW r \in Node, RouterCompute(r) PROVE FlowInv'
  <2>1. load' \in [Node -> Seq(Flit)] /\ got' \in [Node -> Seq(Flit)]
    BY <1>2, GotGrows DEF FlowInv, RouterCompute, Take
  <2>0. \A s \in Node : \A k \in 1 .. Len(load'[s]) : load'[s][k].src = s
    BY <1>2 DEF FlowInv, RouterCompute, Take
  <2>2. OnRoute' /\ LinesInOrder'
    BY <1>2, ComputeOnRoute, ComputeLinesInOrder DEF FlowInv
  <2>3. GotInOrder' /\ GotAhead' /\ NothingLost'
    BY <1>2, ComputeGot, ComputeNothingLost
  <2>4. QED
    BY <2>0, <2>1, <2>2, <2>3 DEF FlowInv
<1>3. ASSUME NEW n \in Node, PeCommit(n) PROVE FlowInv'
  <2>1. UNCHANGED <<got, load>> /\ \A m \in Node, p \in Dir : Line(m, p)' = Line(m, p)
    BY <1>3 DEF PeCommit, Take, CommitEject, Line
  <2>2. QED
    BY <2>1, UnmovedFlow
<1>4. ASSUME NEW r \in Node, RouterCommit(r) PROVE FlowInv'
  <2>1. UNCHANGED <<got, load>>
    BY <1>4 DEF RouterCommit, Take
  <2>2. QED
    BY <1>4, <2>1, RouterCommitKeepsLines, UnmovedFlow
<1>5. CASE EndCompute \/ EndCycle \/ UNCHANGED nocVars
  <2>1. UNCHANGED <<got, load>> /\ \A m \in Node, p \in Dir : Line(m, p)' = Line(m, p)
    BY <1>5 DEF EndCompute, EndCycle, nocVars, routerVars, Line
  <2>2. QED
    BY <2>1, UnmovedFlow
<1>6. QED
  BY <1>1, <1>2, <1>3, <1>4, <1>5 DEF Next

(* A backlog is numbered in the order in which its flits are injected. *)
LEMMA BacklogInOrder ==
  ASSUME NEW tr \in Traffic, NEW n \in Node
  PROVE  /\ Len(Backlog(tr[n], n)) \in Nat
         /\ \A i \in 1 .. Len(Backlog(tr[n], n)) :
              LET f == Backlog(tr[n], n)[i]
              IN  f \in Flit /\ f.src = n /\ f.dst \in Node /\ f.id = i
<1> DEFINE b == Backlog(tr[n], n)
<1>1. b \in Seq(Flit)
  BY BacklogIsSeq
<1>2. Len(b) \in Nat /\ DOMAIN b = 1 .. Len(b) /\ \A i \in 1 .. Len(b) : b[i] \in Flit
  <2> HIDE DEF b
  <2>1. QED
    BY <1>1, LenProperties, ElementOfSeq
<1>3. DOMAIN b = 1 .. Len(tr[n])
  BY DEF Backlog
<1>4. ASSUME NEW i \in 1 .. Len(b)
      PROVE  b[i] \in Flit /\ b[i].src = n /\ b[i].dst \in Node /\ b[i].id = i
  <2>1. i \in 1 .. Len(tr[n]) /\ b[i] \in Flit
    BY <1>2, <1>3
  <2>2. b[i] = [src |-> n, dst |-> tr[n][i], id |-> i]
    BY <2>1 DEF Backlog
  <2>3. QED
    BY <2>1, <2>2, FlitAssumption
<1>5. QED
  BY <1>2, <1>4

LEMMA InitFlow == Init => FlowInv
<1> SUFFICES ASSUME Init PROVE FlowInv
  OBVIOUS
<1>1. PICK tr \in Traffic : pending = [n \in Node |-> Backlog(tr[n], n)]
  BY DEF Init
<1>2. /\ load = pending /\ got = [n \in Node |-> << >>]
      /\ load \in [Node -> Seq(Flit)] /\ got \in [Node -> Seq(Flit)]
  BY <1>1, BacklogIsSeq DEF Init
<1>3. \A n \in Node, p \in Dir : Line(n, p) = IF p = Local THEN load[n] ELSE << >>
  <2> SUFFICES ASSUME NEW n \in Node, NEW p \in Dir
               PROVE  Line(n, p) = IF p = Local THEN load[n] ELSE << >>
    OBVIOUS
  <2>1. cur[n][p] = << >> /\ nxt[n][p] = << >>
    BY DEF Init, RouterInit
  <2>2. load[n] \in Seq(Flit)
    BY <1>2
  <2>3. << >> \o << >> = << >> /\ << >> \o load[n] = load[n]
    BY <2>2, ConcatEmptySeq, EmptySeq
  <2>4. QED
    BY <1>2, <2>1, <2>3 DEF Line
<1>4. \A n \in Node, p \in Dir : \A i \in 1 .. Len(Line(n, p)) :
        LET f == Line(n, p)[i]
        IN  p = Local /\ f = load[n][i] /\ i \in 1 .. Len(load[n])
            /\ f.src = n /\ f.dst \in Node /\ f.id = i
  <2> SUFFICES ASSUME NEW n \in Node, NEW p \in Dir, NEW i \in 1 .. Len(Line(n, p))
               PROVE  /\ p = Local /\ Line(n, p)[i] = load[n][i] /\ i \in 1 .. Len(load[n])
                      /\ load[n][i].src = n /\ load[n][i].dst \in Node /\ load[n][i].id = i
    OBVIOUS
  <2>1. p = Local
    BY <1>3, EmptySeq
  <2>2. Line(n, p) = load[n] /\ load[n] = Backlog(tr[n], n)
    BY <1>1, <1>2, <1>3, <2>1
  <2>3. QED
    BY <2>1, <2>2, BacklogInOrder
<1>5. OnRoute
  <2> SUFFICES ASSUME NEW n \in Node, NEW p \in Dir, NEW i \in 1 .. Len(Line(n, p))
               PROVE  Travels(Line(n, p)[i], n, p)
    BY DEF OnRoute
  <2>1. i \in Nat
    OBVIOUS
  <2>2. QED
    BY <1>4, <2>1 DEF Travels
<1>6. LinesInOrder
  BY <1>4 DEF LinesInOrder, SamePair
<1>7. GotInOrder /\ GotAhead
  <2>1. \A n \in Node : Len(got[n]) = 0
    BY <1>2, EmptySeq
  <2>2. QED
    BY <2>1 DEF GotInOrder, GotAhead
<1>8. NothingLost
  <2>1. Local \in Dir
    BY DEF Dir, Local, South
  <2>2. QED
    BY <1>3, <2>1 DEF NothingLost, Somewhere
<1>9. \A n \in Node : \A k \in 1 .. Len(load[n]) : load[n][k].src = n
  BY <1>1, <1>2, BacklogInOrder
<1>10. QED
  BY <1>2, <1>5, <1>6, <1>7, <1>8, <1>9 DEF FlowInv

LEMMA FlowHolds == Spec => []FlowInv
BY InitFlow, StepFlow, TypeCorrect, PTL DEF Spec

(* The flits of one pair are delivered in the order of their injection, on
   any mesh, with any number of credits and under any load. *)
THEOREM DeliveredInOrder == Spec => []InOrderPerPair
<1>1. FlowInv => InOrderPerPair
  <2> SUFFICES ASSUME FlowInv, NEW n \in Node, NEW i \in DOMAIN got[n], NEW j \in DOMAIN got[n],
                      i < j, got[n][i].src = got[n][j].src
               PROVE  got[n][i].id < got[n][j].id
    BY DEF InOrderPerPair
  <2>1. DOMAIN got[n] = 1 .. Len(got[n])
    BY LenProperties DEF FlowInv
  <2>2. QED
    BY <2>1 DEF FlowInv, GotInOrder
<1>2. QED
  BY <1>1, FlowHolds, PTL

(* Which copy of a flit stands at place k of a line. *)
Where(n, p, k) ==
  IF k <= Len(cur[n][p]) THEN <<"cur", n, p, k>>
  ELSE IF k <= Len(cur[n][p]) + Len(nxt[n][p])
  THEN <<"nxt", n, p, k - Len(cur[n][p])>>
  ELSE <<"pending", k - (Len(cur[n][p]) + Len(nxt[n][p]))>>

LEMMA LineParts ==
  ASSUME TypeOK, NEW n \in Node, NEW p \in Dir
  PROVE  /\ Len(cur[n][p]) \in Nat /\ Len(nxt[n][p]) \in Nat /\ Len(pending[n]) \in Nat
         /\ Len(Line(n, p)) = Len(cur[n][p]) + Len(nxt[n][p])
                                + (IF p = Local THEN Len(pending[n]) ELSE 0)
         /\ \A k \in 1 .. Len(Line(n, p)) :
              Line(n, p)[k] =
                IF k <= Len(cur[n][p]) THEN cur[n][p][k]
                ELSE IF k <= Len(cur[n][p]) + Len(nxt[n][p])
                THEN nxt[n][p][k - Len(cur[n][p])]
                ELSE pending[n][k - (Len(cur[n][p]) + Len(nxt[n][p]))]
<1> DEFINE s == cur[n][p]
           t == nxt[n][p]
           u == pending[n]
           v == s \o t
           l == Line(n, p)
<1>1. s \in Seq(Flit) /\ t \in Seq(Flit) /\ u \in Seq(Flit)
  BY DEF TypeOK, RouterTypeOK
<1>2. /\ Len(s) \in Nat /\ Len(t) \in Nat /\ Len(u) \in Nat
      /\ v \in Seq(Flit) /\ Len(v) = Len(s) + Len(t)
      /\ \A k \in 1 .. Len(s) + Len(t) : v[k] = IF k <= Len(s) THEN s[k] ELSE t[k - Len(s)]
  <2> HIDE DEF s, t, u
  <2>1. QED
    BY <1>1, LenProperties, ConcatProperties
<1>3. /\ Len(v \o u) = Len(v) + Len(u)
      /\ \A k \in 1 .. Len(v) + Len(u) : (v \o u)[k] = IF k <= Len(v) THEN v[k] ELSE u[k - Len(v)]
  <2>1. v \in Seq(Flit)
    BY <1>2
  <2> HIDE DEF u, v
  <2>2. QED
    BY <1>1, <2>1, ConcatProperties
<1>4. l = IF p = Local THEN v \o u ELSE v
  BY DEF Line
<1>5. Len(l) = Len(s) + Len(t) + (IF p = Local THEN Len(u) ELSE 0)
  <2> HIDE DEF l, s, t, u, v
  <2>1. CASE p = Local
    BY <1>2, <1>3, <1>4, <2>1
  <2>2. CASE p # Local
    BY <1>2, <1>4, <2>2
  <2>3. QED
    BY <2>1, <2>2
<1>6. ASSUME NEW k \in 1 .. Len(l)
      PROVE  l[k] = IF k <= Len(s) THEN s[k]
                    ELSE IF k <= Len(s) + Len(t) THEN t[k - Len(s)]
                    ELSE u[k - (Len(s) + Len(t))]
  <2> HIDE DEF l, s, t, u, v
  <2>1. CASE k <= Len(s) + Len(t)
    <3>1. k \in 1 .. Len(s) + Len(t)
      BY <1>2, <1>5, <2>1
    <3>2. l[k] = v[k]
      <4>1. k \in 1 .. Len(v) + Len(u) /\ k <= Len(v)
        BY <1>2, <3>1
      <4>2. QED
        BY <1>3, <1>4, <4>1
    <3>3. QED
      BY <1>2, <3>1, <3>2
  <2>2. CASE ~(k <= Len(s) + Len(t))
    <3>1. p = Local
      <4>1. SUFFICES ASSUME p # Local PROVE FALSE
        OBVIOUS
      <4>2. Len(l) = Len(s) + Len(t)
        BY <1>2, <1>5, <4>1
      <4>3. k <= Len(l) /\ k \in Int
        BY <1>6, <1>2, <4>2
      <4>4. QED
        BY <1>2, <2>2, <4>2, <4>3
    <3>2. k \in 1 .. Len(v) + Len(u) /\ ~(k <= Len(v)) /\ ~(k <= Len(s))
      BY <1>2, <1>5, <2>2, <3>1
    <3>3. l[k] = u[k - Len(v)]
      BY <1>3, <1>4, <3>1, <3>2
    <3>4. QED
      BY <1>2, <2>2, <3>2, <3>3
  <2>3. QED
    BY <2>1, <2>2
<1>7. QED
  BY <1>2, <1>5, <1>6

LEMMA CopiesInUnfold ==
  ASSUME NEW name, NEW queue, NEW f
  PROVE  \A c : c \in CopiesIn(name, queue, f) <=>
           \E n \in Node, p \in Dir : \E i \in DOMAIN queue[n][p] :
             queue[n][p][i] = f /\ c = <<name, n, p, i>>
<1> DEFINE At(n, p) == {<<name, n, p, i>> : i \in {j \in DOMAIN queue[n][p] : queue[n][p][j] = f}}
<1>1. \A c : c \in CopiesIn(name, queue, f) <=> \E n \in Node, p \in Dir : c \in At(n, p)
  <2>1. CopiesIn(name, queue, f) = UNION {At(n, p) : n \in Node, p \in Dir}
    BY DEF CopiesIn
  <2> HIDE DEF At
  <2>2. QED
    BY <2>1
<1>2. \A n, p, c : c \in At(n, p) <=>
        \E i \in DOMAIN queue[n][p] : queue[n][p][i] = f /\ c = <<name, n, p, i>>
  OBVIOUS
<1> HIDE DEF At
<1>3. QED
  BY <1>1, <1>2

LEMMA CopiesUnfold ==
  ASSUME NEW f
  PROVE  \A c : c \in Copies(f) <=>
           \/ \E i \in DOMAIN pending[f.src] : pending[f.src][i] = f /\ c = <<"pending", i>>
           \/ \E n \in Node, p \in Dir : \E i \in DOMAIN cur[n][p] :
                cur[n][p][i] = f /\ c = <<"cur", n, p, i>>
           \/ \E n \in Node, p \in Dir : \E i \in DOMAIN nxt[n][p] :
                nxt[n][p][i] = f /\ c = <<"nxt", n, p, i>>
           \/ \E n \in Node : \E i \in DOMAIN got[n] : got[n][i] = f /\ c = <<"got", n, i>>
<1> DEFINE Pend == {<<"pending", i>> : i \in {j \in DOMAIN pending[f.src] : pending[f.src][j] = f}}
           GotAt(n) == {<<"got", n, i>> : i \in {j \in DOMAIN got[n] : got[n][j] = f}}
           GotAll == UNION {GotAt(n) : n \in Node}
<1>1. Copies(f) = ((Pend \cup CopiesIn("cur", cur, f)) \cup CopiesIn("nxt", nxt, f)) \cup GotAll
  BY DEF Copies
<1>2. \A c : c \in Pend <=>
        \E i \in DOMAIN pending[f.src] : pending[f.src][i] = f /\ c = <<"pending", i>>
  OBVIOUS
<1>3. \A c : c \in GotAll <=>
        \E n \in Node : \E i \in DOMAIN got[n] : got[n][i] = f /\ c = <<"got", n, i>>
  <2>1. \A c : c \in GotAll <=> \E n \in Node : c \in GotAt(n)
    <3> HIDE DEF GotAt
    <3>1. QED
      OBVIOUS
  <2>2. \A n, c : c \in GotAt(n) <=>
          \E i \in DOMAIN got[n] : got[n][i] = f /\ c = <<"got", n, i>>
    OBVIOUS
  <2> HIDE DEF GotAll, GotAt
  <2>3. QED
    BY <2>1, <2>2
<1> HIDE DEF Pend, GotAll
<1>4. QED
  BY <1>1, <1>2, <1>3, CopiesInUnfold

(* The copies of a flit that are not delivered are its places in the lines. *)
LEMMA CopiesAreInLines ==
  ASSUME TypeOK, OnRoute, got \in [Node -> Seq(Flit)], NEW f \in Flit, f.src \in Node
  PROVE  /\ \A n \in Node, p \in Dir : \A k \in 1 .. Len(Line(n, p)) :
              Line(n, p)[k] = f => Where(n, p, k) \in Copies(f)
         /\ \A n \in Node : \A k \in 1 .. Len(got[n]) :
              got[n][k] = f => <<"got", n, k>> \in Copies(f)
         /\ \A c \in Copies(f) :
              \/ \E n \in Node, p \in Dir : \E k \in 1 .. Len(Line(n, p)) :
                   Line(n, p)[k] = f /\ c = Where(n, p, k)
              \/ \E n \in Node : \E k \in 1 .. Len(got[n]) :
                   got[n][k] = f /\ c = <<"got", n, k>>
<1>0. /\ \A n \in Node, p \in Dir :
           /\ DOMAIN cur[n][p] = 1 .. Len(cur[n][p])
           /\ DOMAIN nxt[n][p] = 1 .. Len(nxt[n][p])
      /\ \A n \in Node : /\ DOMAIN pending[n] = 1 .. Len(pending[n])
                         /\ DOMAIN got[n] = 1 .. Len(got[n])
  BY LenProperties DEF TypeOK, RouterTypeOK
<1>1. ASSUME NEW n \in Node, NEW p \in Dir, NEW k \in 1 .. Len(Line(n, p)), Line(n, p)[k] = f
      PROVE  Where(n, p, k) \in Copies(f)
  <2> DEFINE a == Len(cur[n][p])
             b == Len(nxt[n][p])
             e == Len(pending[n])
  <2>1. /\ a \in Nat /\ b \in Nat /\ e \in Nat
        /\ Len(Line(n, p)) = a + b + (IF p = Local THEN e ELSE 0)
        /\ f = IF k <= a THEN cur[n][p][k]
               ELSE IF k <= a + b THEN nxt[n][p][k - a] ELSE pending[n][k - (a + b)]
    BY <1>1, LineParts
  <2>2. CASE k <= a
    <3>1. k \in 1 .. a
      <4> HIDE DEF a
      <4>1. QED
        BY <2>1, <2>2
    <3>2. k \in DOMAIN cur[n][p] /\ cur[n][p][k] = f
      BY <1>0, <2>1, <2>2, <3>1
    <3>3. Where(n, p, k) = <<"cur", n, p, k>>
      BY <2>2 DEF Where
    <3>4. QED
      BY <3>2, <3>3, CopiesUnfold
  <2>3. CASE ~(k <= a) /\ k <= a + b
    <3>1. k - a \in 1 .. b
      <4> HIDE DEF a, b
      <4>1. QED
        BY <2>1, <2>3
    <3>2. k - a \in DOMAIN nxt[n][p] /\ nxt[n][p][k - a] = f
      BY <1>0, <2>1, <2>3, <3>1
    <3>3. Where(n, p, k) = <<"nxt", n, p, k - a>>
      BY <2>3 DEF Where
    <3>4. QED
      BY <3>2, <3>3, CopiesUnfold
  <2>4. CASE ~(k <= a) /\ ~(k <= a + b)
    <3>1. p = Local /\ k - (a + b) \in 1 .. e
      <4> DEFINE l == Len(Line(n, p))
      <4>1. k \in 1 .. l /\ l = a + b + (IF p = Local THEN e ELSE 0)
        BY <2>1
      <4> HIDE DEF a, b, e, l
      <4>2. p = Local
        BY <2>1, <2>4, <4>1
      <4>3. QED
        BY <2>1, <2>4, <4>1, <4>2
    <3>2. n = f.src
      BY <1>1, <3>1 DEF OnRoute, Travels, Local, East, West, North, South
    <3>3. k - (a + b) \in DOMAIN pending[n] /\ pending[n][k - (a + b)] = f
      BY <1>0, <2>1, <2>4, <3>1
    <3>4. Where(n, p, k) = <<"pending", k - (a + b)>>
      BY <2>4 DEF Where
    <3>5. QED
      BY <3>2, <3>3, <3>4, CopiesUnfold
  <2>5. QED
    BY <2>2, <2>3, <2>4
<1>2. ASSUME NEW n \in Node, NEW k \in 1 .. Len(got[n]), got[n][k] = f
      PROVE  <<"got", n, k>> \in Copies(f)
  BY <1>0, <1>2, CopiesUnfold
<1>3. ASSUME NEW c \in Copies(f)
      PROVE  \/ \E n \in Node, p \in Dir : \E k \in 1 .. Len(Line(n, p)) :
                  Line(n, p)[k] = f /\ c = Where(n, p, k)
             \/ \E n \in Node : \E k \in 1 .. Len(got[n]) :
                  got[n][k] = f /\ c = <<"got", n, k>>
  <2>1. ASSUME NEW i \in DOMAIN pending[f.src], pending[f.src][i] = f, c = <<"pending", i>>
        PROVE  \E n \in Node, p \in Dir : \E k \in 1 .. Len(Line(n, p)) :
                  Line(n, p)[k] = f /\ c = Where(n, p, k)
    <3> DEFINE n == f.src
               a == Len(cur[n][Local])
               b == Len(nxt[n][Local])
               e == Len(pending[n])
               k == a + b + i
    <3>1. Local \in Dir
      BY DEF Dir, Local, South
    <3>2. /\ a \in Nat /\ b \in Nat /\ e \in Nat
          /\ Len(Line(n, Local)) = a + b + e
      BY <3>1, LineParts
    <3>3. i \in 1 .. e
      BY <1>0, <2>1
    <3>4. /\ k \in 1 .. Len(Line(n, Local)) /\ ~(k <= a) /\ ~(k <= a + b) /\ k - (a + b) = i
      <4> HIDE DEF n, a, b, e
      <4>1. QED
        BY <3>2, <3>3
    <3>5. Line(n, Local)[k] = pending[n][i]
      BY <3>1, <3>4, LineParts
    <3>6. Where(n, Local, k) = <<"pending", i>>
      BY <3>4 DEF Where
    <3>7. QED
      BY <2>1, <3>1, <3>4, <3>5, <3>6
  <2>2. ASSUME NEW n \in Node, NEW p \in Dir, NEW i \in DOMAIN cur[n][p],
               cur[n][p][i] = f, c = <<"cur", n, p, i>>
        PROVE  i \in 1 .. Len(Line(n, p)) /\ Line(n, p)[i] = f /\ c = Where(n, p, i)
    <3> DEFINE a == Len(cur[n][p])
               b == Len(nxt[n][p])
               e == Len(pending[n])
    <3>1. /\ a \in Nat /\ b \in Nat /\ e \in Nat
          /\ Len(Line(n, p)) = a + b + (IF p = Local THEN e ELSE 0)
      BY LineParts
    <3>2. i \in 1 .. a
      BY <1>0, <2>2
    <3>3. i \in 1 .. Len(Line(n, p)) /\ i <= a
      <4> HIDE DEF a, b, e
      <4>1. QED
        BY <3>1, <3>2
    <3>4. QED
      BY <2>2, <3>3, LineParts DEF Where
  <2>3. ASSUME NEW n \in Node, NEW p \in Dir, NEW i \in DOMAIN nxt[n][p],
               nxt[n][p][i] = f, c = <<"nxt", n, p, i>>
        PROVE  \E k \in 1 .. Len(Line(n, p)) : Line(n, p)[k] = f /\ c = Where(n, p, k)
    <3> DEFINE a == Len(cur[n][p])
               b == Len(nxt[n][p])
               e == Len(pending[n])
               k == a + i
    <3>1. /\ a \in Nat /\ b \in Nat /\ e \in Nat
          /\ Len(Line(n, p)) = a + b + (IF p = Local THEN e ELSE 0)
      BY LineParts
    <3>2. i \in 1 .. b
      BY <1>0, <2>3
    <3>3. k \in 1 .. Len(Line(n, p)) /\ ~(k <= a) /\ k <= a + b /\ k - a = i
      <4> HIDE DEF a, b, e
      <4>1. QED
        BY <3>1, <3>2
    <3>4. Line(n, p)[k] = nxt[n][p][i]
      BY <3>3, LineParts
    <3>5. Where(n, p, k) = <<"nxt", n, p, i>>
      BY <3>3 DEF Where
    <3>6. QED
      BY <2>3, <3>3, <3>4, <3>5
  <2>4. ASSUME NEW n \in Node, NEW i \in DOMAIN got[n], got[n][i] = f, c = <<"got", n, i>>
        PROVE  i \in 1 .. Len(got[n])
    BY <1>0, <2>4
  <2>5. \/ \E i \in DOMAIN pending[f.src] : pending[f.src][i] = f /\ c = <<"pending", i>>
        \/ \E n \in Node, p \in Dir : \E i \in DOMAIN cur[n][p] :
             cur[n][p][i] = f /\ c = <<"cur", n, p, i>>
        \/ \E n \in Node, p \in Dir : \E i \in DOMAIN nxt[n][p] :
             nxt[n][p][i] = f /\ c = <<"nxt", n, p, i>>
        \/ \E n \in Node : \E i \in DOMAIN got[n] : got[n][i] = f /\ c = <<"got", n, i>>
    BY CopiesUnfold
  <2>6. QED
    BY <2>1, <2>2, <2>3, <2>4, <2>5
<1>4. QED
  BY <1>1, <1>2, <1>3

(* A flit is in one place: two copies in the lines would have to be ahead of
   each other, and one delivered has left the lines. *)
LEMMA OneCopy ==
  ASSUME TypeOK, FlowInv, NEW s \in Node, NEW x \in DOMAIN load[s]
  PROVE  Cardinality(Copies(load[s][x])) = 1
<1> DEFINE f == load[s][x]
<1>0. got \in [Node -> Seq(Flit)] /\ load[s] \in Seq(Flit)
  BY DEF FlowInv
<1>a. OnRoute
  BY DEF FlowInv
<1>b. LinesInOrder
  BY DEF FlowInv
<1>c. GotInOrder
  BY DEF FlowInv
<1>d. GotAhead
  BY DEF FlowInv
<1>1. f \in Flit /\ f.src \in Node /\ Somewhere(f)
  <2>1. x \in 1 .. Len(load[s])
    BY <1>0, LenProperties
  <2>2. QED
    BY <1>0, <2>1, ElementOfSeq DEF FlowInv, NothingLost
<1> HIDE DEF f
<1>2. ASSUME NEW n \in Node, NEW p \in Dir, NEW i \in 1 .. Len(Line(n, p)), Line(n, p)[i] = f,
             NEW m \in Node, NEW q \in Dir, NEW j \in 1 .. Len(Line(m, q)), Line(m, q)[j] = f
      PROVE  n = m /\ p = q /\ i = j
  <2>1. f.id \in Nat /\ f.dst \in Node
    BY <1>a, <1>2 DEF OnRoute, Travels
  <2>2. Hops(n, f.dst) \in Nat /\ Hops(m, f.dst) \in Nat
    BY <2>1, HopsAreNat
  <2>3. /\ Hops(n, f.dst) < Hops(m, f.dst) \/ (n = m /\ p = q /\ i <= j)
        /\ Hops(m, f.dst) < Hops(n, f.dst) \/ (m = n /\ q = p /\ j <= i)
    BY <1>b, <1>2, <2>1 DEF LinesInOrder, SamePair
  <2>4. QED
    BY <2>2, <2>3
<1>3. ASSUME NEW n \in Node, NEW i \in 1 .. Len(got[n]), got[n][i] = f,
             NEW m \in Node, NEW q \in Dir, NEW j \in 1 .. Len(Line(m, q)), Line(m, q)[j] = f
      PROVE  FALSE
  <2>1. f.id \in Nat
    BY <1>a, <1>3 DEF OnRoute, Travels
  <2>2. f.id < f.id
    BY <1>d, <1>3 DEF GotAhead, SamePair
  <2>3. QED
    BY <2>1, <2>2
<1>4. ASSUME NEW n \in Node, NEW i \in 1 .. Len(got[n]), got[n][i] = f,
             NEW m \in Node, NEW j \in 1 .. Len(got[m]), got[m][j] = f
      PROVE  n = m /\ i = j
  <2>1. n = m /\ f.id \in Nat
    BY <1>c, <1>4 DEF GotInOrder
  <2>2. ~(i < j) /\ ~(j < i)
    BY <1>c, <1>4, <2>1 DEF GotInOrder
  <2>3. QED
    BY <2>1, <2>2
<1>5. \E c : Copies(f) = {c}
  <2>1. CASE \E n \in Node, p \in Dir : \E i \in 1 .. Len(Line(n, p)) : Line(n, p)[i] = f
    <3>1. PICK n \in Node, p \in Dir : \E i \in 1 .. Len(Line(n, p)) : Line(n, p)[i] = f
      BY <2>1
    <3>2. PICK i \in 1 .. Len(Line(n, p)) : Line(n, p)[i] = f
      BY <3>1
    <3>3. Where(n, p, i) \in Copies(f)
      BY <1>0, <1>1, <1>a, <3>2, CopiesAreInLines
    <3>4. ASSUME NEW c \in Copies(f) PROVE c = Where(n, p, i)
      <4>1. \/ \E m \in Node, q \in Dir : \E k \in 1 .. Len(Line(m, q)) :
                 Line(m, q)[k] = f /\ c = Where(m, q, k)
            \/ \E m \in Node : \E k \in 1 .. Len(got[m]) : got[m][k] = f
        BY <1>0, <1>1, <1>a, CopiesAreInLines
      <4>2. QED
        BY <1>2, <1>3, <3>2, <4>1
    <3>5. QED
      BY <3>3, <3>4
  <2>2. CASE \E n \in Node : \E i \in 1 .. Len(got[n]) : got[n][i] = f
    <3>1. PICK n \in Node : \E i \in 1 .. Len(got[n]) : got[n][i] = f
      BY <2>2
    <3>2. PICK i \in 1 .. Len(got[n]) : got[n][i] = f
      BY <3>1
    <3>3. <<"got", n, i>> \in Copies(f)
      BY <1>0, <1>1, <1>a, <3>2, CopiesAreInLines
    <3>4. ASSUME NEW c \in Copies(f) PROVE c = <<"got", n, i>>
      <4>1. \/ \E m \in Node, q \in Dir : \E k \in 1 .. Len(Line(m, q)) : Line(m, q)[k] = f
            \/ \E m \in Node : \E k \in 1 .. Len(got[m]) :
                 got[m][k] = f /\ c = <<"got", m, k>>
        BY <1>0, <1>1, <1>a, CopiesAreInLines
      <4>2. QED
        BY <1>3, <1>4, <3>2, <4>1
    <3>5. QED
      BY <3>3, <3>4
  <2>3. QED
    BY <1>1, <2>1, <2>2 DEF Somewhere
<1>6. QED
  BY <1>5, FS_Singleton DEF f

(* No flit is lost and none is duplicated: at every point of every cycle, each
   flit of the load is in exactly one place. *)
THEOREM NeitherLostNorDoubled == Spec => []ExactlyOnePlace
<1>1. TypeOK /\ FlowInv => ExactlyOnePlace
  BY OneCopy DEF ExactlyOnePlace
<1>2. QED
  BY <1>1, FlowHolds, TypeCorrect, PTL

-----------------------------------------------------------------------------
(* The refinement of NocLockstep.  At each point of a cycle every variable is
   what the simultaneous step makes of it, or what it was at the start, as the
   tickable that writes it has run or not. *)

RouterRan(n)  == phase = "commit" \/ <<"router", n>> \notin todo
PeRan(n)      == phase = "commit" \/ <<"pe", n>> \notin todo
RouterDone(n) == phase = "commit" /\ <<"router", n>> \notin todo
PeDone(n)     == phase = "commit" /\ <<"pe", n>> \notin todo

StartTyped ==
  /\ start.cur \in [Node -> [Dir -> Seq(Flit)]]
  /\ start.outCredit \in [Node -> [Dir -> Nat]]
  /\ start.rrCursor \in [Node -> [Dir -> Dir]]
  /\ start.injectCredit \in [Node -> Nat]
  /\ start.eject \in [Node -> Seq(Flit)]
  /\ start.pending \in [Node -> Seq(Flit)]
  /\ start.got \in [Node -> Seq(Flit)]
  /\ got \in [Node -> Seq(Flit)]

(* What the compute of router n leaves in its port p. *)
Rest(n, p) ==
  IF Lockstep!Drops(n, p) THEN Tail(start.cur[n][p]) ELSE start.cur[n][p]

(* Whoever fills port p of node n has run. *)
Filled(n, p) ==
  IF p = Local THEN PeRan(n) ELSE has_neighbor(n, p) /\ RouterRan(step(n, p))

(* The credits router n has got back for output d so far in this cycle. *)
Returned(n, d) ==
  IF d \in Cardinal /\ has_neighbor(n, d)
  THEN IF RouterRan(step(n, d)) THEN Lockstep!One(Lockstep!Drops(step(n, d), opposite(d))) ELSE 0
  ELSE 0

Spent(n, d) ==
  IF RouterRan(n) /\ d # Local THEN Lockstep!One(Lockstep!Sends(n, d)) ELSE 0

Freed(n) == IF RouterRan(n) THEN Lockstep!One(Lockstep!Drops(n, Local)) ELSE 0

PortInStep(n, p) ==
  /\ cur[n][p] = IF RouterDone(n) THEN Rest(n, p) \o Lockstep!Arrivals(n, p)
                 ELSE IF RouterRan(n) THEN Rest(n, p) ELSE start.cur[n][p]
  /\ nxt[n][p] = IF ~RouterDone(n) /\ Filled(n, p) THEN Lockstep!Arrivals(n, p) ELSE << >>
  /\ outCredit[n][p] = (start.outCredit[n][p] - Spent(n, p))
                         + (IF RouterDone(n) THEN Returned(n, p) ELSE 0)
  /\ credInbox[n][p] = IF RouterDone(n) THEN 0 ELSE Returned(n, p)
  /\ rrCursor[n][p] = IF RouterRan(n) /\ Lockstep!Sends(n, p)
                      THEN (Lockstep!Chosen(n, p) + 1) % 5 ELSE start.rrCursor[n][p]

NodeInStep(n) ==
  /\ injectCredit[n] = (start.injectCredit[n] - (IF PeRan(n) THEN Lockstep!Batch(n) ELSE 0))
                         + (IF RouterDone(n) THEN Freed(n) ELSE 0)
  /\ peCreditReturn[n] = IF RouterDone(n) THEN 0 ELSE Freed(n)
  /\ eject[n] = IF PeDone(n) THEN Lockstep!Moved(n, Local)
                ELSE IF PeRan(n) THEN << >> ELSE start.eject[n]
  /\ ejectNxt[n] = IF RouterRan(n) /\ ~PeDone(n) THEN Lockstep!Moved(n, Local) ELSE << >>
  /\ pending[n] = IF PeRan(n)
                  THEN SubSeq(start.pending[n], Lockstep!Batch(n) + 1, Len(start.pending[n]))
                  ELSE start.pending[n]
  /\ got[n] = IF RouterRan(n) THEN start.got[n] \o Lockstep!Moved(n, Local) ELSE start.got[n]

InStep ==
  /\ StartTyped
  /\ \A n \in Node : NodeInStep(n) /\ \A p \in Dir : PortInStep(n, p)

(* A cyclic search from the cursor finds the nearest port that asks. *)
LEMMA SearchFindsNearest ==
  ASSUME NEW c \in 0 .. 4, NEW asks \in SUBSET (0 .. 4), NEW w \in asks,
         \A q \in asks : (w + 5 - c) % 5 <= (q + 5 - c) % 5
  PROVE  (c + (CHOOSE k \in 0 .. 4 : /\ (c + k) % 5 \in asks
                                     /\ \A j \in 0 .. k - 1 : (c + j) % 5 \notin asks)) % 5 = w
<1> DEFINE P(k) == /\ (c + k) % 5 \in asks
                   /\ \A j \in 0 .. k - 1 : (c + j) % 5 \notin asks
           k0 == (w + 5 - c) % 5
<1>1. \A q \in 0 .. 4 : (q + 5 - c) % 5 = IF q < c THEN q + 5 - c ELSE q - c
  OBVIOUS
<1>2. \A k \in 0 .. 4 : (c + k) % 5 = IF c + k < 5 THEN c + k ELSE c + k - 5
  OBVIOUS
<1>3. k0 \in 0 .. 4 /\ (c + k0) % 5 = w
  <2>1. w \in 0 .. 4 /\ k0 = IF w < c THEN w + 5 - c ELSE w - c
    BY <1>1
  <2>2. k0 \in 0 .. 4
    BY <2>1
  <2> HIDE DEF k0
  <2>3. QED
    BY <1>2, <2>1, <2>2
<1>4. \A j \in 0 .. k0 - 1 : (c + j) % 5 \notin asks
  <2> SUFFICES ASSUME NEW j \in 0 .. k0 - 1, (c + j) % 5 \in asks PROVE FALSE
    OBVIOUS
  <2> DEFINE q == (c + j) % 5
  <2>1. j \in 0 .. 4 /\ j < k0
    BY <1>3
  <2>2. q = IF c + j < 5 THEN c + j ELSE c + j - 5
    BY <1>2, <2>1
  <2>3. q \in 0 .. 4 /\ (q + 5 - c) % 5 = j
    <3>1. q \in 0 .. 4
      BY <2>1, <2>2
    <3> HIDE DEF q, k0
    <3>2. QED
      BY <1>1, <2>1, <2>2, <3>1
  <2>4. k0 <= (q + 5 - c) % 5
    OBVIOUS
  <2> HIDE DEF q, k0
  <2>5. QED
    BY <1>3, <2>1, <2>3, <2>4
<1>5. P(k0)
  BY <1>3, <1>4
<1>6. \A k \in 0 .. 4 : P(k) => k = k0
  <2> SUFFICES ASSUME NEW k \in 0 .. 4, P(k), k # k0 PROVE FALSE
    OBVIOUS
  <2>1. CASE k < k0
    BY <1>3, <1>4, <2>1
  <2>2. CASE k0 < k
    BY <1>3, <2>2
  <2> HIDE DEF k0
  <2>3. QED
    BY <1>3, <2>1, <2>2
<1>7. (CHOOSE k \in 0 .. 4 : P(k)) = k0
  <2> HIDE DEF P, k0
  <2>1. QED
    BY <1>3, <1>5, <1>6
<1>8. QED
  BY <1>3, <1>7

(* The abstract network lives on the same mesh. *)
LEMMA SameMesh ==
  /\ Lockstep!Dir = Dir /\ Lockstep!Cardinal = Cardinal /\ Lockstep!Node = Node
  /\ Lockstep!Local = Local
  /\ \A n, m : Lockstep!route_xy(n, m) = route_xy(n, m)
  /\ \A n, d : /\ Lockstep!has_neighbor(n, d) <=> has_neighbor(n, d)
               /\ Lockstep!step(n, d) = step(n, d)
  /\ \A d : Lockstep!opposite(d) = opposite(d)
  /\ \A b : Lockstep!One(b) = IF b THEN 1 ELSE 0
<1>1. /\ Lockstep!Dir = Dir /\ Lockstep!Cardinal = Cardinal /\ Lockstep!Node = Node
      /\ Lockstep!Local = Local
  BY DEF Lockstep!Dir, Lockstep!Cardinal, Lockstep!Node, Lockstep!Local, Lockstep!East,
         Lockstep!South, Dir, Cardinal, Node, Local, East, South
<1>2. \A n, m : Lockstep!route_xy(n, m) = route_xy(n, m)
  BY DEF Lockstep!route_xy, Lockstep!Local, Lockstep!East, Lockstep!West, Lockstep!North,
         Lockstep!South, route_xy, Local, East, West, North, South
<1>3. \A n, d : /\ Lockstep!has_neighbor(n, d) <=> has_neighbor(n, d)
                /\ Lockstep!step(n, d) = step(n, d)
  BY DEF Lockstep!has_neighbor, Lockstep!step, Lockstep!East, Lockstep!West,
         Lockstep!North, Lockstep!South, has_neighbor, step, East, West, North, South
<1>4. \A d : Lockstep!opposite(d) = opposite(d)
  BY DEF Lockstep!opposite, Lockstep!Local, Lockstep!East, Lockstep!West, Lockstep!North,
         Lockstep!South, opposite, Local, East, West, North, South
<1>5. \A b : Lockstep!One(b) = IF b THEN 1 ELSE 0
  BY DEF Lockstep!One
<1>6. QED
  BY <1>1, <1>2, <1>3, <1>4, <1>5

(* A router that has not run sees the state its cycle started from: it serves
   the ports the simultaneous step serves. *)
LEMMA SameChoice ==
  ASSUME TypeOK, NEW r \in Node, cur[r] = start.cur[r],
         rrCursor[r] = start.rrCursor[r], outCredit[r] = start.outCredit[r]
  PROVE  /\ \A o \in Dir : Lockstep!Sends(r, o) <=> o \in Granted(r)
         /\ \A o \in Granted(r) : Lockstep!Chosen(r, o) = Winner(r, o)
         /\ \A p \in Dir : Lockstep!Drops(r, p) <=> p \in Popped(r)
         /\ \A o \in Dir : Lockstep!Moved(r, o) =
              IF o \in Granted(r) THEN <<Sent(r, o)>> ELSE << >>
<1>0. RouterTypeOK /\ Dir = 0 .. 4
  BY DEF TypeOK, Dir, Local, South
<1>1. \A o \in Dir : Lockstep!Asks(r, o) = Requests(r, o)
  BY SameMesh DEF Lockstep!Asks, Requests
<1>2. \A o \in Dir : Lockstep!Sends(r, o) <=> o \in Granted(r)
  BY <1>1, SameMesh DEF Lockstep!Sends, Granted
<1>3. ASSUME NEW o \in Granted(r) PROVE Lockstep!Chosen(r, o) = Winner(r, o)
  <2> DEFINE c == rrCursor[r][o]
             asks == Requests(r, o)
             w == Winner(r, o)
  <2>1. o \in Dir /\ asks # {}
    BY DEF Granted
  <2>2. c \in 0 .. 4 /\ asks \in SUBSET (0 .. 4)
    <3>1. rrCursor[r][o] \in Dir /\ Requests(r, o) \subseteq Dir
      <4>1. o \in Dir /\ rrCursor \in [Node -> [Dir -> Dir]]
        BY <1>0, <2>1 DEF RouterTypeOK
      <4>2. Requests(r, o) \subseteq Dir
        BY DEF Requests
      <4>3. QED
        BY <4>1, <4>2
    <3>2. QED
      BY <1>0, <3>1
  <2>3. w \in asks
    BY <1>0, <2>1, WinnerAsked
  <2>4. \A q \in asks : Distance(r, o, w) <= Distance(r, o, q)
    <3>1. \E p \in asks : \A q \in asks : Distance(r, o, p) <= Distance(r, o, q)
      BY <1>0, <2>1, WinnerIsNearest
    <3>2. QED
      BY <3>1 DEF Winner
  <2>5. \A q \in asks : (w + 5 - c) % 5 <= (q + 5 - c) % 5
    BY <2>4 DEF Distance, PortCount
  <2>6. Lockstep!Chosen(r, o) =
          (c + (CHOOSE k \in 0 .. 4 : /\ (c + k) % 5 \in asks
                                      /\ \A j \in 0 .. k - 1 : (c + j) % 5 \notin asks)) % 5
    BY <1>1, <2>1, Zenon DEF Lockstep!Chosen
  <2> HIDE DEF c, asks, w
  <2>7. QED
    BY <2>2, <2>3, <2>5, <2>6, SearchFindsNearest DEF w
<1>4. \A p \in Dir : Lockstep!Drops(r, p) <=> p \in Popped(r)
  <2>1. \A o \in Granted(r) : o \in Dir
    BY DEF Granted
  <2>2. QED
    BY <1>2, <1>3, <2>1, SameMesh DEF Lockstep!Drops, Popped
<1>5. \A o \in Dir : Lockstep!Moved(r, o) = IF o \in Granted(r) THEN <<Sent(r, o)>> ELSE << >>
  BY <1>2, <1>3 DEF Lockstep!Moved, Sent
<1>6. QED
  BY <1>2, <1>3, <1>4, <1>5

(* Within a cycle the simultaneous step stays what it is. *)
LEMMA SameCycle ==
  ASSUME start' = start, NEW n
  PROVE  /\ \A o : (Lockstep!Sends(n, o))' = Lockstep!Sends(n, o)
         /\ \A o : (Lockstep!Chosen(n, o))' = Lockstep!Chosen(n, o)
         /\ \A p : (Lockstep!Drops(n, p))' = Lockstep!Drops(n, p)
         /\ \A o : (Lockstep!Moved(n, o))' = Lockstep!Moved(n, o)
         /\ \A p : (Lockstep!Arrivals(n, p))' = Lockstep!Arrivals(n, p)
         /\ (Lockstep!Batch(n))' = Lockstep!Batch(n)
         /\ \A p : Rest(n, p)' = Rest(n, p)
<1>1. \A m, o : (Lockstep!Asks(m, o))' = Lockstep!Asks(m, o)
  BY DEF Lockstep!Asks
<1>2. \A m, o : (Lockstep!Sends(m, o))' = Lockstep!Sends(m, o)
  BY <1>1 DEF Lockstep!Sends
<1>3. \A m, o : (Lockstep!Chosen(m, o))' = Lockstep!Chosen(m, o)
  BY <1>1, Zenon DEF Lockstep!Chosen
<1>4. \A m, p : (Lockstep!Drops(m, p))' = Lockstep!Drops(m, p)
  BY <1>2, <1>3 DEF Lockstep!Drops
<1>5. \A m, o : (Lockstep!Moved(m, o))' = Lockstep!Moved(m, o)
  BY <1>2, <1>3 DEF Lockstep!Moved
<1>6. \A m : (Lockstep!Batch(m))' = Lockstep!Batch(m)
  BY DEF Lockstep!Batch
<1>7. \A m, p : (Lockstep!Arrivals(m, p))' = Lockstep!Arrivals(m, p)
  BY <1>5, <1>6 DEF Lockstep!Arrivals
<1>8. \A p : Rest(n, p)' = Rest(n, p)
  BY <1>4 DEF Rest
<1>9. QED
  BY <1>2, <1>3, <1>4, <1>5, <1>6, <1>7, <1>8

LEMMA AsAtStart ==
  ASSUME TypeOK, InStep, NEW n \in Node, ~RouterRan(n)
  PROVE  /\ cur[n] = start.cur[n] /\ rrCursor[n] = start.rrCursor[n]
         /\ outCredit[n] = start.outCredit[n]
<1>1. \A p \in Dir : /\ cur[n][p] = start.cur[n][p] /\ rrCursor[n][p] = start.rrCursor[n][p]
                     /\ outCredit[n][p] = start.outCredit[n][p]
  <2> SUFFICES ASSUME NEW p \in Dir
               PROVE  /\ cur[n][p] = start.cur[n][p] /\ rrCursor[n][p] = start.rrCursor[n][p]
                      /\ outCredit[n][p] = start.outCredit[n][p]
    OBVIOUS
  <2>1. PortInStep(n, p) /\ ~RouterDone(n) /\ Spent(n, p) = 0
    BY DEF InStep, RouterRan, RouterDone, Spent
  <2>2. start.outCredit[n][p] \in Nat
    BY DEF InStep, StartTyped
  <2>3. QED
    BY <2>1, <2>2 DEF PortInStep
<1>2. /\ cur[n] \in [Dir -> Seq(Flit)] /\ start.cur[n] \in [Dir -> Seq(Flit)]
      /\ rrCursor[n] \in [Dir -> Dir] /\ start.rrCursor[n] \in [Dir -> Dir]
      /\ outCredit[n] \in [Dir -> Nat] /\ start.outCredit[n] \in [Dir -> Nat]
  BY DEF TypeOK, RouterTypeOK, InStep, StartTyped
<1>3. QED
  BY <1>1, <1>2

(* The injection of a PE. *)
LEMMA PeComputeInStep ==
  ASSUME TypeOK, InStep, NEW n \in Node, PeCompute(n)
  PROVE  InStep'
<1> DEFINE k == IF injectCredit[n] < Len(pending[n])
                THEN injectCredit[n] ELSE Len(pending[n])
           sent == SubSeq(pending[n], 1, k)
<1>1. /\ start' = start /\ got' = got
      /\ UNCHANGED <<cur, outCredit, credInbox, rrCursor, peCreditReturn, ejectNxt>>
      /\ eject' = [eject EXCEPT ![n] = << >>]
      /\ nxt' = [nxt EXCEPT ![n][Local] = nxt[n][Local] \o sent]
      /\ injectCredit' = [injectCredit EXCEPT ![n] = injectCredit[n] - Len(sent)]
      /\ pending' = [pending EXCEPT ![n] = SubSeq(pending[n], k + 1, Len(pending[n]))]
  BY DEF PeCompute, Take, DrainAndInject, Drained
<1>2. /\ phase = "compute" /\ phase' = "compute"
      /\ <<"pe", n>> \in todo /\ todo' = todo \ {<<"pe", n>>}
  BY DEF PeCompute, Take
<1>3. \A m \in Node : /\ RouterRan(m)' <=> RouterRan(m)
                      /\ PeRan(m)' <=> m = n \/ PeRan(m)
                      /\ ~RouterDone(m) /\ ~RouterDone(m)'
                      /\ ~PeDone(m) /\ ~PeDone(m)'
  BY <1>2 DEF RouterRan, PeRan, RouterDone, PeDone
<1>4. ~PeRan(n)
  BY <1>2 DEF PeRan
<1>5. /\ nxt[n][Local] = << >> /\ injectCredit[n] = start.injectCredit[n]
      /\ pending[n] = start.pending[n]
  <2>1. Local \in Dir /\ start.injectCredit[n] \in Nat
    BY DEF Dir, Local, South, InStep, StartTyped
  <2>2. NodeInStep(n) /\ PortInStep(n, Local) /\ ~Filled(n, Local)
    BY <1>4, <2>1 DEF InStep, Filled
  <2>3. QED
    BY <1>3, <1>4, <2>1, <2>2 DEF NodeInStep, PortInStep
<1>6. /\ k = Lockstep!Batch(n) /\ sent = Lockstep!Arrivals(n, Local)
      /\ Len(sent) = k /\ k \in Nat /\ sent \in Seq(Flit)
  <2>1. k = Lockstep!Batch(n)
    BY <1>5 DEF Lockstep!Batch
  <2>2. sent = Lockstep!Arrivals(n, Local)
    BY <1>5, <2>1, SameMesh DEF Lockstep!Arrivals
  <2>3. /\ pending[n] \in Seq(Flit) /\ Len(pending[n]) \in Nat /\ injectCredit[n] \in Nat
        /\ sent \in Seq(Flit)
    BY LenProperties, BatchIsSeq DEF TypeOK, RouterTypeOK
  <2>4. k \in 0 .. Len(pending[n])
    BY <2>3
  <2> HIDE DEF k
  <2>5. Len(SubSeq(pending[n], 1, k)) = k
    <3>1. \A i \in 1 .. k : i \in 1 .. Len(pending[n])
      BY <2>3, <2>4
    <3>2. QED
      BY <2>3, <2>4, <3>1, SubSeqProperties
  <2>6. QED
    BY <2>1, <2>2, <2>3, <2>4, <2>5
<1>7. ASSUME NEW m \in Node PROVE NodeInStep(m)'
  <2>1. NodeInStep(m)
    BY DEF InStep
  <2>2. /\ eject'[m] = IF m = n THEN << >> ELSE eject[m]
        /\ injectCredit'[m] = IF m = n THEN injectCredit[n] - k ELSE injectCredit[m]
        /\ pending'[m] = IF m = n THEN SubSeq(pending[n], k + 1, Len(pending[n])) ELSE pending[m]
    BY <1>1, <1>6 DEF TypeOK, RouterTypeOK
  <2>3. /\ (Lockstep!Batch(m))' = Lockstep!Batch(m) /\ Freed(m)' = Freed(m)
        /\ (Lockstep!Moved(m, Local))' = Lockstep!Moved(m, Local)
    BY <1>1, <1>3, SameCycle, SameMesh DEF Freed
  <2>4. start.injectCredit[m] \in Nat /\ Lockstep!Batch(n) \in Nat
    BY <1>6 DEF InStep, StartTyped
  <2> HIDE DEF k
  <2>5. CASE m = n
    <3>1. PeRan(m)' /\ ~PeDone(m)' /\ ~RouterDone(m)' /\ (RouterRan(m)' <=> RouterRan(m))
      BY <1>3, <2>5
    <3>2. injectCredit'[m] = (start'.injectCredit[m] - (Lockstep!Batch(m))') + 0
      BY <1>1, <1>5, <1>6, <2>2, <2>3, <2>4, <2>5
    <3>3. pending'[m] = SubSeq(start'.pending[m], (Lockstep!Batch(m))' + 1, Len(start'.pending[m]))
      BY <1>1, <1>5, <1>6, <2>2, <2>3, <2>5
    <3>4. eject'[m] = << >>
      BY <2>2, <2>5
    <3>5. /\ peCreditReturn'[m] = Freed(m)' /\ got'[m] = got[m]
          /\ ejectNxt'[m] = ejectNxt[m]
      BY <1>1, <1>3, <2>1, <2>3 DEF NodeInStep
    <3>6. /\ ejectNxt'[m] = IF RouterRan(m)' THEN (Lockstep!Moved(m, Local))' ELSE << >>
          /\ got'[m] = IF RouterRan(m)' THEN start'.got[m] \o (Lockstep!Moved(m, Local))'
                       ELSE start'.got[m]
      BY <1>1, <1>3, <2>1, <2>3, <3>5 DEF NodeInStep
    <3>7. QED
      BY <3>1, <3>2, <3>3, <3>4, <3>5, <3>6 DEF NodeInStep
  <2>6. CASE m # n
    BY <1>1, <1>3, <2>1, <2>2, <2>3, <2>6 DEF NodeInStep
  <2>7. QED
    BY <2>5, <2>6
<1>8. ASSUME NEW m \in Node, NEW p \in Dir PROVE PortInStep(m, p)'
  <2>1. PortInStep(m, p)
    BY DEF InStep
  <2>2. /\ (Lockstep!Arrivals(m, p))' = Lockstep!Arrivals(m, p) /\ Rest(m, p)' = Rest(m, p)
        /\ (Lockstep!Sends(m, p))' = Lockstep!Sends(m, p)
        /\ (Lockstep!Chosen(m, p))' = Lockstep!Chosen(m, p)
    BY <1>1, SameCycle
  <2>3. Spent(m, p)' = Spent(m, p) /\ Returned(m, p)' = Returned(m, p)
    <3>1. p \in Cardinal /\ has_neighbor(m, p) => step(m, p) \in Node
      BY StepBack
    <3>2. Spent(m, p)' = Spent(m, p)
      BY <1>3, <2>2, SameMesh DEF Spent
    <3>3. QED
      BY <1>1, <1>3, <3>1, <3>2, SameCycle, SameMesh DEF Returned
  <2>4. Filled(m, p)' <=> (m = n /\ p = Local) \/ Filled(m, p)
    <3>1. p # Local /\ has_neighbor(m, p) => step(m, p) \in Node
      BY StepBack DEF Dir, Cardinal, Local, East
    <3>2. QED
      BY <1>3, <3>1 DEF Filled
  <2>5. /\ cur'[m][p] = cur[m][p]
        /\ nxt'[m][p] = IF m = n /\ p = Local THEN nxt[n][Local] \o sent ELSE nxt[m][p]
        /\ outCredit'[m][p] = outCredit[m][p] /\ credInbox'[m][p] = credInbox[m][p]
        /\ rrCursor'[m][p] = rrCursor[m][p]
    BY <1>1 DEF TypeOK, RouterTypeOK
  <2>6. nxt[n][Local] \o sent = sent
    BY <1>5, <1>6, ConcatEmptySeq
  <2>7. nxt'[m][p] = IF ~RouterDone(m)' /\ Filled(m, p)' THEN (Lockstep!Arrivals(m, p))' ELSE << >>
    BY <1>3, <1>6, <2>1, <2>2, <2>4, <2>5, <2>6 DEF PortInStep
  <2>8. QED
    BY <1>1, <1>3, <2>1, <2>2, <2>3, <2>5, <2>7 DEF PortInStep
<1>9. StartTyped'
  BY <1>1 DEF InStep, StartTyped
<1>10. QED
  BY <1>7, <1>8, <1>9 DEF InStep, Node, Dir

(* The hop of a router. *)
LEMMA RouterComputeInStep ==
  ASSUME TypeOK, InStep, NEW r \in Node, RouterCompute(r)
  PROVE  InStep'
<1>0. RouterTypeOK
  BY DEF TypeOK
<1>1. /\ start' = start /\ pending' = pending /\ eject' = eject
      /\ injectCredit' = injectCredit /\ Compute(r)
      /\ got' = IF Local \in Granted(r)
                THEN [got EXCEPT ![r] = Append(got[r], Sent(r, Local))] ELSE got
  BY DEF RouterCompute, Take, Compute
<1>2. /\ phase = "compute" /\ phase' = "compute"
      /\ <<"router", r>> \in todo /\ todo' = todo \ {<<"router", r>>}
  BY DEF RouterCompute, Take
<1>3. \A m \in Node : /\ RouterRan(m)' <=> m = r \/ RouterRan(m)
                      /\ PeRan(m)' <=> PeRan(m)
                      /\ ~RouterDone(m) /\ ~RouterDone(m)'
                      /\ ~PeDone(m) /\ ~PeDone(m)'
  BY <1>2 DEF RouterRan, PeRan, RouterDone, PeDone
<1>4. ~RouterRan(r)
  BY <1>2 DEF RouterRan
<1>5. /\ cur[r] = start.cur[r] /\ rrCursor[r] = start.rrCursor[r]
      /\ outCredit[r] = start.outCredit[r]
  BY <1>4, AsAtStart
<1>6. /\ \A o \in Dir : Lockstep!Sends(r, o) <=> o \in Granted(r)
      /\ \A o \in Granted(r) : Lockstep!Chosen(r, o) = Winner(r, o)
      /\ \A p \in Dir : Lockstep!Drops(r, p) <=> p \in Popped(r)
      /\ \A o \in Dir : Lockstep!Moved(r, o) =
           IF o \in Granted(r) THEN <<Sent(r, o)>> ELSE << >>
  BY <1>5, SameChoice
<1>7. /\ Local \in Dir
      /\ \A p \in Cardinal : p \in Dir /\ opposite(p) \in Dir
  BY OppositeIsDir DEF Dir, Cardinal, Local, East, South
<1>8. ASSUME NEW m \in Node PROVE NodeInStep(m)'
  <2>1. NodeInStep(m)
    BY DEF InStep
  <2>2. /\ (Lockstep!Batch(m))' = Lockstep!Batch(m)
        /\ (Lockstep!Moved(m, Local))' = Lockstep!Moved(m, Local)
        /\ (Lockstep!Drops(m, Local))' = Lockstep!Drops(m, Local)
    BY <1>1, SameCycle
  <2>3. /\ peCreditReturn'[m] = IF m = r /\ LocalFreed(r) THEN peCreditReturn[m] + 1
                                ELSE peCreditReturn[m]
        /\ ejectNxt'[m] = IF m = r /\ Local \in Granted(r)
                          THEN Append(ejectNxt[r], Sent(r, Local)) ELSE ejectNxt[m]
        /\ got'[m] = IF m = r /\ Local \in Granted(r)
                     THEN Append(got[r], Sent(r, Local)) ELSE got[m]
    BY <1>0, <1>1 DEF Compute, RouterTypeOK, InStep, StartTyped
  <2>4. CASE m = r
    <3>1. /\ peCreditReturn[r] = 0 /\ ejectNxt[r] = << >> /\ got[r] = start.got[r]
          /\ Freed(r) = 0
      BY <1>3, <1>4, <2>1, <2>4 DEF NodeInStep, Freed
    <3>2. peCreditReturn'[r] = Freed(r)'
      BY <1>3, <1>6, <1>7, <2>2, <2>3, <2>4, <3>1, SameMesh DEF LocalFreed, Freed
    <3>3. /\ ejectNxt'[r] = Lockstep!Moved(r, Local)
          /\ got'[r] = start.got[r] \o Lockstep!Moved(r, Local)
      <4>1. start.got[r] \in Seq(Flit) /\ got[r] \in Seq(Flit)
        BY DEF InStep, StartTyped
      <4> DEFINE g == start.got[r]
                 h == got[r]
      <4>2. g \o << >> = g
        <5> HIDE DEF g
        <5>1. QED
          BY <4>1, ConcatEmptySeq DEF g
      <4>3. CASE Local \in Granted(r)
        <5>1. Sent(r, Local) \in Flit
          BY <1>0, <4>3, SentIsFlit
        <5>2. Append(<< >>, Sent(r, Local)) = <<Sent(r, Local)>>
          BY <5>1
        <5>3. Append(h, Sent(r, Local)) = h \o <<Sent(r, Local)>>
          <6>1. h \in Seq(Flit)
            BY <4>1
          <6> HIDE DEF h
          <6>2. QED
            BY <5>1, <6>1, AppendIsConcat
        <5>4. Lockstep!Moved(r, Local) = <<Sent(r, Local)>>
          BY <1>6, <1>7, <4>3
        <5>5. ejectNxt'[r] = Append(<< >>, Sent(r, Local)) /\ got'[r] = Append(h, Sent(r, Local))
          BY <2>3, <2>4, <3>1, <4>3
        <5>6. QED
          BY <3>1, <5>2, <5>3, <5>4, <5>5
      <4>4. CASE Local \notin Granted(r)
        <5>1. Lockstep!Moved(r, Local) = << >>
          BY <1>6, <1>7, <4>4
        <5>2. ejectNxt'[r] = << >> /\ got'[r] = g
          BY <2>3, <2>4, <3>1, <4>4
        <5>3. QED
          BY <4>2, <5>1, <5>2
      <4>5. QED
        BY <4>3, <4>4
    <3>4. /\ injectCredit'[r] = (start'.injectCredit[r]
                                   - (IF PeRan(r)' THEN (Lockstep!Batch(r))' ELSE 0)) + 0
          /\ eject'[r] = IF PeRan(r)' THEN << >> ELSE start'.eject[r]
          /\ pending'[r] = IF PeRan(r)'
                           THEN SubSeq(start'.pending[r], (Lockstep!Batch(r))' + 1,
                                       Len(start'.pending[r]))
                           ELSE start'.pending[r]
      BY <1>1, <1>3, <2>1, <2>2, <2>4 DEF NodeInStep
    <3>5. QED
      BY <1>1, <1>3, <2>2, <2>4, <3>2, <3>3, <3>4 DEF NodeInStep
  <2>5. CASE m # r
    <3>1. Freed(m)' = Freed(m)
      BY <1>3, <2>2, <2>5, SameMesh DEF Freed
    <3>2. QED
      BY <1>1, <1>3, <2>1, <2>2, <2>3, <2>5, <3>1 DEF NodeInStep
  <2>6. QED
    BY <2>4, <2>5
<1>9. ASSUME NEW m \in Node, NEW p \in Dir PROVE PortInStep(m, p)'
  <2>1. PortInStep(m, p)
    BY DEF InStep
  <2>2. /\ (Lockstep!Arrivals(m, p))' = Lockstep!Arrivals(m, p) /\ Rest(m, p)' = Rest(m, p)
        /\ (Lockstep!Sends(m, p))' = Lockstep!Sends(m, p)
        /\ (Lockstep!Chosen(m, p))' = Lockstep!Chosen(m, p)
    BY <1>1, SameCycle
  <2>3. /\ cur'[m][p] = IF m = r /\ p \in Popped(r) THEN Tail(cur[r][p]) ELSE cur[m][p]
        /\ nxt'[m][p] = IF Faces(m, p, r) /\ opposite(p) \in Granted(r)
                        THEN Append(nxt[m][p], Sent(r, opposite(p))) ELSE nxt[m][p]
        /\ outCredit'[m][p] = IF m = r /\ p \in Granted(r) \ {Local}
                              THEN outCredit[m][p] - 1 ELSE outCredit[m][p]
        /\ credInbox'[m][p] = IF Faces(m, p, r) /\ opposite(p) \in Popped(r)
                              THEN credInbox[m][p] + 1 ELSE credInbox[m][p]
        /\ rrCursor'[m][p] = IF m = r /\ p \in Granted(r)
                             THEN NextCursor(Winner(r, p)) ELSE rrCursor[m][p]
    BY <1>0, <1>1 DEF Compute, RouterTypeOK
  <2>4. cur'[m][p] = IF RouterRan(m)' THEN Rest(m, p)' ELSE start'.cur[m][p]
    <3>1. CASE m = r
      BY <1>1, <1>3, <1>5, <1>6, <2>2, <2>3, <3>1 DEF Rest
    <3>2. CASE m # r
      BY <1>1, <1>3, <2>1, <2>2, <2>3, <3>2 DEF PortInStep
    <3>3. QED
      BY <3>1, <3>2
  <2>5. rrCursor'[m][p] = IF RouterRan(m)' /\ (Lockstep!Sends(m, p))'
                          THEN ((Lockstep!Chosen(m, p))' + 1) % 5 ELSE start'.rrCursor[m][p]
    <3>1. CASE m = r
      BY <1>1, <1>3, <1>5, <1>6, <2>2, <2>3, <3>1 DEF NextCursor, PortCount
    <3>2. CASE m # r
      BY <1>1, <1>3, <2>1, <2>2, <2>3, <3>2 DEF PortInStep
    <3>3. QED
      BY <3>1, <3>2
  <2>6. outCredit'[m][p] = start'.outCredit[m][p] - Spent(m, p)'
    <3>1. CASE m = r
      <4>1. outCredit[m][p] = start.outCredit[m][p] /\ start.outCredit[m][p] \in Nat
        BY <1>5, <3>1 DEF InStep, StartTyped
      <4>2. Spent(m, p)' = IF p \in Granted(r) \ {Local} THEN 1 ELSE 0
        BY <1>3, <1>6, <2>2, <3>1, SameMesh DEF Spent
      <4>3. QED
        BY <1>1, <2>3, <3>1, <4>1, <4>2
    <3>2. CASE m # r
      <4>1. Spent(m, p)' = Spent(m, p)
        BY <1>3, <2>2, <3>2, SameMesh DEF Spent
      <4>2. outCredit'[m][p] = outCredit[m][p] /\ outCredit[m][p] \in Nat
        BY <1>0, <2>3, <3>2 DEF RouterTypeOK
      <4>3. start.outCredit[m][p] \in Nat /\ (Spent(m, p) = 0 \/ Spent(m, p) = 1)
        BY SameMesh DEF InStep, StartTyped, Spent
      <4>4. outCredit[m][p] = (start.outCredit[m][p] - Spent(m, p)) + 0
        BY <1>3, <2>1 DEF PortInStep
      <4>5. QED
        BY <1>1, <4>1, <4>2, <4>3, <4>4
    <3>3. QED
      BY <3>1, <3>2
  <2>0. (start'.outCredit[m][p] - Spent(m, p)') + 0 = start'.outCredit[m][p] - Spent(m, p)'
    <3>1. start'.outCredit[m][p] \in Nat /\ Spent(m, p)' \in {0, 1}
      BY <1>1, SameMesh DEF InStep, StartTyped, Spent
    <3>2. QED
      BY <3>1
  <2>7. CASE Faces(m, p, r)
    <3>1. /\ p \in Cardinal /\ p # Local /\ has_neighbor(m, p) /\ step(m, p) = r
          /\ opposite(p) \in Dir
      BY <1>7, <2>7 DEF Faces, Cardinal, Local, East
    <3>2. /\ ~Filled(m, p) /\ Filled(m, p)' /\ Returned(m, p) = 0
          /\ Returned(m, p)' = IF opposite(p) \in Popped(r) THEN 1 ELSE 0
      BY <1>1, <1>3, <1>4, <1>6, <3>1, SameMesh, SameCycle DEF Filled, Returned
    <3>3. nxt[m][p] = << >> /\ credInbox[m][p] = 0
      BY <1>3, <2>1, <3>2 DEF PortInStep
    <3>4. Lockstep!Arrivals(m, p) = Lockstep!Moved(r, opposite(p))
      BY <3>1, SameMesh DEF Lockstep!Arrivals
    <3>5. nxt'[m][p] = Lockstep!Arrivals(m, p)
      <4>1. CASE opposite(p) \in Granted(r)
        <5>1. Sent(r, opposite(p)) \in Flit
          BY <1>0, <4>1, SentIsFlit
        <5>2. Append(<< >>, Sent(r, opposite(p))) = <<Sent(r, opposite(p))>>
          BY <5>1
        <5>3. QED
          BY <1>6, <2>3, <2>7, <3>1, <3>3, <3>4, <4>1, <5>2
      <4>2. CASE opposite(p) \notin Granted(r)
        BY <1>6, <2>3, <3>1, <3>3, <3>4, <4>2
      <4>3. QED
        BY <4>1, <4>2
    <3>6. credInbox'[m][p] = Returned(m, p)'
      BY <2>3, <2>7, <3>2, <3>3
    <3>7. QED
      BY <1>3, <2>0, <2>2, <2>4, <2>5, <2>6, <3>2, <3>5, <3>6 DEF PortInStep
  <2>8. CASE ~Faces(m, p, r)
    <3>1. /\ p # Local /\ has_neighbor(m, p) => step(m, p) \in Node /\ step(m, p) # r
          /\ p \in Cardinal /\ has_neighbor(m, p) => step(m, p) \in Node /\ step(m, p) # r
      BY <2>8, StepBack DEF Faces, Dir, Cardinal, Local, East
    <3>2. Filled(m, p)' <=> Filled(m, p)
      BY <1>3, <3>1 DEF Filled
    <3>3. Returned(m, p)' = Returned(m, p)
      BY <1>1, <1>3, <3>1, SameCycle, SameMesh DEF Returned
    <3>4. nxt'[m][p] = IF Filled(m, p)' THEN (Lockstep!Arrivals(m, p))' ELSE << >>
      BY <1>3, <2>1, <2>2, <2>3, <2>8, <3>2 DEF PortInStep
    <3>5. credInbox'[m][p] = Returned(m, p)'
      BY <1>3, <2>1, <2>3, <2>8, <3>3 DEF PortInStep
    <3>6. QED
      BY <1>3, <2>0, <2>2, <2>4, <2>5, <2>6, <3>4, <3>5 DEF PortInStep
  <2>9. QED
    BY <2>7, <2>8
<1>10. StartTyped'
  <2>1. Local \in Granted(r) => Append(got[r], Sent(r, Local)) \in Seq(Flit)
    BY <1>0, SentIsFlit, AppendProperties DEF InStep, StartTyped
  <2>2. QED
    BY <1>1, <2>1 DEF InStep, StartTyped
<1>11. QED
  BY <1>8, <1>9, <1>10 DEF InStep

(* The commit of a PE. *)
LEMMA PeCommitInStep ==
  ASSUME TypeOK, InStep, NEW n \in Node, PeCommit(n)
  PROVE  InStep'
<1>1. /\ start' = start /\ pending' = pending /\ got' = got
      /\ UNCHANGED <<cur, nxt, outCredit, credInbox, rrCursor, injectCredit, peCreditReturn>>
      /\ eject' = [eject EXCEPT ![n] = eject[n] \o ejectNxt[n]]
      /\ ejectNxt' = [ejectNxt EXCEPT ![n] = << >>]
  BY DEF PeCommit, Take, CommitEject, Merge
<1>2. /\ phase = "commit" /\ phase' = "commit"
      /\ <<"pe", n>> \in todo /\ todo' = todo \ {<<"pe", n>>}
  BY DEF PeCommit, Take
<1>3. \A m \in Node : /\ RouterRan(m) /\ RouterRan(m)' /\ PeRan(m) /\ PeRan(m)'
                      /\ RouterDone(m)' <=> RouterDone(m)
                      /\ PeDone(m)' <=> m = n \/ PeDone(m)
  BY <1>2 DEF RouterRan, PeRan, RouterDone, PeDone
<1>4. ~PeDone(n)
  BY <1>2 DEF PeDone
<1>5. ASSUME NEW m \in Node PROVE NodeInStep(m)'
  <2>1. NodeInStep(m)
    BY DEF InStep
  <2>2. /\ (Lockstep!Batch(m))' = Lockstep!Batch(m)
        /\ (Lockstep!Moved(m, Local))' = Lockstep!Moved(m, Local)
        /\ Freed(m)' = Freed(m)
    BY <1>1, <1>3, SameCycle, SameMesh DEF Freed
  <2>3. /\ eject'[m] = IF m = n THEN eject[n] \o ejectNxt[n] ELSE eject[m]
        /\ ejectNxt'[m] = IF m = n THEN << >> ELSE ejectNxt[m]
        /\ ejectNxt[m] \in Seq(Flit)
    BY <1>1 DEF TypeOK, RouterTypeOK
  <2>4. m = n => eject[n] \o ejectNxt[n] = Lockstep!Moved(n, Local)
    <3>1. SUFFICES ASSUME m = n PROVE eject[n] \o ejectNxt[n] = Lockstep!Moved(n, Local)
      OBVIOUS
    <3>2. eject[n] = << >> /\ ejectNxt[n] = Lockstep!Moved(n, Local)
      BY <1>3, <1>4, <2>1, <3>1 DEF NodeInStep
    <3> DEFINE s == ejectNxt[n]
    <3>3. s \in Seq(Flit)
      BY <2>3, <3>1
    <3>4. << >> \o s = s
      <4> HIDE DEF s
      <4>1. QED
        BY <3>3, ConcatEmptySeq
    <3>5. QED
      BY <3>2, <3>4
  <2>5. QED
    BY <1>1, <1>3, <1>4, <2>1, <2>2, <2>3, <2>4 DEF NodeInStep
<1>6. ASSUME NEW m \in Node, NEW p \in Dir PROVE PortInStep(m, p)'
  <2>1. PortInStep(m, p)
    BY DEF InStep
  <2>2. /\ (Lockstep!Arrivals(m, p))' = Lockstep!Arrivals(m, p) /\ Rest(m, p)' = Rest(m, p)
        /\ (Lockstep!Sends(m, p))' = Lockstep!Sends(m, p)
        /\ (Lockstep!Chosen(m, p))' = Lockstep!Chosen(m, p)
    BY <1>1, SameCycle
  <2>3. (p = Local \/ p \in Cardinal) /\ (p \in Cardinal /\ has_neighbor(m, p) => step(m, p) \in Node)
    BY StepBack DEF Dir, Cardinal, Local, East
  <2>4. /\ Filled(m, p)' <=> Filled(m, p)
        /\ Returned(m, p)' = Returned(m, p)
        /\ Spent(m, p)' = Spent(m, p)
    <3>1. Filled(m, p)' <=> Filled(m, p)
      BY <1>3, <2>3 DEF Filled
    <3>2. Returned(m, p)' = Returned(m, p)
      BY <1>1, <1>3, <2>3, SameCycle, SameMesh DEF Returned
    <3>3. Spent(m, p)' = Spent(m, p)
      BY <1>3, <2>2, SameMesh DEF Spent
    <3>4. QED
      BY <3>1, <3>2, <3>3
  <2>5. QED
    BY <1>1, <1>3, <2>1, <2>2, <2>4 DEF PortInStep
<1>7. StartTyped'
  BY <1>1 DEF InStep, StartTyped
<1>8. QED
  BY <1>5, <1>6, <1>7 DEF InStep

(* The commit of a router. *)
LEMMA RouterCommitInStep ==
  ASSUME TypeOK, InStep, NEW r \in Node, RouterCommit(r)
  PROVE  InStep'
<1>1. /\ start' = start /\ pending' = pending /\ got' = got
      /\ UNCHANGED <<rrCursor, eject, ejectNxt>> /\ Commit(r)
  BY DEF RouterCommit, Take, Commit
<1>2. /\ phase = "commit" /\ phase' = "commit"
      /\ <<"router", r>> \in todo /\ todo' = todo \ {<<"router", r>>}
  BY DEF RouterCommit, Take
<1>3. \A m \in Node : /\ RouterRan(m) /\ RouterRan(m)' /\ PeRan(m) /\ PeRan(m)'
                      /\ RouterDone(m)' <=> m = r \/ RouterDone(m)
                      /\ PeDone(m)' <=> PeDone(m)
  BY <1>2 DEF RouterRan, PeRan, RouterDone, PeDone
<1>4. ~RouterDone(r)
  BY <1>2 DEF RouterDone
<1>5. ASSUME NEW m \in Node PROVE NodeInStep(m)'
  <2>1. NodeInStep(m)
    BY DEF InStep
  <2>2. /\ (Lockstep!Batch(m))' = Lockstep!Batch(m)
        /\ (Lockstep!Moved(m, Local))' = Lockstep!Moved(m, Local)
        /\ Freed(m)' = Freed(m)
    BY <1>1, <1>3, SameCycle, SameMesh DEF Freed
  <2>3. /\ injectCredit'[m] = IF m = r THEN injectCredit[m] + peCreditReturn[m] ELSE injectCredit[m]
        /\ peCreditReturn'[m] = IF m = r THEN 0 ELSE peCreditReturn[m]
    BY <1>1 DEF Commit, TypeOK, RouterTypeOK
  <2>4. m = r => injectCredit'[m] = (start'.injectCredit[m] - (Lockstep!Batch(m))') + Freed(m)'
    <3>1. SUFFICES ASSUME m = r
                   PROVE  injectCredit'[m] = (start'.injectCredit[m] - (Lockstep!Batch(m))') + Freed(m)'
      OBVIOUS
    <3> DEFINE a == start.injectCredit[m] - Lockstep!Batch(m)
    <3>2. injectCredit[m] = a + 0 /\ peCreditReturn[m] = Freed(m)
      BY <1>3, <1>4, <2>1, <3>1 DEF NodeInStep
    <3>3. Lockstep!Batch(m) \in Int /\ start.injectCredit[m] \in Nat
      <4>1. Len(start.pending[m]) \in Nat /\ start.injectCredit[m] \in Nat
        BY LenProperties DEF InStep, StartTyped
      <4>2. QED
        BY <4>1 DEF Lockstep!Batch
    <3>4. a \in Int
      BY <3>3
    <3> HIDE DEF a
    <3>5. injectCredit'[m] = a + Freed(m)
      BY <2>3, <3>1, <3>2, <3>4
    <3>6. QED
      BY <1>1, <2>2, <3>5 DEF a
  <2>5. QED
    BY <1>1, <1>3, <1>4, <2>1, <2>2, <2>3, <2>4 DEF NodeInStep
<1>6. ASSUME NEW m \in Node, NEW p \in Dir PROVE PortInStep(m, p)'
  <2>1. PortInStep(m, p)
    BY DEF InStep
  <2>2. /\ (Lockstep!Arrivals(m, p))' = Lockstep!Arrivals(m, p) /\ Rest(m, p)' = Rest(m, p)
        /\ (Lockstep!Sends(m, p))' = Lockstep!Sends(m, p)
        /\ (Lockstep!Chosen(m, p))' = Lockstep!Chosen(m, p)
    BY <1>1, SameCycle
  <2>3. /\ p = Local \/ p \in Cardinal
        /\ p = Local => p \notin Cardinal
        /\ p \in Cardinal /\ has_neighbor(m, p) => step(m, p) \in Node
    BY StepBack DEF Dir, Cardinal, Local, East
  <2>4. /\ Filled(m, p)' <=> Filled(m, p)
        /\ Returned(m, p)' = Returned(m, p)
        /\ Spent(m, p)' = Spent(m, p)
    <3>1. Filled(m, p)' <=> Filled(m, p)
      BY <1>3, <2>3 DEF Filled
    <3>2. Returned(m, p)' = Returned(m, p)
      BY <1>1, <1>3, <2>3, SameCycle, SameMesh DEF Returned
    <3>3. Spent(m, p)' = Spent(m, p)
      BY <1>3, <2>2, SameMesh DEF Spent
    <3>4. QED
      BY <3>1, <3>2, <3>3
  <2>5. /\ cur'[m][p] = IF m = r THEN cur[m][p] \o nxt[m][p] ELSE cur[m][p]
        /\ nxt'[m][p] = IF m = r THEN << >> ELSE nxt[m][p]
        /\ outCredit'[m][p] = IF m = r THEN outCredit[m][p] + credInbox[m][p] ELSE outCredit[m][p]
        /\ credInbox'[m][p] = IF m = r THEN 0 ELSE credInbox[m][p]
    BY <1>1 DEF Commit, Merge, TypeOK, RouterTypeOK
  <2>6. CASE m # r
    BY <1>1, <1>3, <2>1, <2>2, <2>4, <2>5, <2>6 DEF PortInStep
  <2>7. CASE m = r
    <3>1. nxt[m][p] = Lockstep!Arrivals(m, p)
      <4>1. CASE Filled(m, p)
        BY <1>4, <2>1, <2>7, <4>1 DEF PortInStep
      <4>2. CASE ~Filled(m, p)
        <5>1. p # Local /\ ~has_neighbor(m, p)
          BY <1>3, <2>3, <4>2 DEF Filled
        <5>2. Lockstep!Arrivals(m, p) = << >>
          BY <5>1, SameMesh DEF Lockstep!Arrivals
        <5>3. QED
          BY <2>1, <4>2, <5>2 DEF PortInStep
      <4>3. QED
        BY <4>1, <4>2
    <3>2. cur'[m][p] = Rest(m, p) \o Lockstep!Arrivals(m, p)
      BY <1>3, <1>4, <2>1, <2>5, <2>7, <3>1 DEF PortInStep
    <3>3. outCredit'[m][p] = (start.outCredit[m][p] - Spent(m, p)) + Returned(m, p)
      <4>1. /\ outCredit[m][p] = (start.outCredit[m][p] - Spent(m, p)) + 0
            /\ credInbox[m][p] = Returned(m, p)
        BY <1>4, <2>1, <2>7 DEF PortInStep
      <4>2. start.outCredit[m][p] \in Nat /\ Spent(m, p) \in {0, 1}
        BY SameMesh DEF InStep, StartTyped, Spent
      <4>3. QED
        BY <2>5, <2>7, <4>1, <4>2
    <3>4. QED
      BY <1>1, <1>3, <2>1, <2>2, <2>4, <2>5, <2>7, <3>2, <3>3 DEF PortInStep
  <2>8. QED
    BY <2>6, <2>7
<1>7. StartTyped'
  BY <1>1 DEF InStep, StartTyped
<1>8. QED
  BY <1>5, <1>6, <1>7 DEF InStep

(* At the start of a cycle nothing is staged and nothing has run. *)
Fresh ==
  /\ TypeOK /\ got \in [Node -> Seq(Flit)]
  /\ phase = "compute" /\ todo = Tickable /\ start = Snapshot
  /\ \A n \in Node : ~Staged(n) /\ ejectNxt[n] = << >>

LEMMA FreshInStep == Fresh => InStep
<1> SUFFICES ASSUME Fresh PROVE InStep
  OBVIOUS
<1>1. \A n \in Node : ~RouterRan(n) /\ ~PeRan(n) /\ ~RouterDone(n) /\ ~PeDone(n)
  BY TickableParts DEF Fresh, RouterRan, PeRan, RouterDone, PeDone
<1>2. /\ start.cur = cur /\ start.outCredit = outCredit /\ start.rrCursor = rrCursor
      /\ start.injectCredit = injectCredit /\ start.eject = eject
      /\ start.pending = pending /\ start.got = got
  BY DEF Fresh, Snapshot
<1>3. ASSUME NEW n \in Node PROVE NodeInStep(n)
  <2>1. /\ peCreditReturn[n] = 0 /\ ejectNxt[n] = << >> /\ Freed(n) = 0
    BY <1>1 DEF Fresh, Staged, Freed
  <2>2. injectCredit[n] = (injectCredit[n] - 0) + 0
    BY DEF Fresh, TypeOK, RouterTypeOK
  <2>3. QED
    BY <1>1, <1>2, <2>1, <2>2 DEF NodeInStep
<1>4. ASSUME NEW n \in Node, NEW p \in Dir PROVE PortInStep(n, p)
  <2>1. nxt[n][p] = << >> /\ credInbox[n][p] = 0
    BY DEF Fresh, Staged
  <2>2. ~Filled(n, p) /\ Returned(n, p) = 0 /\ Spent(n, p) = 0
    <3>1. p # Local => p \in Cardinal
      BY DEF Dir, Cardinal, Local, East
    <3>2. p \in Cardinal /\ has_neighbor(n, p) => step(n, p) \in Node
      BY StepBack
    <3>3. QED
      BY <1>1, <3>1, <3>2 DEF Filled, Returned, Spent
  <2>3. outCredit[n][p] = (outCredit[n][p] - 0) + 0
    BY DEF Fresh, TypeOK, RouterTypeOK
  <2>4. QED
    BY <1>1, <1>2, <2>1, <2>2, <2>3 DEF PortInStep
<1>5. StartTyped
  BY <1>2 DEF Fresh, TypeOK, RouterTypeOK, StartTyped
<1>6. QED
  BY <1>3, <1>4, <1>5 DEF InStep

(* A barrier leaves every tickable as far as it was. *)
LEMMA UnmovedInStep ==
  ASSUME InStep, UNCHANGED <<routerVars, pending, got, start>>,
         \A m \in Node : /\ RouterRan(m)' <=> RouterRan(m)
                         /\ PeRan(m)' <=> PeRan(m)
                         /\ RouterDone(m)' <=> RouterDone(m)
                         /\ PeDone(m)' <=> PeDone(m)
  PROVE  InStep'
<1>1. start' = start /\ pending' = pending /\ got' = got
  OBVIOUS
<1>2. UNCHANGED <<cur, nxt, outCredit, credInbox, rrCursor, injectCredit,
                  peCreditReturn, eject, ejectNxt>>
  BY DEF routerVars
<1>3. ASSUME NEW m \in Node PROVE NodeInStep(m)'
  <2>1. NodeInStep(m)
    BY DEF InStep
  <2>2. /\ (Lockstep!Batch(m))' = Lockstep!Batch(m)
        /\ (Lockstep!Moved(m, Local))' = Lockstep!Moved(m, Local)
        /\ Freed(m)' = Freed(m)
    BY <1>1, SameCycle, SameMesh DEF Freed
  <2>3. QED
    BY <1>1, <1>2, <2>1, <2>2 DEF NodeInStep
<1>4. ASSUME NEW m \in Node, NEW p \in Dir PROVE PortInStep(m, p)'
  <2>1. PortInStep(m, p)
    BY DEF InStep
  <2>2. /\ (Lockstep!Arrivals(m, p))' = Lockstep!Arrivals(m, p) /\ Rest(m, p)' = Rest(m, p)
        /\ (Lockstep!Sends(m, p))' = Lockstep!Sends(m, p)
        /\ (Lockstep!Chosen(m, p))' = Lockstep!Chosen(m, p)
    BY <1>1, SameCycle
  <2>3. /\ p = Local \/ p \in Cardinal
        /\ p \in Cardinal /\ has_neighbor(m, p) => step(m, p) \in Node
    BY StepBack DEF Dir, Cardinal, Local, East
  <2>4. Filled(m, p)' <=> Filled(m, p)
    BY <2>3 DEF Filled
  <2>5. Returned(m, p)' = Returned(m, p)
    BY <1>1, <2>3, SameCycle, SameMesh DEF Returned
  <2>6. Spent(m, p)' = Spent(m, p)
    BY <2>2, SameMesh DEF Spent
  <2>7. QED
    BY <1>1, <1>2, <2>1, <2>2, <2>4, <2>5, <2>6 DEF PortInStep
<1>5. StartTyped'
  BY <1>1 DEF InStep, StartTyped
<1>6. QED
  BY <1>3, <1>4, <1>5 DEF InStep

LEMMA InitInStep == Init => InStep
<1> SUFFICES ASSUME Init PROVE InStep
  OBVIOUS
<1>1. TypeOK
  BY InitType
<1>2. \A n \in Node : ~Staged(n) /\ ejectNxt[n] = << >>
  BY DEF Init, RouterInit, Staged
<1>3. got \in [Node -> Seq(Flit)]
  BY EmptySeq DEF Init
<1>4. Fresh
  BY <1>1, <1>2, <1>3 DEF Init, Fresh
<1>5. QED
  BY <1>4, FreshInStep

LEMMA StepInStep == TypeOK /\ TypeOK' /\ SweepInv /\ InStep /\ [Next]_nocVars => InStep'
<1> SUFFICES ASSUME TypeOK, TypeOK', SweepInv, InStep, [Next]_nocVars PROVE InStep'
  OBVIOUS
<1>1. CASE EndCompute
  <2>1. \A m \in Node : /\ RouterRan(m)' <=> RouterRan(m)
                        /\ PeRan(m)' <=> PeRan(m)
                        /\ RouterDone(m)' <=> RouterDone(m)
                        /\ PeDone(m)' <=> PeDone(m)
    BY <1>1, TickableParts DEF EndCompute, RouterRan, PeRan, RouterDone, PeDone
  <2>2. QED
    BY <1>1, <2>1, UnmovedInStep DEF EndCompute
<1>2. CASE EndCycle
  <2>1. \A n \in Node : ~Staged(n) /\ ejectNxt[n] = << >>
    BY <1>2 DEF EndCycle, SweepInv
  <2>2. \A n \in Node : (Staged(n)' <=> Staged(n)) /\ ejectNxt'[n] = ejectNxt[n]
    BY <1>2 DEF EndCycle, routerVars, Staged
  <2>3. phase' = "compute" /\ todo' = Tickable /\ got' = got
    BY <1>2 DEF EndCycle
  <2>4. start' = Snapshot'
    BY <1>2 DEF EndCycle, routerVars, Snapshot
  <2>5. got \in [Node -> Seq(Flit)]
    BY DEF InStep, StartTyped
  <2>6. Fresh'
    BY <2>1, <2>2, <2>3, <2>4, <2>5 DEF Fresh
  <2>7. QED
    BY <2>6, FreshInStep, PTL
<1>3. CASE UNCHANGED nocVars
  <2>1. \A m \in Node : /\ RouterRan(m)' <=> RouterRan(m)
                        /\ PeRan(m)' <=> PeRan(m)
                        /\ RouterDone(m)' <=> RouterDone(m)
                        /\ PeDone(m)' <=> PeDone(m)
    BY <1>3 DEF nocVars, RouterRan, PeRan, RouterDone, PeDone
  <2>2. QED
    BY <1>3, <2>1, UnmovedInStep DEF nocVars
<1>4. QED
  BY <1>1, <1>2, <1>3, PeComputeInStep, RouterComputeInStep, PeCommitInStep,
     RouterCommitInStep DEF Next

LEMMA InStepHolds == Spec => []InStep
BY InitInStep, StepInStep, SweepsHold, TypeCorrect, PTL DEF Spec

(* The abstract network as well never routes a flit off the mesh. *)
LEMMA SendsOnMesh ==
  ASSUME StartTyped, NEW n \in Node, NEW d \in Cardinal, Lockstep!Sends(n, d)
  PROVE  has_neighbor(n, d)
<1>1. PICK p \in Dir : start.cur[n][p] # << >> /\ route_xy(n, Head(start.cur[n][p]).dst) = d
  BY SameMesh DEF Lockstep!Sends, Lockstep!Asks
<1> DEFINE q == start.cur[n][p]
<1>2. q \in Seq(Flit) /\ q # << >>
  BY <1>1 DEF StartTyped
<1>3. Head(q) \in Flit
  <2> HIDE DEF q
  <2>1. QED
    BY <1>2, HeadTailProperties
<1>4. Head(q).dst \in Node
  BY <1>3, FlitAssumption
<1>5. QED
  BY <1>1, <1>4, RouteOnMesh DEF Cardinal, Local, East, South

(* A whole cycle is the simultaneous step. *)
LEMMA CycleIsLockstep ==
  ASSUME TypeOK, InStep, EndCycle
  PROVE  Lockstep!Cycle
<1>1. \A n \in Node : RouterDone(n) /\ PeDone(n) /\ RouterRan(n) /\ PeRan(n)
  BY DEF EndCycle, RouterDone, PeDone, RouterRan, PeRan
<1>2. /\ start'.cur = cur /\ start'.outCredit = outCredit /\ start'.rrCursor = rrCursor
      /\ start'.injectCredit = injectCredit /\ start'.eject = eject
      /\ start'.pending = pending /\ start'.got = got
  BY DEF EndCycle, Snapshot
<1>3. ASSUME NEW n \in Node, NEW p \in Dir
      PROVE  /\ cur[n][p] = (IF Lockstep!Drops(n, p) THEN Tail(start.cur[n][p])
                             ELSE start.cur[n][p]) \o Lockstep!Arrivals(n, p)
             /\ rrCursor[n][p] = IF Lockstep!Sends(n, p)
                                 THEN (Lockstep!Chosen(n, p) + 1) % 5 ELSE start.rrCursor[n][p]
             /\ outCredit[n][p] = (start.outCredit[n][p] - Spent(n, p)) + Returned(n, p)
  BY <1>1 DEF InStep, PortInStep, Rest
<1>4. ASSUME NEW n \in Node, NEW d \in Dir
      PROVE  outCredit[n][d] =
               IF d \in Cardinal /\ has_neighbor(n, d)
               THEN (start.outCredit[n][d] - Lockstep!One(Lockstep!Sends(n, d)))
                      + Lockstep!One(Lockstep!Drops(step(n, d), opposite(d)))
               ELSE start.outCredit[n][d]
  <2>1. start.outCredit[n][d] \in Nat
    BY DEF InStep, StartTyped
  <2>2. (d = Local \/ d \in Cardinal) /\ (d = Local => d \notin Cardinal)
    BY DEF Dir, Cardinal, Local, East, South
  <2>3. CASE d \in Cardinal /\ has_neighbor(n, d)
    <3>1. /\ Spent(n, d) = Lockstep!One(Lockstep!Sends(n, d))
          /\ Returned(n, d) = Lockstep!One(Lockstep!Drops(step(n, d), opposite(d)))
      BY <1>1, <2>2, <2>3, StepBack DEF Spent, Returned
    <3>2. QED
      BY <1>3, <2>3, <3>1
  <2>4. CASE ~(d \in Cardinal /\ has_neighbor(n, d))
    <3>1. Returned(n, d) = 0
      BY <2>4 DEF Returned
    <3>2. Spent(n, d) = 0
      BY <2>2, <2>4, SameMesh, SendsOnMesh DEF InStep, Spent
    <3>3. QED
      BY <1>3, <2>1, <2>4, <3>1, <3>2
  <2>5. QED
    BY <2>3, <2>4
<1>5. ASSUME NEW n \in Node
      PROVE  /\ injectCredit[n] = (start.injectCredit[n] - Lockstep!Batch(n))
                                    + Lockstep!One(Lockstep!Drops(n, Local))
             /\ eject[n] = Lockstep!Moved(n, Local)
             /\ pending[n] = SubSeq(start.pending[n], Lockstep!Batch(n) + 1,
                                    Len(start.pending[n]))
             /\ got[n] = start.got[n] \o Lockstep!Moved(n, Local)
  BY <1>1 DEF InStep, NodeInStep, Freed
<1>6. /\ cur \in [Node -> [Dir -> Seq(Flit)]] /\ outCredit \in [Node -> [Dir -> Nat]]
      /\ rrCursor \in [Node -> [Dir -> Dir]] /\ injectCredit \in [Node -> Nat]
      /\ eject \in [Node -> Seq(Flit)] /\ pending \in [Node -> Seq(Flit)]
      /\ got \in [Node -> Seq(Flit)]
  BY DEF TypeOK, RouterTypeOK, InStep, StartTyped
<1>7. cur = [n \in Node |-> [p \in Dir |->
               (IF Lockstep!Drops(n, p) THEN Tail(start.cur[n][p])
                ELSE start.cur[n][p]) \o Lockstep!Arrivals(n, p)]]
  BY <1>3, <1>6
<1>8. outCredit = [n \in Node |-> [d \in Dir |->
                     IF d \in Cardinal /\ has_neighbor(n, d)
                     THEN (start.outCredit[n][d] - Lockstep!One(Lockstep!Sends(n, d)))
                            + Lockstep!One(Lockstep!Drops(step(n, d), opposite(d)))
                     ELSE start.outCredit[n][d]]]
  BY <1>4, <1>6
<1>9. rrCursor = [n \in Node |-> [o \in Dir |->
                    IF Lockstep!Sends(n, o)
                    THEN (Lockstep!Chosen(n, o) + 1) % 5 ELSE start.rrCursor[n][o]]]
  BY <1>3, <1>6
<1>10. /\ injectCredit = [n \in Node |-> (start.injectCredit[n] - Lockstep!Batch(n))
                                          + Lockstep!One(Lockstep!Drops(n, Local))]
       /\ eject = [n \in Node |-> Lockstep!Moved(n, Local)]
       /\ pending = [n \in Node |-> SubSeq(start.pending[n], Lockstep!Batch(n) + 1,
                                           Len(start.pending[n]))]
       /\ got = [n \in Node |-> start.got[n] \o Lockstep!Moved(n, Local)]
  BY <1>5, <1>6
<1>11. QED
  BY <1>2, <1>7, <1>8, <1>9, <1>10, SameMesh DEF Lockstep!Cycle

LEMMA InitIsLockstep == Init => Lockstep!LockstepInit
<1> SUFFICES ASSUME Init PROVE Lockstep!LockstepInit
  OBVIOUS
<1>1. /\ start.cur = cur /\ start.outCredit = outCredit /\ start.rrCursor = rrCursor
      /\ start.injectCredit = injectCredit /\ start.eject = eject
      /\ start.pending = pending /\ start.got = got
  BY DEF Init, Snapshot
<1>2. QED
  BY <1>1, SameMesh DEF Init, RouterInit, Backlog, Lockstep!LockstepInit

LEMMA StepIsLockstep ==
  TypeOK /\ InStep /\ [Next]_nocVars => [Lockstep!Cycle]_(Lockstep!lockstepVars)
<1> SUFFICES ASSUME TypeOK, InStep, [Next]_nocVars
             PROVE  [Lockstep!Cycle]_(Lockstep!lockstepVars)
  OBVIOUS
<1>1. CASE EndCycle
  BY <1>1, CycleIsLockstep
<1>2. ASSUME start' = start PROVE UNCHANGED Lockstep!lockstepVars
  BY <1>2 DEF Lockstep!lockstepVars
<1>3. CASE \E n \in Node : \/ PeCompute(n) \/ RouterCompute(n)
                           \/ PeCommit(n) \/ RouterCommit(n)
  BY <1>2, <1>3 DEF PeCompute, RouterCompute, PeCommit, RouterCommit, Take
<1>4. CASE EndCompute \/ UNCHANGED nocVars
  BY <1>2, <1>4 DEF EndCompute, nocVars
<1>5. QED
  BY <1>1, <1>3, <1>4 DEF Next

(* Results do not depend on the number of threads: for every mesh and load,
   in whatever order the tickables of a sweep run, a cycle is the one
   simultaneous step of NocLockstep. *)
THEOREM ThreadCountIrrelevant == Spec => ImplementsLockstep
BY InitIsLockstep, StepIsLockstep, InStepHolds, TypeCorrect, PTL
   DEF Spec, ImplementsLockstep, Lockstep!LockstepSpec
=============================================================================
