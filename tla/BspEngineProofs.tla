--------------------------- MODULE BspEngineProofs ---------------------------
(***************************************************************************)
(* Theorems about BspEngine for every mesh, every credit_init, every       *)
(* number of timesteps and every traffic: no spike is lost or doubled, the *)
(* flits of the barrier travel through the routers as SyncProtocol assumes *)
(* of its network, no spike overtakes the barrier, and a drained engine is *)
(* empty.                                                                  *)
(***************************************************************************)
EXTENDS BspEngine, RouterProofs, SyncControllerProofs

-----------------------------------------------------------------------------
(* PeIds and coordinates. *)

(* Every PE stands at a coordinate of its own. *)
LEMMA PeAtNode ==
  /\ \A n \in Node : to_id(n) \in Pe /\ to_coord(to_id(n)) = n
  /\ \A i \in Pe : to_coord(i) \in Node /\ to_id(to_coord(i)) = i
BY IdOfNode, NumPeIsMeshSize DEF Pe, PeId

LEMMA NodeFinite == IsFiniteSet(Node)
<1>1. IsFiniteSet(Pe)
  <2>1. 0 \in Int /\ NumPe - 1 \in Int
    BY NumPeAssumption
  <2>2. QED
    BY <2>1, FS_Interval DEF Pe
<1>2. [i \in Pe |-> to_coord(i)] \in Surjection(Pe, Node)
  BY PeAtNode DEF Surjection
<1>3. QED
  BY <1>1, <1>2, FS_Surjection

-----------------------------------------------------------------------------
(* The sync flits that one step of a controller emits. *)

LEMMA CountTwo ==
  ASSUME NEW x, NEW y, NEW A
  PROVE  Count(<<x, y>>, A) = Count(<<x>>, A) + Count(<<y>>, A)
<1>1. <<x>> \in Seq({x, y}) /\ y \in {x, y} /\ <<x, y>> = Append(<<x>>, y)
  OBVIOUS
<1>2. Count(Append(<<x>>, y), A) = Count(<<x>>, A) + Count(<<y>>, A)
  BY <1>1, CountAppend
<1>3. QED
  BY <1>1, <1>2

LEMMA CountThree ==
  ASSUME NEW x, NEW y, NEW z, NEW A
  PROVE  Count(<<x, y, z>>, A) = Count(<<x>>, A) + Count(<<y>>, A) + Count(<<z>>, A)
<1>1. /\ <<x, y>> \in Seq({x, y, z}) /\ z \in {x, y, z}
      /\ <<x, y, z>> = Append(<<x, y>>, z)
  OBVIOUS
<1>2. Count(Append(<<x, y>>, z), A) = Count(<<x, y>>, A) + Count(<<z>>, A)
  BY <1>1, CountAppend
<1>3. QED
  BY <1>1, <1>2, CountTwo

SyncOnWire == {f \in Flit : is_sync(f)}

LEMMA SyncFlitOnWire ==
  ASSUME NEW f \in SyncFlit
  PROVE  /\ OnWire(f) = [type |-> f.type, src |-> to_coord(f.src),
                         dst |-> to_coord(f.dst), timestep |-> f.timestep]
         /\ OnWire(f) \in SyncOnWire
         /\ OnWire(f).type = f.type /\ OnWire(f).timestep = f.timestep
         /\ OnWire(f).dst = to_coord(f.dst)
<1>1. /\ f.type \in {"Report", "NextTimestep"} /\ f.src \in Pe /\ f.dst \in Pe
      /\ f.timestep \in Timestep
      /\ f = [type |-> f.type, src |-> f.src, dst |-> f.dst, timestep |-> f.timestep]
  BY DEF SyncFlit
<1>2. OnWire(f) = [type |-> f.type, src |-> to_coord(f.src),
                   dst |-> to_coord(f.dst), timestep |-> f.timestep]
  <2>1. \A i \in Pe : to_coord(i) \in Node
    BY PeAtNode
  <2> DEFINE g == OnWire(f)
  <2>2. /\ g.type = f.type /\ g.timestep = f.timestep
        /\ g.src = to_coord(f.src) /\ g.dst = to_coord(f.dst)
    BY DEF OnWire, SyncFlit
  <2>3. g \in [type : {"Report", "NextTimestep"}, src : Node, dst : Node, timestep : Timestep]
    BY <1>1, <2>1 DEF OnWire, SyncFlit
  <2>4. QED
    BY <2>2, <2>3
<1>3. to_coord(f.src) \in Node /\ to_coord(f.dst) \in Node
  BY <1>1, PeAtNode
<1>4. OnWire(f) \in Flit /\ is_sync(OnWire(f))
  BY <1>1, <1>2, <1>3, WireAssumption DEF is_sync
<1>5. QED
  BY <1>2, <1>4 DEF SyncOnWire

LEMMA WiresOf ==
  ASSUME SyncTypeOK, NEW i \in Pe, NEW fs, NEW d \in BOOLEAN
  PROVE  /\ Wires(i, fs, d) \in Seq(SyncOnWire)
         /\ EmitsReport(i, fs, d) => i # 0
         /\ \A A : Count(Wires(i, fs, d), A) =
              (IF EmitsReport(i, fs, d) /\ OnWire(make_report(i)) \in A THEN 1 ELSE 0)
              + (IF EmitsNexts(i, fs, d) /\ 2 * i + 1 \in Pe
                    /\ OnWire(make_next(i, 2 * i + 1)) \in A THEN 1 ELSE 0)
              + (IF EmitsNexts(i, fs, d) /\ 2 * i + 2 \in Pe
                    /\ OnWire(make_next(i, 2 * i + 2)) \in A THEN 1 ELSE 0)
<1> DEFINE p == make_report(i)
           l == make_next(i, 2 * i + 1)
           r == make_next(i, 2 * i + 2)
           E == SyncEmits(i, fs, d)
           w == Wires(i, fs, d)
           R == EmitsReport(i, fs, d)
           N == EmitsNexts(i, fs, d)
<1>1. /\ R => i # 0 /\ p \in SyncFlit
      /\ 2 * i + 1 \in Pe => l \in SyncFlit
      /\ 2 * i + 2 \in Pe => r \in SyncFlit /\ 2 * i + 1 \in Pe
      /\ ~R /\ ~(N /\ 2 * i + 1 \in Pe) => InOrder(E) = << >>
      /\ R /\ ~(N /\ 2 * i + 1 \in Pe) => InOrder(E) = <<p>>
      /\ ~R /\ N /\ 2 * i + 1 \in Pe /\ 2 * i + 2 \notin Pe => InOrder(E) = <<l>>
      /\ ~R /\ N /\ 2 * i + 2 \in Pe => InOrder(E) = <<l, r>>
      /\ R /\ N /\ 2 * i + 1 \in Pe /\ 2 * i + 2 \notin Pe => InOrder(E) = <<p, l>>
      /\ R /\ N /\ 2 * i + 2 \in Pe => InOrder(E) = <<p, l, r>>
  BY Emission
<1>2. 2 * i + 2 \in Pe => 2 * i + 1 \in Pe
  BY <1>1
<1>3. /\ R => OnWire(p) \in SyncOnWire
      /\ 2 * i + 1 \in Pe => OnWire(l) \in SyncOnWire
      /\ 2 * i + 2 \in Pe => OnWire(r) \in SyncOnWire
  BY <1>1, SyncFlitOnWire
<1>4. \A q : InOrder(E) = q => w = [k \in DOMAIN q |-> OnWire(q[k])]
  BY DEF Wires
<1> DEFINE Right(A) ==
             (IF R /\ OnWire(p) \in A THEN 1 ELSE 0)
             + (IF N /\ 2 * i + 1 \in Pe /\ OnWire(l) \in A THEN 1 ELSE 0)
             + (IF N /\ 2 * i + 2 \in Pe /\ OnWire(r) \in A THEN 1 ELSE 0)
<1>5. w \in Seq(SyncOnWire) /\ \A A : Count(w, A) = Right(A)
  <2> HIDE DEF p, l, r, E, w, R, N
  <2>1. CASE ~R /\ ~(N /\ 2 * i + 1 \in Pe)
    <3>1. InOrder(E) = << >>
      BY <1>1, <1>2, <2>1
    <3>2. w = << >>
      BY <1>4, <3>1
    <3>3. << >> \in Seq(SyncOnWire)
      BY <1>2, <1>3, <2>1
    <3>4. ASSUME NEW A PROVE Count(<< >>, A) = Right(A)
      <4>1. Count(<< >>, A) = 0
        BY <3>3, CountIsNat
      <4>3. QED
        BY <1>2, <2>1, <4>1
    <3> HIDE DEF Right
    <3>5. QED
      BY <3>2, <3>3, <3>4
  <2>2. CASE R /\ ~(N /\ 2 * i + 1 \in Pe)
    <3>1. InOrder(E) = <<p>>
      BY <1>1, <1>2, <2>2
    <3>2. w = <<OnWire(p)>>
      BY <1>4, <3>1
    <3>3. <<OnWire(p)>> \in Seq(SyncOnWire)
      BY <1>2, <1>3, <2>2
    <3>4. ASSUME NEW A PROVE Count(<<OnWire(p)>>, A) = Right(A)
      <4>1. Count(<<OnWire(p)>>, A) = IF OnWire(p) \in A THEN 1 ELSE 0
        BY CountOne
      <4>3. QED
        BY <1>2, <2>2, <4>1
    <3> HIDE DEF Right
    <3>5. QED
      BY <3>2, <3>3, <3>4
  <2>3. CASE ~R /\ N /\ 2 * i + 1 \in Pe /\ 2 * i + 2 \notin Pe
    <3>1. InOrder(E) = <<l>>
      BY <1>1, <1>2, <2>3
    <3>2. w = <<OnWire(l)>>
      BY <1>4, <3>1
    <3>3. <<OnWire(l)>> \in Seq(SyncOnWire)
      BY <1>2, <1>3, <2>3
    <3>4. ASSUME NEW A PROVE Count(<<OnWire(l)>>, A) = Right(A)
      <4>1. Count(<<OnWire(l)>>, A) = IF OnWire(l) \in A THEN 1 ELSE 0
        BY CountOne
      <4>3. QED
        BY <1>2, <2>3, <4>1
    <3> HIDE DEF Right
    <3>5. QED
      BY <3>2, <3>3, <3>4
  <2>4. CASE ~R /\ N /\ 2 * i + 2 \in Pe
    <3>1. InOrder(E) = <<l, r>>
      BY <1>1, <1>2, <2>4
    <3>2. w = <<OnWire(l), OnWire(r)>>
      BY <1>4, <3>1
    <3>3. <<OnWire(l), OnWire(r)>> \in Seq(SyncOnWire)
      BY <1>2, <1>3, <2>4
    <3>4. ASSUME NEW A PROVE Count(<<OnWire(l), OnWire(r)>>, A) = Right(A)
      <4>1. Count(<<OnWire(l), OnWire(r)>>, A) = Count(<<OnWire(l)>>, A) + Count(<<OnWire(r)>>, A)
        BY CountTwo
      <4>2. /\ Count(<<OnWire(l)>>, A) = (IF OnWire(l) \in A THEN 1 ELSE 0)
            /\ Count(<<OnWire(r)>>, A) = (IF OnWire(r) \in A THEN 1 ELSE 0)
        BY CountOne
      <4>3. QED
        BY <1>2, <2>4, <4>1, <4>2
    <3> HIDE DEF Right
    <3>5. QED
      BY <3>2, <3>3, <3>4
  <2>5. CASE R /\ N /\ 2 * i + 1 \in Pe /\ 2 * i + 2 \notin Pe
    <3>1. InOrder(E) = <<p, l>>
      BY <1>1, <1>2, <2>5
    <3>2. w = <<OnWire(p), OnWire(l)>>
      BY <1>4, <3>1
    <3>3. <<OnWire(p), OnWire(l)>> \in Seq(SyncOnWire)
      BY <1>2, <1>3, <2>5
    <3>4. ASSUME NEW A PROVE Count(<<OnWire(p), OnWire(l)>>, A) = Right(A)
      <4>1. Count(<<OnWire(p), OnWire(l)>>, A) = Count(<<OnWire(p)>>, A) + Count(<<OnWire(l)>>, A)
        BY CountTwo
      <4>2. /\ Count(<<OnWire(p)>>, A) = (IF OnWire(p) \in A THEN 1 ELSE 0)
            /\ Count(<<OnWire(l)>>, A) = (IF OnWire(l) \in A THEN 1 ELSE 0)
        BY CountOne
      <4>3. QED
        BY <1>2, <2>5, <4>1, <4>2
    <3> HIDE DEF Right
    <3>5. QED
      BY <3>2, <3>3, <3>4
  <2>6. CASE R /\ N /\ 2 * i + 2 \in Pe
    <3>1. InOrder(E) = <<p, l, r>>
      BY <1>1, <1>2, <2>6
    <3>2. w = <<OnWire(p), OnWire(l), OnWire(r)>>
      BY <1>4, <3>1
    <3>3. <<OnWire(p), OnWire(l), OnWire(r)>> \in Seq(SyncOnWire)
      BY <1>2, <1>3, <2>6
    <3>4. ASSUME NEW A PROVE Count(<<OnWire(p), OnWire(l), OnWire(r)>>, A) = Right(A)
      <4>1. Count(<<OnWire(p), OnWire(l), OnWire(r)>>, A) = Count(<<OnWire(p)>>, A) + Count(<<OnWire(l)>>, A) + Count(<<OnWire(r)>>, A)
        BY CountThree
      <4>2. /\ Count(<<OnWire(p)>>, A) = (IF OnWire(p) \in A THEN 1 ELSE 0)
            /\ Count(<<OnWire(l)>>, A) = (IF OnWire(l) \in A THEN 1 ELSE 0)
            /\ Count(<<OnWire(r)>>, A) = (IF OnWire(r) \in A THEN 1 ELSE 0)
        BY CountOne
      <4>3. QED
        BY <1>2, <2>6, <4>1, <4>2
    <3> HIDE DEF Right
    <3>5. QED
      BY <3>2, <3>3, <3>4
  <2>7. QED
    BY <2>1, <2>2, <2>3, <2>4, <2>5, <2>6
<1>6. QED
  BY <1>1, <1>5

-----------------------------------------------------------------------------
(* The state of the engine is well formed; the controllers of all PEs are in
   the timestep of run's loop. *)
EngineTypeOK ==
  /\ RouterTypeOK /\ SyncTypeOK
  /\ spikes_generated \in [Node -> BOOLEAN]
  /\ pending_spikes \in [Node -> Seq(Flit)]
  /\ pending_sync \in [Node -> Seq(SyncOnWire)]
  /\ t \in Timestep /\ \A i \in Pe : current_t[i] = t
  /\ draining \in BOOLEAN /\ deadlock \in BOOLEAN
  /\ phase \in {"compute", "commit", "between", "done"}
  /\ todo \in SUBSET Tickable
  /\ cycles \in Nat

LEMMA StepQueues ==
  ASSUME EngineTypeOK, NEW n \in Node, NEW burst \in Seq(Node)
  PROVE  /\ NewSpikes(n, burst) \in Seq(Flit)
         /\ Generates(n) => /\ DOMAIN NewSpikes(n, burst) = DOMAIN burst
                            /\ \A k \in DOMAIN burst :
                                 NewSpikes(n, burst)[k] = SpikeFlit(n, burst[k], t)
         /\ Spiking(n, burst) \in Seq(Flit)
         /\ DoneAt(n, burst) \in BOOLEAN
         /\ Wires(to_id(n), eject[n], DoneAt(n, burst)) \in Seq(SyncOnWire)
         /\ Syncing(n, burst) \in Seq(SyncOnWire)
<1> DEFINE b == NewSpikes(n, burst)
           d == DoneAt(n, burst)
           w == Wires(to_id(n), eject[n], d)
<1>1. to_id(n) \in Pe /\ current_t[to_id(n)] = t /\ t \in Timestep
  BY PeAtNode DEF EngineTypeOK
<1>2. \A m \in Node : SpikeFlit(n, m, t) \in Flit
  BY <1>1, WireAssumption DEF SpikeFlit
<1>3. /\ DOMAIN burst = 1 .. Len(burst) /\ Len(burst) \in Nat
      /\ \A k \in 1 .. Len(burst) : burst[k] \in Node
  BY LenProperties, ElementOfSeq
<1>4. Generates(n) => b = [k \in 1 .. Len(burst) |-> SpikeFlit(n, burst[k], t)]
  BY <1>1, <1>3 DEF NewSpikes
<1>5. b \in Seq(Flit)
  <2>1. CASE Generates(n)
    <3>1. [k \in 1 .. Len(burst) |-> SpikeFlit(n, burst[k], t)] \in [1 .. Len(burst) -> Flit]
      BY <1>2, <1>3
    <3>2. QED
      BY <1>3, <1>4, <2>1, <3>1, SeqDef
  <2>2. CASE ~Generates(n)
    BY <2>2, EmptySeq DEF NewSpikes
  <2>3. QED
    BY <2>1, <2>2
<1>6. Spiking(n, burst) \in Seq(Flit)
  <2>1. pending_spikes[n] \in Seq(Flit)
    BY DEF EngineTypeOK
  <2> HIDE DEF b
  <2>2. pending_spikes[n] \o b \in Seq(Flit)
    BY <1>5, <2>1, ConcatProperties
  <2>3. QED
    BY <2>2 DEF Spiking, b
<1>7. d \in BOOLEAN
  BY DEF DoneAt
<1>8. w \in Seq(SyncOnWire)
  <2> HIDE DEF d
  <2>1. QED
    BY <1>1, <1>7, WiresOf DEF EngineTypeOK
<1>9. Syncing(n, burst) \in Seq(SyncOnWire)
  <2>1. pending_sync[n] \in Seq(SyncOnWire)
    BY DEF EngineTypeOK
  <2> HIDE DEF w
  <2>2. pending_sync[n] \o w \in Seq(SyncOnWire)
    BY <1>8, <2>1, ConcatProperties
  <2>3. QED
    BY <2>2 DEF Syncing, w, d
<1>10. Generates(n) => /\ DOMAIN b = DOMAIN burst
                       /\ \A k \in DOMAIN burst : b[k] = SpikeFlit(n, burst[k], t)
  BY <1>3, <1>4
<1>11. QED
  BY <1>5, <1>6, <1>7, <1>8, <1>9, <1>10

(* A PE's step, with what it injects split off the fronts of its two queues. *)
LEMMA PeStepParts ==
  ASSUME EngineTypeOK, NEW n \in Node, NEW burst \in Seq(Node), PeStep(n, burst)
  PROVE  \E s \in 0 .. Len(Syncing(n, burst)), k \in 0 .. Len(Spiking(n, burst)) :
           /\ DrainAndInject(n, SubSeq(Syncing(n, burst), 1, s)
                                  \o SubSeq(Spiking(n, burst), 1, k))
           /\ pending_sync' = [pending_sync EXCEPT ![n] =
                SubSeq(Syncing(n, burst), s + 1, Len(Syncing(n, burst)))]
           /\ pending_spikes' = [pending_spikes EXCEPT ![n] =
                SubSeq(Spiking(n, burst), k + 1, Len(Spiking(n, burst)))]
           /\ SyncStep(to_id(n), eject[n], DoneAt(n, burst))
           /\ spikes_generated' = [spikes_generated EXCEPT ![n] = @ \/ Generates(n)]
<1> DEFINE sync == Syncing(n, burst)
           spikes == Spiking(n, burst)
           s == IF injectCredit[n] < Len(sync) THEN injectCredit[n] ELSE Len(sync)
           left == injectCredit[n] - s
           k == IF left < Len(spikes) THEN left ELSE Len(spikes)
<1>1. sync \in Seq(SyncOnWire) /\ spikes \in Seq(Flit)
  BY StepQueues
<1>2. Len(sync) \in Nat /\ Len(spikes) \in Nat /\ injectCredit[n] \in Nat
  <2> HIDE DEF sync, spikes
  <2>1. QED
    BY <1>1, LenProperties DEF EngineTypeOK, RouterTypeOK
<1>3. s \in 0 .. Len(sync) /\ k \in 0 .. Len(spikes)
  <2> HIDE DEF sync, spikes
  <2>1. QED
    BY <1>2
<1>4. /\ DrainAndInject(n, SubSeq(sync, 1, s) \o SubSeq(spikes, 1, k))
      /\ pending_sync' = [pending_sync EXCEPT ![n] = SubSeq(sync, s + 1, Len(sync))]
      /\ pending_spikes' = [pending_spikes EXCEPT ![n] = SubSeq(spikes, k + 1, Len(spikes))]
      /\ SyncStep(to_id(n), eject[n], DoneAt(n, burst))
      /\ spikes_generated' = [spikes_generated EXCEPT ![n] = @ \/ Generates(n)]
  BY DEF PeStep
<1> HIDE DEF s, k
<1>5. QED
  BY <1>3, <1>4

(* Whatever a PE computes in a sweep is PeStep with a burst of the traffic. *)
LEMMA PeComputeBurst ==
  ASSUME EngineTypeOK, NEW n \in Node, PeCompute(n)
  PROVE  \E burst \in Seq(Node) : PeStep(n, burst) /\ (~Generates(n) => burst = << >>)
<1>1. PICK burst \in IF Generates(n) THEN Bursts[n][t] ELSE {<< >>} : PeStep(n, burst)
  BY DEF PeCompute
<1>2. burst \in Seq(Node)
  <2>1. << >> \in Seq(Node)
    BY EmptySeq
  <2>2. Generates(n) => burst \in Bursts[n][t]
    BY <1>1
  <2>3. ~Generates(n) => burst = << >>
    BY <1>1
  <2>4. QED
    BY <2>1, <2>2, <2>3, WireAssumption DEF EngineTypeOK
<1>3. QED
  BY <1>1, <1>2

LEMMA SyncSeq == Seq(SyncOnWire) \subseteq Seq(Flit)
<1>1. SyncOnWire \subseteq Flit
  BY DEF SyncOnWire
<1>2. QED
  BY <1>1

LEMMA PeStepType ==
  ASSUME EngineTypeOK, NEW n \in Node, NEW burst \in Seq(Node), PeStep(n, burst)
  PROVE  /\ RouterTypeOK' /\ SyncTypeOK' /\ current_t' = current_t
         /\ spikes_generated' \in [Node -> BOOLEAN]
         /\ pending_spikes' \in [Node -> Seq(Flit)]
         /\ pending_sync' \in [Node -> Seq(SyncOnWire)]
<1> DEFINE sync == Syncing(n, burst)
           spikes == Spiking(n, burst)
<1>1. PICK s \in 0 .. Len(sync), k \in 0 .. Len(spikes) :
        /\ DrainAndInject(n, SubSeq(sync, 1, s) \o SubSeq(spikes, 1, k))
        /\ pending_sync' = [pending_sync EXCEPT ![n] = SubSeq(sync, s + 1, Len(sync))]
        /\ pending_spikes' = [pending_spikes EXCEPT ![n] = SubSeq(spikes, k + 1, Len(spikes))]
        /\ SyncStep(to_id(n), eject[n], DoneAt(n, burst))
        /\ spikes_generated' = [spikes_generated EXCEPT ![n] = @ \/ Generates(n)]
  BY PeStepParts
<1>2. sync \in Seq(SyncOnWire) /\ sync \in Seq(Flit) /\ spikes \in Seq(Flit)
  BY StepQueues, SyncSeq
<1> HIDE DEF sync, spikes
<1>3. /\ SubSeq(sync, 1, s) \in Seq(Flit) /\ SubSeq(spikes, 1, k) \in Seq(Flit)
      /\ SubSeq(sync, s + 1, Len(sync)) \in Seq(SyncOnWire)
      /\ SubSeq(spikes, k + 1, Len(spikes)) \in Seq(Flit)
  BY <1>2, CountSplit
<1>4. SubSeq(sync, 1, s) \o SubSeq(spikes, 1, k) \in Seq(Flit)
  BY <1>3, ConcatProperties
<1>5. RouterTypeOK'
  <2> DEFINE fs == SubSeq(sync, 1, s) \o SubSeq(spikes, 1, k)
  <2>1. fs \in Seq(Flit) /\ DrainAndInject(n, fs) /\ RouterTypeOK
    BY <1>1, <1>4 DEF EngineTypeOK
  <2> HIDE DEF fs
  <2>2. QED
    BY <2>1, DrainAndInjectType
<1>6. SyncTypeOK' /\ current_t' = current_t
  <2>1. to_id(n) \in Pe /\ eject[n] \in Seq(Flit) /\ SyncTypeOK
    BY PeAtNode DEF EngineTypeOK, RouterTypeOK
  <2>2. QED
    BY <1>1, <2>1, SyncStepType
<1>7. QED
  BY <1>1, <1>3, <1>5, <1>6 DEF EngineTypeOK

LEMMA InitEngineType == Init => EngineTypeOK
<1> SUFFICES ASSUME Init PROVE EngineTypeOK
  OBVIOUS
<1>1. CreditInit \in Nat /\ 0 \in Dir /\ 0 \in Timestep
  BY CreditAssumption, NumTimestepsAssumption DEF InBufCap, Dir, Local, South, Timestep
<1>2. RouterTypeOK
  BY <1>1, EmptySeq DEF Init, RouterInit, RouterTypeOK
<1>3. SyncTypeOK /\ \A i \in Pe : current_t[i] = 0
  BY <1>1 DEF Init, SyncInit, SyncTypeOK, PeSyncState
<1>4. QED
  BY <1>1, <1>2, <1>3, EmptySeq DEF Init, EngineTypeOK

LEMMA EngineTypeStep ==
  ASSUME EngineTypeOK, [Next]_bspVars
  PROVE  EngineTypeOK'
<1> USE DEF EngineTypeOK
<1>1. ASSUME NEW n \in Node, PeCompute(n) PROVE EngineTypeOK'
  <2>1. PICK burst \in Seq(Node) : PeStep(n, burst)
    BY <1>1, PeComputeBurst
  <2>2. /\ RouterTypeOK' /\ SyncTypeOK' /\ current_t' = current_t
        /\ spikes_generated' \in [Node -> BOOLEAN]
        /\ pending_spikes' \in [Node -> Seq(Flit)]
        /\ pending_sync' \in [Node -> Seq(SyncOnWire)]
    BY <2>1, PeStepType
  <2>3. QED
    BY <1>1, <2>2 DEF PeCompute, Take
<1>2. ASSUME NEW n \in Node, RouterCompute(n) PROVE EngineTypeOK'
  <2>1. RouterTypeOK'
    BY <1>2, ComputeType DEF RouterCompute
  <2>2. QED
    BY <1>2, <2>1 DEF RouterCompute, Take, syncVars, peVars, SyncTypeOK
<1>3. ASSUME NEW n \in Node, PeCommit(n) PROVE EngineTypeOK'
  <2>1. RouterTypeOK'
    BY <1>3, CommitEjectType DEF PeCommit
  <2>2. QED
    BY <1>3, <2>1 DEF PeCommit, Take, syncVars, peVars, SyncTypeOK
<1>4. ASSUME NEW n \in Node, RouterCommit(n) PROVE EngineTypeOK'
  <2>1. RouterTypeOK'
    BY <1>4, CommitType DEF RouterCommit
  <2>2. QED
    BY <1>4, <2>1 DEF RouterCommit, Take, syncVars, peVars, SyncTypeOK
<1>5. ASSUME UNCHANGED <<routerVars, syncVars, peVars, t>>,
             phase' \in {"compute", "commit", "between", "done"},
             todo' \in {todo, Tickable}, deadlock' \in BOOLEAN, draining' \in BOOLEAN,
             cycles' \in Nat
      PROVE  EngineTypeOK'
  <2>1. RouterTypeOK' /\ SyncTypeOK' /\ UNCHANGED current_t /\ UNCHANGED peVars
    BY <1>5 DEF routerVars, syncVars, RouterTypeOK, SyncTypeOK
  <2>2. UNCHANGED <<spikes_generated, pending_spikes, pending_sync, t>>
    BY <1>5, <2>1 DEF peVars
  <2>3. QED
    BY <1>5, <2>1, <2>2
<1>6. CASE EndCompute
  <2>1. /\ UNCHANGED <<routerVars, syncVars, peVars, t>>
        /\ phase' = "commit" /\ todo' = Tickable
        /\ deadlock' \in BOOLEAN /\ draining' \in BOOLEAN /\ cycles' \in Nat
    BY <1>6 DEF EndCompute, Sweep
  <2> HIDE DEF EngineTypeOK
  <2>2. QED
    BY <1>5, <2>1
<1>7. CASE EndCycle
  <2>1. /\ UNCHANGED <<routerVars, syncVars, peVars, t>>
        /\ phase' \in {"compute", "between", "done"} /\ todo' \in {todo, Tickable}
        /\ deadlock' = deadlock \/ deadlock' = TRUE
        /\ draining' = draining /\ cycles' = cycles + 1
    BY <1>7 DEF EndCycle, Sweep
  <2>2. deadlock' \in BOOLEAN /\ draining' \in BOOLEAN
    BY <2>1
  <2>3. cycles' \in Nat
    BY <2>1
  <2> HIDE DEF EngineTypeOK
  <2>4. QED
    BY <1>5, <2>1, <2>2, <2>3
<1>8. CASE NextTimestep
  <2>1. t + 1 \in Timestep
    BY <1>8, NumTimestepsAssumption DEF NextTimestep, Timestep
  <2>2. current_t' = [i \in Pe |-> t + 1]
    BY <1>8 DEF NextTimestep, BeginNextTimestep
  <2>3. RouterTypeOK'
    BY <1>8 DEF NextTimestep, routerVars, RouterTypeOK
  <2>4. SyncTypeOK'
    BY <1>8, <2>1, <2>2 DEF NextTimestep, BeginNextTimestep, SyncTypeOK, PeSyncState
  <2>5. QED
    BY <1>8, <2>1, <2>2, <2>3, <2>4 DEF NextTimestep, Sweep
<1>9. CASE BeginDrain \/ DrainCycle
  <2>1. NoneInFlight \in BOOLEAN
    BY DEF NoneInFlight
  <2>2. /\ UNCHANGED <<routerVars, syncVars, peVars, t>>
        /\ phase' \in {"compute", "done"} /\ todo' \in {todo, Tickable}
        /\ deadlock' \in {deadlock, ~NoneInFlight} /\ cycles' \in {0, cycles + 1}
        /\ draining' \in {draining, TRUE}
    BY <1>9 DEF BeginDrain, DrainCycle, DrainOn, Sweep
  <2>3. deadlock' \in BOOLEAN
    BY <2>1, <2>2
  <2>4. draining' \in BOOLEAN
    BY <2>2
  <2>5. cycles' \in Nat
    BY <2>2
  <2> HIDE DEF EngineTypeOK
  <2>6. QED
    BY <1>5, <2>2, <2>3, <2>4, <2>5
<1>10. CASE UNCHANGED bspVars
  BY <1>5, <1>10 DEF bspVars, engineVars
<1>11. QED
  BY <1>1, <1>2, <1>3, <1>4, <1>6, <1>7, <1>8, <1>9, <1>10 DEF Next

-----------------------------------------------------------------------------
(* The queues of the engine as one family. *)

LEMMA LineFinite == IsFiniteSet(Line)
<1>1. \A a, b : IsFiniteSet({a}) /\ IsFiniteSet({a, b})
  <2>1. TAKE a, b
  <2>2. IsFiniteSet({a}) /\ IsFiniteSet({b})
    BY FS_Singleton
  <2>3. IsFiniteSet({a} \cup {b}) /\ {a} \cup {b} = {a, b}
    BY <2>2, FS_Union
  <2>4. QED
    BY <2>2, <2>3
<1>2. IsFiniteSet({"spikes", "sync", "eject", "ejectNxt"})
  <2>1. IsFiniteSet({"spikes", "sync"} \cup {"eject", "ejectNxt"})
    BY <1>1, FS_Union
  <2>2. {"spikes", "sync"} \cup {"eject", "ejectNxt"} = {"spikes", "sync", "eject", "ejectNxt"}
    OBVIOUS
  <2>3. QED
    BY <2>1, <2>2
<1>3. IsFiniteSet(Dir)
  <2>1. 0 \in Int /\ 4 \in Int
    OBVIOUS
  <2>2. QED
    BY <2>1, FS_Interval DEF Dir, Local, South
<1>4. /\ IsFiniteSet({"spikes", "sync", "eject", "ejectNxt"} \X Node \X {Local})
      /\ IsFiniteSet({"cur", "nxt"} \X Node \X Dir)
  <2>1. IsFiniteSet({Local}) /\ IsFiniteSet({"cur", "nxt"})
    BY <1>1
  <2>2. QED
    BY <2>1, <1>2, <1>3, NodeFinite, TriplesFinite
<1>5. QED
  BY <1>4, FS_Union DEF Line

Mesh == [l \in Line |-> Queue(l)]
Num(A) == Cardinality(Places(A))

LEMMA InLine ==
  ASSUME NEW n \in Node
  PROVE  /\ <<"spikes", n, Local>> \in Line /\ <<"sync", n, Local>> \in Line
         /\ <<"eject", n, Local>> \in Line /\ <<"ejectNxt", n, Local>> \in Line
         /\ \A p \in Dir : <<"cur", n, p>> \in Line /\ <<"nxt", n, p>> \in Line
         /\ Local \in Dir
BY DEF Line, Dir, Local, South

LEMMA LineCases ==
  ASSUME NEW l \in Line
  PROVE  \E n \in Node :
           \/ l \in {<<"spikes", n, Local>>, <<"sync", n, Local>>,
                     <<"eject", n, Local>>, <<"ejectNxt", n, Local>>}
           \/ \E p \in Dir : l \in {<<"cur", n, p>>, <<"nxt", n, p>>}
BY DEF Line

LEMMA MeshQueues ==
  ASSUME EngineTypeOK
  PROVE  /\ Mesh \in Queues(Line, Flit)
         /\ \A n \in Node :
              /\ Mesh[<<"spikes", n, Local>>] = pending_spikes[n]
              /\ Mesh[<<"sync", n, Local>>] = pending_sync[n]
              /\ Mesh[<<"eject", n, Local>>] = eject[n]
              /\ Mesh[<<"ejectNxt", n, Local>>] = ejectNxt[n]
              /\ \A p \in Dir : /\ Mesh[<<"cur", n, p>>] = cur[n][p]
                                /\ Mesh[<<"nxt", n, p>>] = nxt[n][p]
<1>1. ASSUME NEW n \in Node
      PROVE  /\ Mesh[<<"spikes", n, Local>>] = pending_spikes[n]
             /\ Mesh[<<"sync", n, Local>>] = pending_sync[n]
             /\ Mesh[<<"eject", n, Local>>] = eject[n]
             /\ Mesh[<<"ejectNxt", n, Local>>] = ejectNxt[n]
             /\ \A p \in Dir : /\ Mesh[<<"cur", n, p>>] = cur[n][p]
                               /\ Mesh[<<"nxt", n, p>>] = nxt[n][p]
  <2>1. \A l \in Line : Mesh[l] = Queue(l)
    BY DEF Mesh
  <2>2. QED
    BY <2>1, InLine DEF Queue
<1>2. ASSUME NEW l \in Line PROVE Mesh[l] \in Seq(Flit)
  <2>1. PICK n \in Node :
           \/ l \in {<<"spikes", n, Local>>, <<"sync", n, Local>>,
                     <<"eject", n, Local>>, <<"ejectNxt", n, Local>>}
           \/ \E p \in Dir : l \in {<<"cur", n, p>>, <<"nxt", n, p>>}
    BY LineCases
  <2>2. /\ pending_spikes[n] \in Seq(Flit) /\ pending_sync[n] \in Seq(Flit)
        /\ eject[n] \in Seq(Flit) /\ ejectNxt[n] \in Seq(Flit)
        /\ \A p \in Dir : cur[n][p] \in Seq(Flit) /\ nxt[n][p] \in Seq(Flit)
    BY SyncSeq DEF EngineTypeOK, RouterTypeOK
  <2>3. CASE l \in {<<"spikes", n, Local>>, <<"sync", n, Local>>,
                    <<"eject", n, Local>>, <<"ejectNxt", n, Local>>}
    BY <1>1, <2>2, <2>3
  <2>4. CASE \E p \in Dir : l \in {<<"cur", n, p>>, <<"nxt", n, p>>}
    <3>1. PICK p \in Dir : l \in {<<"cur", n, p>>, <<"nxt", n, p>>}
      BY <2>4
    <3>2. CASE l = <<"cur", n, p>>
      BY <1>1, <2>2, <3>2
    <3>3. CASE l = <<"nxt", n, p>>
      BY <1>1, <2>2, <3>3
    <3>4. QED
      BY <3>1, <3>2, <3>3
  <2>5. QED
    BY <2>1, <2>3, <2>4
<1>3. DOMAIN Mesh = Line /\ Mesh = [l \in Line |-> Mesh[l]]
  BY DEF Mesh
<1>4. QED
  BY <1>1, <1>2, <1>3 DEF Queues

LEMMA PlacesAreSpots == \A A : Places(A) = Spots(Mesh, A)
<1>1. DOMAIN Mesh = Line /\ \A l \in Line : Mesh[l] = Queue(l)
  BY DEF Mesh
<1>2. TAKE A
<1> DEFINE P(l) == {<<l, k>> : k \in {j \in DOMAIN Queue(l) : Queue(l)[j] \in A}}
           M(l) == {<<l, k>> : k \in {j \in DOMAIN Mesh[l] : Mesh[l][j] \in A}}
<1>3. \A l \in Line : P(l) = M(l)
  BY <1>1
<1>4. Places(A) = UNION {P(l) : l \in Line}
  BY DEF Places
<1>5. Spots(Mesh, A) = UNION {M(l) : l \in Line}
  BY <1>1 DEF Spots
<1> HIDE DEF P, M
<1>6. QED
  BY <1>3, <1>4, <1>5

LEMMA NumIsNat ==
  ASSUME EngineTypeOK, NEW A
  PROVE  Num(A) \in Nat /\ IsFiniteSet(Places(A))
<1>1. IsFiniteSet(Spots(Mesh, A)) /\ Cardinality(Spots(Mesh, A)) \in Nat
  BY MeshQueues, LineFinite, SpotsFinite
<1>2. QED
  BY <1>1, PlacesAreSpots DEF Num

LEMMA NextNumIsNat == EngineTypeOK' => \A A : Num(A)' \in Nat
<1>1. EngineTypeOK => \A A : Num(A) \in Nat
  BY NumIsNat
<1>2. EngineTypeOK' => (\A A : Num(A) \in Nat)'
  BY <1>1, PTL
<1>3. QED
  BY <1>2

MeshShape ==
  /\ Mesh \in Queues(Line, Flit)
  /\ \A n \in Node :
       /\ Mesh[<<"spikes", n, Local>>] = pending_spikes[n]
       /\ Mesh[<<"sync", n, Local>>] = pending_sync[n]
       /\ Mesh[<<"eject", n, Local>>] = eject[n]
       /\ Mesh[<<"ejectNxt", n, Local>>] = ejectNxt[n]
       /\ \A p \in Dir : /\ Mesh[<<"cur", n, p>>] = cur[n][p]
                         /\ Mesh[<<"nxt", n, p>>] = nxt[n][p]

LEMMA BothMeshes ==
  /\ EngineTypeOK => MeshShape
  /\ EngineTypeOK' => MeshShape'
  /\ \A A : Num(A) = Cardinality(Spots(Mesh, A))
  /\ \A A : Num(A)' = Cardinality(Spots(Mesh', A))
<1>1. EngineTypeOK => MeshShape
  BY MeshQueues DEF MeshShape
<1>2. \A A : Num(A) = Cardinality(Spots(Mesh, A))
  BY PlacesAreSpots DEF Num
<1>3. EngineTypeOK' => MeshShape'
  BY <1>1, PTL
<1>4. (\A A : Num(A) = Cardinality(Spots(Mesh, A)))'
  BY <1>2, PTL
<1>5. \A A : Num(A)' = Cardinality(Spots(Mesh', A))
  BY <1>4 DEF Spots
<1>6. QED
  BY <1>1, <1>2, <1>3, <1>5

(* The queues a step leaves alone, all but those of J. *)
LEMMA MeshSame ==
  ASSUME EngineTypeOK, EngineTypeOK', NEW J,
         \A n \in Node :
           /\ <<"spikes", n, Local>> \in J \/ pending_spikes'[n] = pending_spikes[n]
           /\ <<"sync", n, Local>> \in J \/ pending_sync'[n] = pending_sync[n]
           /\ <<"eject", n, Local>> \in J \/ eject'[n] = eject[n]
           /\ <<"ejectNxt", n, Local>> \in J \/ ejectNxt'[n] = ejectNxt[n]
           /\ \A p \in Dir : /\ <<"cur", n, p>> \in J \/ cur'[n][p] = cur[n][p]
                             /\ <<"nxt", n, p>> \in J \/ nxt'[n][p] = nxt[n][p]
  PROVE  SameOff(J, Mesh, Mesh')
<1>1. MeshShape /\ MeshShape'
  BY BothMeshes
<1>2. ASSUME NEW l \in Line, l \notin J PROVE Mesh'[l] = Mesh[l]
  <2>1. PICK n \in Node :
           \/ l \in {<<"spikes", n, Local>>, <<"sync", n, Local>>,
                     <<"eject", n, Local>>, <<"ejectNxt", n, Local>>}
           \/ \E p \in Dir : l \in {<<"cur", n, p>>, <<"nxt", n, p>>}
    BY LineCases
  <2>2. CASE l \in {<<"spikes", n, Local>>, <<"sync", n, Local>>,
                    <<"eject", n, Local>>, <<"ejectNxt", n, Local>>}
    <3>1. CASE l = <<"spikes", n, Local>>
      BY <1>1, <1>2, <3>1 DEF MeshShape
    <3>2. CASE l = <<"sync", n, Local>>
      BY <1>1, <1>2, <3>2 DEF MeshShape
    <3>3. CASE l = <<"eject", n, Local>>
      BY <1>1, <1>2, <3>3 DEF MeshShape
    <3>4. CASE l = <<"ejectNxt", n, Local>>
      BY <1>1, <1>2, <3>4 DEF MeshShape
    <3>5. QED
      BY <2>2, <3>1, <3>2, <3>3, <3>4
  <2>3. CASE \E p \in Dir : l \in {<<"cur", n, p>>, <<"nxt", n, p>>}
    <3>1. PICK p \in Dir : l \in {<<"cur", n, p>>, <<"nxt", n, p>>}
      BY <2>3
    <3>2. CASE l = <<"cur", n, p>>
      <4>1. <<"cur", n, p>> \notin J
        BY <1>2, <3>2
      <4>2. cur'[n][p] = cur[n][p]
        BY <4>1
      <4>3. Mesh[<<"cur", n, p>>] = cur[n][p] /\ Mesh'[<<"cur", n, p>>] = cur'[n][p]
        BY <1>1 DEF MeshShape
      <4>4. QED
        BY <3>2, <4>2, <4>3
    <3>3. CASE l = <<"nxt", n, p>>
      <4>1. <<"nxt", n, p>> \notin J
        BY <1>2, <3>3
      <4>2. nxt'[n][p] = nxt[n][p]
        BY <4>1
      <4>3. Mesh[<<"nxt", n, p>>] = nxt[n][p] /\ Mesh'[<<"nxt", n, p>>] = nxt'[n][p]
        BY <1>1 DEF MeshShape
      <4>4. QED
        BY <3>3, <4>2, <4>3
    <3>4. QED
      BY <3>1, <3>2, <3>3
  <2>4. QED
    BY <2>1, <2>2, <2>3
<1>3. DOMAIN Mesh = Line
  BY DEF Mesh
<1>4. QED
  BY <1>2, <1>3 DEF SameOff

LEMMA StillMesh ==
  ASSUME EngineTypeOK, EngineTypeOK',
         UNCHANGED <<routerVars, pending_spikes, pending_sync>>, NEW A
  PROVE  Num(A)' = Num(A)
<1>1. UNCHANGED <<cur, nxt, eject, ejectNxt>>
  BY DEF routerVars
<1>2. SameOff({}, Mesh, Mesh')
  <2>1. \A n \in Node :
           /\ pending_spikes'[n] = pending_spikes[n] /\ pending_sync'[n] = pending_sync[n]
           /\ eject'[n] = eject[n] /\ ejectNxt'[n] = ejectNxt[n]
           /\ \A p \in Dir : cur'[n][p] = cur[n][p] /\ nxt'[n][p] = nxt[n][p]
    BY <1>1
  <2>2. QED
    BY <2>1, MeshSame
<1>3. Mesh \in Queues(Line, Flit) /\ Mesh' \in Queues(Line, Flit)
  BY BothMeshes DEF MeshShape
<1> DEFINE c == Mesh
           d == Mesh'
<1>4. d = c
  <2> HIDE DEF c, d
  <2>1. c \in Queues(Line, Flit) /\ d \in Queues(Line, Flit) /\ SameOff({}, c, d)
    BY <1>2, <1>3 DEF c, d
  <2>2. QED
    BY <2>1 DEF Queues, SameOff
<1>5. QED
  BY <1>4, BothMeshes

LEMMA MeshCarries ==
  ASSUME EngineTypeOK, EngineTypeOK'
  PROVE  /\ Carries(Mesh, Line, cur, nxt, eject, ejectNxt)
         /\ Carries(Mesh', Line, cur', nxt', eject', ejectNxt')
<1>1. MeshShape /\ MeshShape'
  BY BothMeshes
<1>2. MeshLine \subseteq Line
  BY DEF MeshLine, Line
<1>3. QED
  BY <1>1, <1>2 DEF MeshShape, Carries

(* What is not of the mesh is what PEs hold back. *)
LEMMA MeshLineSame ==
  ASSUME EngineTypeOK, EngineTypeOK', NEW J,
         \A n \in Node :
           /\ <<"spikes", n, Local>> \in J \/ pending_spikes'[n] = pending_spikes[n]
           /\ <<"sync", n, Local>> \in J \/ pending_sync'[n] = pending_sync[n]
  PROVE  SameOff(MeshLine \cup J, Mesh, Mesh')
<1>1. \A n \in Node :
        /\ <<"eject", n, Local>> \in MeshLine /\ <<"ejectNxt", n, Local>> \in MeshLine
        /\ \A p \in Dir : <<"cur", n, p>> \in MeshLine /\ <<"nxt", n, p>> \in MeshLine
  BY InMeshLine
<1>2. QED
  BY <1>1, MeshSame

(* What a router grants moves; nothing else does. *)
LEMMA ComputeMoves ==
  ASSUME EngineTypeOK, EngineTypeOK', NEW r \in Node, Compute(r),
         UNCHANGED <<pending_spikes, pending_sync>>, NEW A
  PROVE  Num(A)' = Num(A)
<1> DEFINE c == Mesh
           d == Mesh'
<1>1. /\ Carries(c, Line, cur, nxt, eject, ejectNxt)
      /\ Carries(d, Line, cur', nxt', eject', ejectNxt')
  BY MeshCarries
<1>2. SameOff(MeshLine, c, d)
  <2>1. SameOff(MeshLine \cup {}, Mesh, Mesh')
    BY MeshLineSame
  <2>2. QED
    BY <2>1
<1>3. RouterTypeOK /\ IsFiniteSet(Line)
  BY LineFinite DEF EngineTypeOK
<1>4. Num(A)' = Cardinality(Spots(d, A)) /\ Num(A) = Cardinality(Spots(c, A))
  BY BothMeshes
<1> HIDE DEF c, d
<1>5. Cardinality(Spots(d, A)) = Cardinality(Spots(c, A))
  BY <1>1, <1>2, <1>3, ComputeMovesFlits
<1>6. QED
  BY <1>4, <1>5

LEMMA CommitMoves ==
  ASSUME EngineTypeOK, EngineTypeOK', NEW r \in Node, Commit(r),
         UNCHANGED <<pending_spikes, pending_sync>>, NEW A
  PROVE  Num(A)' = Num(A)
<1> DEFINE c == Mesh
           d == Mesh'
<1>1. /\ Carries(c, Line, cur, nxt, eject, ejectNxt)
      /\ Carries(d, Line, cur', nxt', eject', ejectNxt')
  BY MeshCarries
<1>2. SameOff(MeshLine, c, d)
  <2>1. SameOff(MeshLine \cup {}, Mesh, Mesh')
    BY MeshLineSame
  <2>2. QED
    BY <2>1
<1>3. RouterTypeOK /\ IsFiniteSet(Line)
  BY LineFinite DEF EngineTypeOK
<1>4. Num(A)' = Cardinality(Spots(d, A)) /\ Num(A) = Cardinality(Spots(c, A))
  BY BothMeshes
<1> HIDE DEF c, d
<1>5. Cardinality(Spots(d, A)) = Cardinality(Spots(c, A))
  BY <1>1, <1>2, <1>3, CommitMovesFlits
<1>6. QED
  BY <1>4, <1>5

LEMMA CommitEjectMoves ==
  ASSUME EngineTypeOK, EngineTypeOK', NEW n \in Node, CommitEject(n),
         UNCHANGED <<pending_spikes, pending_sync>>, NEW A
  PROVE  Num(A)' = Num(A)
<1> DEFINE c == Mesh
           d == Mesh'
<1>1. /\ Carries(c, Line, cur, nxt, eject, ejectNxt)
      /\ Carries(d, Line, cur', nxt', eject', ejectNxt')
  BY MeshCarries
<1>2. SameOff(MeshLine, c, d)
  <2>1. SameOff(MeshLine \cup {}, Mesh, Mesh')
    BY MeshLineSame
  <2>2. QED
    BY <2>1
<1>3. RouterTypeOK /\ IsFiniteSet(Line)
  BY LineFinite DEF EngineTypeOK
<1>4. Num(A)' = Cardinality(Spots(d, A)) /\ Num(A) = Cardinality(Spots(c, A))
  BY BothMeshes
<1> HIDE DEF c, d
<1>5. Cardinality(Spots(d, A)) = Cardinality(Spots(c, A))
  BY <1>1, <1>2, <1>3, CommitEjectMovesFlits
<1>6. QED
  BY <1>4, <1>5

(* A PE's step takes out what it drains and puts in what it generates. *)
LEMMA PeStepMoves ==
  ASSUME EngineTypeOK, EngineTypeOK', NEW n \in Node, NEW burst \in Seq(Node),
         PeStep(n, burst), NEW A
  PROVE  Num(A)' + Count(eject[n], A)
           = Num(A) + Count(Wires(to_id(n), eject[n], DoneAt(n, burst)), A)
               + Count(NewSpikes(n, burst), A)
<1> DEFINE sync == Syncing(n, burst)
           spikes == Spiking(n, burst)
           wires == Wires(to_id(n), eject[n], DoneAt(n, burst))
           new == NewSpikes(n, burst)
           i == <<"spikes", n, Local>>
           j == <<"sync", n, Local>>
           c == Mesh
           d == Mesh'
<1>1. PICK s \in 0 .. Len(sync), k \in 0 .. Len(spikes) :
        /\ DrainAndInject(n, SubSeq(sync, 1, s) \o SubSeq(spikes, 1, k))
        /\ pending_sync' = [pending_sync EXCEPT ![n] = SubSeq(sync, s + 1, Len(sync))]
        /\ pending_spikes' = [pending_spikes EXCEPT ![n] = SubSeq(spikes, k + 1, Len(spikes))]
  BY PeStepParts
<1>2. /\ wires \in Seq(Flit) /\ new \in Seq(Flit)
      /\ sync = pending_sync[n] \o wires /\ spikes = pending_spikes[n] \o new
  BY StepQueues, SyncSeq DEF Syncing, Spiking, EngineTypeOK
<1> HIDE DEF sync, spikes, wires, new
<1>3. Injects(n, pending_sync[n], wires, pending_spikes[n], new,
              pending_sync'[n], pending_spikes'[n])
  <2>1. /\ pending_sync'[n] = SubSeq(sync, s + 1, Len(sync))
        /\ pending_spikes'[n] = SubSeq(spikes, k + 1, Len(spikes))
    BY <1>1 DEF EngineTypeOK
  <2>2. QED
    BY <1>1, <1>2, <2>1 DEF Injects
<1>4. /\ Carries(c, Line, cur, nxt, eject, ejectNxt)
      /\ Carries(d, Line, cur', nxt', eject', ejectNxt')
  BY MeshCarries
<1>5. /\ i \in Line /\ i \notin MeshLine /\ j \in Line /\ j \notin MeshLine /\ i # j
  BY InLine DEF MeshLine
<1>6. SameOff(MeshLine \cup {i, j}, c, d)
  <2>1. \A m \in Node \ {n} :
          pending_spikes'[m] = pending_spikes[m] /\ pending_sync'[m] = pending_sync[m]
    BY <1>1 DEF EngineTypeOK
  <2>2. \A m \in Node :
          /\ <<"spikes", m, Local>> \in {i, j} \/ pending_spikes'[m] = pending_spikes[m]
          /\ <<"sync", m, Local>> \in {i, j} \/ pending_sync'[m] = pending_sync[m]
    BY <2>1
  <2>3. QED
    BY <2>2, MeshLineSame
<1>7. /\ c[i] = pending_spikes[n] /\ c[j] = pending_sync[n]
      /\ d[i] = pending_spikes'[n] /\ d[j] = pending_sync'[n]
  <2>1. MeshShape /\ MeshShape'
    BY BothMeshes
  <2>2. QED
    BY <2>1, InLine DEF MeshShape
<1>8. Injects(n, c[j], wires, c[i], new, d[j], d[i])
  BY <1>3, <1>7
<1>9. Num(A)' = Cardinality(Spots(d, A)) /\ Num(A) = Cardinality(Spots(c, A))
  BY BothMeshes
<1>10. RouterTypeOK /\ IsFiniteSet(Line)
  BY LineFinite DEF EngineTypeOK
<1> HIDE DEF i, j, c, d
<1>11. Cardinality(Spots(d, A)) + Count(eject[n], A)
         = Cardinality(Spots(c, A)) + Count(wires, A) + Count(new, A)
  BY <1>2, <1>4, <1>5, <1>6, <1>8, <1>10, InjectMovesFlits
<1>12. QED
  BY <1>9, <1>11 DEF wires, new

LEMMA InitNum ==
  ASSUME Init, NEW A
  PROVE  Num(A) = 0
<1>1. EngineTypeOK
  BY InitEngineType
<1>2. MeshShape /\ DOMAIN Mesh = Line
  BY <1>1, BothMeshes DEF Mesh
<1>3. ASSUME NEW l \in Line PROVE Mesh[l] = << >>
  <2>1. PICK n \in Node :
           \/ l \in {<<"spikes", n, Local>>, <<"sync", n, Local>>,
                     <<"eject", n, Local>>, <<"ejectNxt", n, Local>>}
           \/ \E p \in Dir : l \in {<<"cur", n, p>>, <<"nxt", n, p>>}
    BY LineCases
  <2>2. /\ pending_spikes[n] = << >> /\ pending_sync[n] = << >>
        /\ eject[n] = << >> /\ ejectNxt[n] = << >>
        /\ \A p \in Dir : cur[n][p] = << >> /\ nxt[n][p] = << >>
    BY DEF Init, RouterInit
  <2>3. CASE l \in {<<"spikes", n, Local>>, <<"sync", n, Local>>,
                    <<"eject", n, Local>>, <<"ejectNxt", n, Local>>}
    BY <1>2, <2>2, <2>3 DEF MeshShape
  <2>4. CASE \E p \in Dir : l \in {<<"cur", n, p>>, <<"nxt", n, p>>}
    <3>1. PICK p \in Dir : l \in {<<"cur", n, p>>, <<"nxt", n, p>>}
      BY <2>4
    <3>2. QED
      BY <1>2, <2>2, <3>1 DEF MeshShape
  <2>5. QED
    BY <2>1, <2>3, <2>4
<1>4. Spots(Mesh, A) = {}
  <2>1. \A s : s \notin Spots(Mesh, A)
    BY <1>2, <1>3, SpotsUnfold
  <2>2. QED
    BY <2>1
<1>5. QED
  BY <1>4, BothMeshes, FS_EmptySet

-----------------------------------------------------------------------------
(* Flits are ejected only where they are addressed. *)

Home(n) == {f \in Flit : f.dst = n}
EjectHome == \A n \in Node : eject[n] \in Seq(Home(n)) /\ ejectNxt[n] \in Seq(Home(n))

LEMMA EjectHomeInit == Init => EjectHome
BY EmptySeq DEF Init, RouterInit, EjectHome

LEMMA EjectHomeStep ==
  ASSUME EngineTypeOK, EjectHome, [Next]_bspVars
  PROVE  EjectHome'
<1>1. ASSUME UNCHANGED <<eject, ejectNxt>> PROVE EjectHome'
  BY <1>1 DEF EjectHome
<1>2. ASSUME NEW n \in Node, PeCompute(n) PROVE EjectHome'
  <2>1. PICK burst \in Seq(Node) : PeStep(n, burst)
    BY <1>2, PeComputeBurst
  <2>2. eject' = [eject EXCEPT ![n] = << >>] /\ ejectNxt' = ejectNxt
    BY <2>1, PeStepParts DEF DrainAndInject, Drained
  <2>3. QED
    BY <2>2, EmptySeq DEF EjectHome, EngineTypeOK, RouterTypeOK
<1>3. ASSUME NEW n \in Node, RouterCompute(n) PROVE EjectHome'
  <2>1. eject' = eject /\ Compute(n)
    BY <1>3 DEF RouterCompute, Compute
  <2>2. CASE Local \in Granted(n)
    <3>1. Sent(n, Local) \in Home(n)
      <4>1. Sent(n, Local) \in Flit /\ route_xy(n, Sent(n, Local).dst) = Local
        BY <2>2, SentIsFlit DEF EngineTypeOK
      <4>2. Sent(n, Local).dst \in Node
        BY <4>1, FlitAssumption
      <4>3. QED
        BY <4>1, <4>2, RouteOnMesh DEF Home
    <3>2. Append(ejectNxt[n], Sent(n, Local)) \in Seq(Home(n))
      BY <3>1, AppendProperties DEF EjectHome
    <3>3. ejectNxt' = [ejectNxt EXCEPT ![n] = Append(ejectNxt[n], Sent(n, Local))]
      BY <2>1, <2>2 DEF Compute
    <3>4. QED
      BY <2>1, <3>2, <3>3 DEF EjectHome, EngineTypeOK, RouterTypeOK
  <2>3. CASE Local \notin Granted(n)
    <3>1. ejectNxt' = ejectNxt
      BY <2>1, <2>3 DEF Compute, EngineTypeOK, RouterTypeOK
    <3>2. QED
      BY <1>1, <2>1, <3>1
  <2>4. QED
    BY <2>2, <2>3
<1>4. ASSUME NEW n \in Node, PeCommit(n) PROVE EjectHome'
  <2>1. eject[n] \o ejectNxt[n] \in Seq(Home(n)) /\ << >> \in Seq(Home(n))
    BY ConcatProperties, EmptySeq DEF EjectHome
  <2>2. /\ eject' = [eject EXCEPT ![n] = eject[n] \o ejectNxt[n]]
        /\ ejectNxt' = [ejectNxt EXCEPT ![n] = << >>]
    BY <1>4 DEF PeCommit, CommitEject, Merge
  <2>3. QED
    BY <2>1, <2>2 DEF EjectHome, EngineTypeOK, RouterTypeOK
<1>5. ASSUME NEW n \in Node, RouterCommit(n) PROVE EjectHome'
  BY <1>1, <1>5 DEF RouterCommit, Commit
<1>6. CASE EndCompute \/ EndCycle \/ NextTimestep \/ BeginDrain \/ DrainCycle \/ UNCHANGED bspVars
  <2>1. UNCHANGED routerVars
    BY <1>6 DEF EndCompute, EndCycle, NextTimestep, BeginDrain, DrainCycle, bspVars
  <2>2. QED
    BY <1>1, <2>1 DEF routerVars
<1>7. QED
  BY <1>2, <1>3, <1>4, <1>5, <1>6 DEF Next

-----------------------------------------------------------------------------
(* No spike is lost or doubled. *)

LEMMA CountNone ==
  ASSUME NEW S, NEW q \in Seq(S), NEW A, S \cap A = {}
  PROVE  Count(q, A) = 0
<1>1. \A k \in DOMAIN q : q[k] \in S
  BY ElementOfSeq, LenProperties
<1>2. {k \in DOMAIN q : q[k] \in A} = {}
  BY <1>1
<1>3. QED
  BY <1>2, FS_EmptySet DEF Count

LEMMA GeneratedSpikes ==
  ASSUME EngineTypeOK, NEW n \in Node, NEW burst \in Seq(Node),
         ~Generates(n) => burst = << >>, NEW m \in Node
  PROVE  Count(NewSpikes(n, burst), Spikes(m)) = Count(burst, {m})
<1> DEFINE new == NewSpikes(n, burst)
<1>1. CASE Generates(n)
  <2>1. /\ DOMAIN new = DOMAIN burst
        /\ \A k \in DOMAIN burst : new[k] = SpikeFlit(n, burst[k], t)
        /\ new \in Seq(Flit)
    BY <1>1, StepQueues
  <2>2. \A k \in DOMAIN burst : new[k] \in Flit
    BY <2>1, ElementOfSeq, LenProperties
  <2>3. \A k \in DOMAIN burst : new[k] \in Spikes(m) <=> burst[k] \in {m}
    BY <2>1, <2>2 DEF Spikes, is_sync, SpikeFlit
  <2> HIDE DEF new
  <2>4. {k \in DOMAIN new : new[k] \in Spikes(m)} = {k \in DOMAIN burst : burst[k] \in {m}}
    BY <2>1, <2>3
  <2>5. QED
    BY <2>4 DEF Count, new
<1>2. CASE ~Generates(n)
  <2>1. new = << >> /\ burst = << >>
    BY <1>2 DEF NewSpikes
  <2>2. << >> \in Seq(Flit)
    BY EmptySeq
  <2> HIDE DEF new
  <2>3. \A A : Count(<< >>, A) = 0
    BY <2>2, CountIsNat
  <2>4. QED
    BY <2>1, <2>3 DEF new
<1>3. QED
  BY <1>1, <1>2

LEMMA SpikesStep ==
  ASSUME EngineTypeOK, EngineTypeOK', EjectHome, SpikesConserved, [Next]_bspVars
  PROVE  SpikesConserved'
<1>0. SpikesConserved <=> \A n \in Node : owed[n] = Num(Spikes(n))
  BY DEF SpikesConserved, Num
<1>1. ASSUME owed' = owed, \A n \in Node : Num(Spikes(n))' = Num(Spikes(n))
      PROVE  SpikesConserved'
  BY <1>0, <1>1 DEF SpikesConserved, Num
<1>2. ASSUME NEW n \in Node, PeCompute(n) PROVE SpikesConserved'
  <2>1. PICK burst \in Seq(Node) : PeStep(n, burst) /\ (~Generates(n) => burst = << >>)
    BY <1>2, PeComputeBurst
  <2> DEFINE wires == Wires(to_id(n), eject[n], DoneAt(n, burst))
             new == NewSpikes(n, burst)
  <2>2. \A m \in Node : owed'[m] = owed[m] + Count(burst, {m})
                          - (IF m = n THEN Count(eject[n], Spikes(n)) ELSE 0)
    BY <2>1 DEF PeStep
  <2>3. ASSUME NEW m \in Node PROVE owed'[m] = Num(Spikes(m))'
    <3>1. Num(Spikes(m))' + Count(eject[n], Spikes(m))
            = Num(Spikes(m)) + Count(wires, Spikes(m)) + Count(new, Spikes(m))
      BY <2>1, PeStepMoves
    <3>2. Count(wires, Spikes(m)) = 0
      <4>1. wires \in Seq(SyncOnWire) /\ SyncOnWire \cap Spikes(m) = {}
        BY StepQueues DEF SyncOnWire, Spikes
      <4> HIDE DEF wires
      <4>2. QED
        BY <4>1, CountNone
    <3>3. Count(new, Spikes(m)) = Count(burst, {m})
      BY <2>1, GeneratedSpikes
    <3>4. Count(eject[n], Spikes(m)) = IF m = n THEN Count(eject[n], Spikes(n)) ELSE 0
      <4>1. CASE m = n
        BY <4>1
      <4>2. CASE m # n
        <5>1. eject[n] \in Seq(Home(n)) /\ Home(n) \cap Spikes(m) = {}
          BY <4>2 DEF EjectHome, Home, Spikes
        <5>2. Count(eject[n], Spikes(m)) = 0
          BY <5>1, CountNone
        <5>3. QED
          BY <4>2, <5>2
      <4>3. QED
        BY <4>1, <4>2
    <3>5. Count(burst, {m}) \in Nat /\ Count(eject[n], Spikes(m)) \in Nat
      <4>1. eject[n] \in Seq(Flit)
        BY DEF EngineTypeOK, RouterTypeOK
      <4>2. QED
        BY <4>1, CountIsNat
    <3>6. Num(Spikes(m)) \in Nat /\ Num(Spikes(m))' \in Nat
      BY NumIsNat, NextNumIsNat
    <3>7. owed[m] = Num(Spikes(m))
      BY <1>0
    <3> HIDE DEF wires, new
    <3>8. owed'[m] = owed[m] + Count(burst, {m}) - Count(eject[n], Spikes(m))
      BY <2>2, <3>4
    <3>9. Num(Spikes(m))' + Count(eject[n], Spikes(m)) = owed[m] + 0 + Count(burst, {m})
      BY <3>1, <3>2, <3>3, <3>7
    <3>10. QED
      BY <3>5, <3>6, <3>7, <3>8, <3>9
  <2>4. QED
    BY <2>3 DEF SpikesConserved, Num
<1>3. ASSUME NEW n \in Node, RouterCompute(n) \/ PeCommit(n) \/ RouterCommit(n)
      PROVE  SpikesConserved'
  <2>1. UNCHANGED <<pending_spikes, pending_sync, owed>>
    BY <1>3 DEF RouterCompute, PeCommit, RouterCommit, peVars
  <2>2. Compute(n) \/ CommitEject(n) \/ Commit(n)
    BY <1>3 DEF RouterCompute, PeCommit, RouterCommit
  <2>3. \A A : Num(A)' = Num(A)
    BY <2>1, <2>2, ComputeMoves, CommitMoves, CommitEjectMoves
  <2>4. QED
    BY <1>1, <2>1, <2>3
<1>4. CASE EndCompute \/ EndCycle \/ NextTimestep \/ BeginDrain \/ DrainCycle \/ UNCHANGED bspVars
  <2>1. UNCHANGED <<routerVars, pending_spikes, pending_sync, owed>>
    BY <1>4 DEF EndCompute, EndCycle, NextTimestep, BeginDrain, DrainCycle, bspVars, peVars
  <2>2. \A A : Num(A)' = Num(A)
    BY <2>1, StillMesh
  <2>3. QED
    BY <1>1, <2>1, <2>2
<1>5. QED
  BY <1>2, <1>3, <1>4 DEF Next

(* Every spike generated for a PE and not yet drained by it is in exactly one
   queue of the engine, across barriers and through the drain: the credits,
   the two-phase buffers and the arbitration neither lose nor double one
   (pe_stub.cpp:15-55, router.cpp:48-113, engine.cpp:68-124). *)
THEOREM SpikesAreConserved == Spec => []SpikesConserved
<1> DEFINE Inv == EngineTypeOK /\ EjectHome /\ SpikesConserved
<1>1. Init => Inv
  <2> SUFFICES ASSUME Init PROVE Inv
    OBVIOUS
  <2>1. \A n \in Node : owed[n] = 0 /\ Num(Spikes(n)) = 0
    BY InitNum DEF Init
  <2>2. QED
    BY <2>1, InitEngineType, EjectHomeInit DEF SpikesConserved, Num
<1>2. Inv /\ [Next]_bspVars => Inv'
  <2> SUFFICES ASSUME Inv, [Next]_bspVars PROVE Inv'
    OBVIOUS
  <2>1. EngineTypeOK'
    BY EngineTypeStep
  <2>2. QED
    BY <2>1, EjectHomeStep, SpikesStep
<1>3. Inv => SpikesConserved
  OBVIOUS
<1> HIDE DEF Inv
<1>4. QED
  BY <1>1, <1>2, <1>3, PTL DEF Spec

-----------------------------------------------------------------------------
(* What the sweeps leave staged: a PE is given one flit a cycle at most, and
   between cycles nothing is staged. *)

Staged(n) == ejectNxt[n] = << >> /\ \A p \in Dir : nxt[n][p] = << >>

EjectBound == \A n \in Node : Len(eject[n]) <= 1 /\ Len(ejectNxt[n]) <= 1
InCompute ==
  phase = "compute" =>
    \A n \in Node : /\ <<"router", n>> \in todo => ejectNxt[n] = << >>
                    /\ <<"pe", n>> \notin todo => eject[n] = << >>
InCommit ==
  phase = "commit" =>
    \A n \in Node : /\ <<"pe", n>> \in todo => eject[n] = << >>
                    /\ <<"pe", n>> \notin todo => ejectNxt[n] = << >>
                    /\ <<"router", n>> \notin todo => \A p \in Dir : nxt[n][p] = << >>
AtRest == phase \in {"between", "done"} => \A n \in Node : Staged(n)

(* The engine goes on, drains and stops only with every PE released. *)
Released ==
  /\ phase = "between" \/ draining => all_advancing
  /\ phase = "between" => ~draining
  /\ phase = "done" /\ ~deadlock => draining /\ NoneInFlight

SweepInv == EjectBound /\ InCompute /\ InCommit /\ AtRest /\ Released

LEMMA SweepInit == Init => SweepInv
<1> SUFFICES ASSUME Init PROVE SweepInv
  OBVIOUS
<1>1. Len(<< >>) = 0
  BY EmptySeq
<1>2. \A n \in Node : eject[n] = << >> /\ ejectNxt[n] = << >>
  BY DEF Init, RouterInit
<1>3. phase = "compute" /\ draining = FALSE /\ todo = Tickable
  BY DEF Init
<1>4. \A n \in Node : <<"pe", n>> \in Tickable /\ <<"router", n>> \in Tickable
  BY DEF Tickable
<1>5. EjectBound /\ InCompute
  BY <1>1, <1>2, <1>3, <1>4 DEF EjectBound, InCompute
<1>6. InCommit /\ AtRest /\ Released
  BY <1>3 DEF InCommit, AtRest, Released
<1>7. QED
  BY <1>5, <1>6 DEF SweepInv

LEMMA SweepPeCompute ==
  ASSUME EngineTypeOK, SweepInv, NEW n \in Node, PeCompute(n)
  PROVE  SweepInv'
<1>1. PICK burst \in Seq(Node) : PeStep(n, burst)
  BY PeComputeBurst
<1>2. /\ eject' = [eject EXCEPT ![n] = << >>] /\ ejectNxt' = ejectNxt /\ cur' = cur
      /\ SyncStep(to_id(n), eject[n], DoneAt(n, burst))
  BY <1>1, PeStepParts DEF DrainAndInject, Drained
<1>3. /\ phase = "compute" /\ phase' = "compute" /\ todo' = todo \ {<<"pe", n>>}
      /\ draining' = draining
  BY DEF PeCompute, Take
<1>4. eject \in [Node -> Seq(Flit)] /\ Len(<< >>) = 0
  BY EmptySeq DEF EngineTypeOK, RouterTypeOK
<1>5. EjectBound'
  BY <1>2, <1>4 DEF SweepInv, EjectBound
<1>6. InCompute'
  BY <1>2, <1>3, <1>4 DEF SweepInv, InCompute
<1>7. InCommit' /\ AtRest'
  BY <1>3 DEF InCommit, AtRest
<1>8. all_advancing => all_advancing'
  BY <1>2 DEF all_advancing, ready_to_advance, SyncStep, NextStage, ChildrenStage,
     LocalStage, EngineTypeOK, SyncTypeOK
<1>9. Released'
  BY <1>3, <1>8 DEF SweepInv, Released
<1>10. QED
  BY <1>5, <1>6, <1>7, <1>9 DEF SweepInv

LEMMA SweepRouterCompute ==
  ASSUME EngineTypeOK, SweepInv, NEW r \in Node, RouterCompute(r)
  PROVE  SweepInv'
<1>1. /\ phase = "compute" /\ phase' = "compute" /\ todo' = todo \ {<<"router", r>>}
      /\ draining' = draining /\ <<"router", r>> \in todo /\ UNCHANGED syncVars
  BY DEF RouterCompute, Take
<1>2. /\ eject' = eject
      /\ ejectNxt' = [ejectNxt EXCEPT ![r] =
           IF Local \in Granted(r) THEN Append(@, Sent(r, Local)) ELSE @]
  BY DEF RouterCompute, Compute
<1>3. /\ eject \in [Node -> Seq(Flit)] /\ ejectNxt \in [Node -> Seq(Flit)]
      /\ ejectNxt[r] = << >>
  BY <1>1 DEF EngineTypeOK, RouterTypeOK, SweepInv, InCompute
<1>4. Len(ejectNxt'[r]) <= 1
  <2>1. CASE Local \in Granted(r)
    <3>1. ejectNxt'[r] = Append(<< >>, Sent(r, Local))
      BY <1>2, <1>3, <2>1
    <3>2. QED
      BY <3>1
  <2>2. CASE Local \notin Granted(r)
    <3>1. ejectNxt'[r] = << >>
      BY <1>2, <1>3, <2>2
    <3>2. QED
      BY <3>1
  <2>3. QED
    BY <2>1, <2>2
<1>5. \A n \in Node \ {r} : ejectNxt'[n] = ejectNxt[n]
  BY <1>2, <1>3
<1>6. EjectBound'
  BY <1>2, <1>4, <1>5 DEF SweepInv, EjectBound
<1>7. InCompute'
  BY <1>1, <1>2, <1>5 DEF SweepInv, InCompute
<1>8. InCommit' /\ AtRest'
  BY <1>1 DEF InCommit, AtRest
<1>9. Released'
  BY <1>1 DEF SweepInv, Released, all_advancing, ready_to_advance, syncVars
<1>10. QED
  BY <1>6, <1>7, <1>8, <1>9 DEF SweepInv

LEMMA SweepPeCommit ==
  ASSUME EngineTypeOK, SweepInv, NEW n \in Node, PeCommit(n)
  PROVE  SweepInv'
<1>1. /\ phase = "commit" /\ phase' = "commit" /\ todo' = todo \ {<<"pe", n>>}
      /\ draining' = draining /\ <<"pe", n>> \in todo /\ UNCHANGED syncVars
  BY DEF PeCommit, Take
<1>2. /\ eject' = [eject EXCEPT ![n] = @ \o ejectNxt[n]]
      /\ ejectNxt' = [ejectNxt EXCEPT ![n] = << >>] /\ nxt' = nxt
  BY DEF PeCommit, CommitEject, Merge
<1>3. /\ eject \in [Node -> Seq(Flit)] /\ ejectNxt \in [Node -> Seq(Flit)]
      /\ eject[n] = << >> /\ Len(<< >>) = 0
  BY <1>1, EmptySeq DEF EngineTypeOK, RouterTypeOK, SweepInv, InCommit
<1>4. eject'[n] = ejectNxt[n] /\ ejectNxt'[n] = << >>
  BY <1>2, <1>3, ConcatEmptySeq
<1>5. \A m \in Node \ {n} : eject'[m] = eject[m] /\ ejectNxt'[m] = ejectNxt[m]
  BY <1>2, <1>3
<1>6. EjectBound'
  BY <1>3, <1>4, <1>5 DEF SweepInv, EjectBound
<1>7. InCommit'
  BY <1>1, <1>2, <1>4, <1>5 DEF SweepInv, InCommit
<1>8. InCompute' /\ AtRest'
  BY <1>1 DEF InCompute, AtRest
<1>9. Released'
  BY <1>1 DEF SweepInv, Released, all_advancing, ready_to_advance, syncVars
<1>10. QED
  BY <1>6, <1>7, <1>8, <1>9 DEF SweepInv

LEMMA SweepRouterCommit ==
  ASSUME EngineTypeOK, SweepInv, NEW r \in Node, RouterCommit(r)
  PROVE  SweepInv'
<1>1. /\ phase = "commit" /\ phase' = "commit" /\ todo' = todo \ {<<"router", r>>}
      /\ draining' = draining /\ UNCHANGED <<syncVars, eject, ejectNxt>>
  BY DEF RouterCommit, Commit, Take
<1>2. nxt' = [nxt EXCEPT ![r] = [p \in Dir |-> << >>]] /\ DOMAIN nxt = Node
  BY DEF RouterCommit, Commit, EngineTypeOK, RouterTypeOK
<1>3. EjectBound'
  BY <1>1 DEF SweepInv, EjectBound
<1>4. InCommit'
  BY <1>1, <1>2 DEF SweepInv, InCommit
<1>5. InCompute' /\ AtRest'
  BY <1>1 DEF InCompute, AtRest
<1>6. Released'
  BY <1>1 DEF SweepInv, Released, all_advancing, ready_to_advance, syncVars
<1>7. QED
  BY <1>3, <1>4, <1>5, <1>6 DEF SweepInv

LEMMA SweepStep ==
  ASSUME EngineTypeOK, SweepInv, [Next]_bspVars
  PROVE  SweepInv'
<1>1. \A n \in Node : <<"pe", n>> \in Tickable /\ <<"router", n>> \in Tickable
  BY DEF Tickable
<1>2. phase = "commit" /\ todo = {} => \A n \in Node : Staged(n)
  BY DEF SweepInv, InCommit, Staged
<1>3. ASSUME UNCHANGED <<routerVars, syncVars>>
      PROVE  /\ EjectBound' /\ UNCHANGED <<eject, ejectNxt, nxt>>
             /\ all_advancing' <=> all_advancing
             /\ NoneInFlight' <=> NoneInFlight
  BY <1>3 DEF SweepInv, EjectBound, all_advancing, ready_to_advance, NoneInFlight,
     routerVars, syncVars
<1>4. CASE EndCompute
  <2>1. /\ UNCHANGED <<routerVars, syncVars>> /\ phase = "compute" /\ todo = {}
        /\ phase' = "commit" /\ todo' = Tickable /\ draining' = draining
    BY <1>4 DEF EndCompute, Sweep
  <2>2. InCommit'
    BY <1>1, <1>3, <2>1 DEF SweepInv, InCompute, InCommit
  <2>3. InCompute' /\ AtRest' /\ Released'
    BY <1>3, <2>1 DEF SweepInv, InCompute, AtRest, Released
  <2>4. QED
    BY <1>3, <2>1, <2>2, <2>3 DEF SweepInv
<1>5. ASSUME UNCHANGED <<routerVars, syncVars>>, \A n \in Node : Staged(n),
             (phase' = "compute" /\ todo' = Tickable) \/ phase' \in {"between", "done"}
      PROVE  EjectBound' /\ InCompute' /\ InCommit' /\ AtRest'
  <2>1. \A n \in Node : ejectNxt'[n] = << >> /\ \A p \in Dir : nxt'[n][p] = << >>
    BY <1>3, <1>5 DEF Staged
  <2>2. InCompute'
    BY <1>1, <1>5, <2>1 DEF InCompute
  <2>3. InCommit' /\ AtRest'
    BY <1>5, <2>1 DEF InCommit, AtRest, Staged
  <2>4. QED
    BY <1>3, <1>5, <2>2, <2>3
<1>6. CASE EndCycle
  <2>1. /\ UNCHANGED <<routerVars, syncVars>> /\ phase = "commit" /\ todo = {}
        /\ draining' = draining /\ ~draining
    BY <1>6 DEF EndCycle
  <2>2. \/ all_advancing /\ phase' = "between"
        \/ phase' = "compute" /\ todo' = Tickable
        \/ deadlock' = TRUE /\ phase' = "done"
    BY <1>6 DEF EndCycle, Sweep
  <2>3. EjectBound' /\ InCompute' /\ InCommit' /\ AtRest'
    BY <1>2, <1>5, <2>1, <2>2
  <2>4. Released'
    BY <1>3, <2>1, <2>2 DEF Released
  <2>5. QED
    BY <2>3, <2>4 DEF SweepInv
<1>7. CASE NextTimestep
  <2>1. /\ phase = "between" /\ phase' = "compute" /\ todo' = Tickable
        /\ draining' = draining /\ UNCHANGED <<eject, ejectNxt, nxt>>
    BY <1>7 DEF NextTimestep, Sweep, routerVars
  <2>2. \A n \in Node : Staged(n)
    BY <2>1 DEF SweepInv, AtRest
  <2>3. EjectBound' /\ InCompute'
    BY <1>1, <2>1, <2>2 DEF SweepInv, EjectBound, InCompute, Staged
  <2>4. InCommit' /\ AtRest' /\ Released'
    BY <2>1 DEF SweepInv, InCommit, AtRest, Released
  <2>5. QED
    BY <2>3, <2>4 DEF SweepInv
<1>8. CASE BeginDrain \/ DrainCycle
  <2>1. /\ UNCHANGED <<routerVars, syncVars>> /\ draining' = TRUE
        /\ \/ phase = "between"
           \/ phase = "commit" /\ todo = {} /\ draining
        /\ \/ phase' = "compute" /\ todo' = Tickable
           \/ phase' = "done" /\ deadlock' = ~NoneInFlight
    BY <1>8 DEF BeginDrain, DrainCycle, DrainOn, Sweep
  <2>2. (\A n \in Node : Staged(n)) /\ all_advancing
    BY <1>2, <2>1 DEF SweepInv, AtRest, Released
  <2>3. EjectBound' /\ InCompute' /\ InCommit' /\ AtRest'
    BY <1>5, <2>1, <2>2
  <2>4. Released'
    BY <1>3, <2>1, <2>2 DEF Released
  <2>5. QED
    BY <2>3, <2>4 DEF SweepInv
<1>9. CASE UNCHANGED bspVars
  <2>1. UNCHANGED <<routerVars, syncVars, engineVars>>
    BY <1>9 DEF bspVars
  <2>2. QED
    BY <1>3, <2>1 DEF SweepInv, InCompute, InCommit, AtRest, Staged, Released, engineVars
<1>10. QED
  BY <1>4, <1>6, <1>7, <1>8, <1>9, SweepPeCompute, SweepRouterCompute, SweepPeCommit,
     SweepRouterCommit DEF Next

-----------------------------------------------------------------------------
(* The engine as an instance of SyncProtocol: the copies of a sync flit under
   way are its places in the mesh. *)

Copies == [f \in SyncFlit |-> Num({OnWire(f)})]
AllDone == [i \in Pe |-> LocalDone(to_coord(i))]
P == INSTANCE SyncProtocolProofs WITH local_done <- AllDone, net <- Copies

LEMMA SameController ==
  /\ \A i, fs, d : P!SyncStep(i, fs, d) <=> SyncStep(i, fs, d)
  /\ \A i, fs, d : P!SyncEmits(i, fs, d) = SyncEmits(i, fs, d)
<1>1. \A S : P!Cardinality(S) = Cardinality(S)
  BY DEF P!Cardinality, Cardinality
<1>2. \A i, fs : P!Reported(i, fs) = Reported(i, fs) /\ P!Nexted(i, fs) = Nexted(i, fs)
  <2>1. TAKE i, fs
  <2> DEFINE K == {k \in DOMAIN fs : fs[k].type = "Report" /\ Fresh(i, fs[k])}
  <2>2. P!Reported(i, fs) = children_reported[i] + P!Cardinality(K)
    BY DEF P!Reported, P!Fresh, Fresh
  <2>3. Reported(i, fs) = children_reported[i] + Cardinality(K)
    BY DEF Reported
  <2>4. P!Nexted(i, fs) = Nexted(i, fs)
    BY DEF P!Nexted, P!Fresh, Nexted, Fresh
  <2> HIDE DEF K
  <2>5. QED
    BY <1>1, <2>2, <2>3, <2>4
<1>3. \A i, d, r : P!ChildrenStage(i, d, r) = ChildrenStage(i, d, r)
  BY DEF P!ChildrenStage, P!LocalStage, ChildrenStage, LocalStage, P!child_count,
     child_count, P!left_child, P!right_child, left_child, right_child, P!is_root, is_root
<1>4. \A i, d, r, m : P!NextStage(i, d, r, m) = NextStage(i, d, r, m)
  BY <1>3 DEF P!NextStage, NextStage
<1>5. \A i, d, r, m : P!Emitted(i, d, r, m) = Emitted(i, d, r, m)
  BY <1>3, <1>4 DEF P!Emitted, Emitted, P!LocalStage, LocalStage, P!make_report,
     make_report, P!make_next, make_next, P!children, children, P!left_child,
     P!right_child, left_child, right_child, P!parent, parent
<1>6. \A i, fs, d : P!SyncStep(i, fs, d) <=> SyncStep(i, fs, d)
  BY <1>2, <1>4 DEF P!SyncStep, SyncStep
<1>7. \A i, fs, d : P!SyncEmits(i, fs, d) = SyncEmits(i, fs, d)
  BY <1>2, <1>5 DEF P!SyncEmits, SyncEmits
<1>8. QED
  BY <1>6, <1>7

LEMMA WireInjective ==
  ASSUME NEW f \in SyncFlit, NEW g \in SyncFlit, OnWire(f) = OnWire(g)
  PROVE  f = g
<1>1. /\ f = [type |-> f.type, src |-> f.src, dst |-> f.dst, timestep |-> f.timestep]
      /\ g = [type |-> g.type, src |-> g.src, dst |-> g.dst, timestep |-> g.timestep]
      /\ f.src \in Pe /\ g.src \in Pe /\ f.dst \in Pe /\ g.dst \in Pe
  BY DEF SyncFlit
<1>2. /\ OnWire(f) = [type |-> f.type, src |-> to_coord(f.src),
                      dst |-> to_coord(f.dst), timestep |-> f.timestep]
      /\ OnWire(g) = [type |-> g.type, src |-> to_coord(g.src),
                      dst |-> to_coord(g.dst), timestep |-> g.timestep]
  BY SyncFlitOnWire
<1>3. /\ f.type = g.type /\ f.timestep = g.timestep
      /\ to_coord(f.src) = to_coord(g.src) /\ to_coord(f.dst) = to_coord(g.dst)
  <2> DEFINE a == to_coord(f.src)
             b == to_coord(f.dst)
             c == to_coord(g.src)
             d == to_coord(g.dst)
  <2>1. [type |-> f.type, src |-> a, dst |-> b, timestep |-> f.timestep]
          = [type |-> g.type, src |-> c, dst |-> d, timestep |-> g.timestep]
    BY <1>2
  <2> HIDE DEF a, b, c, d
  <2>2. f.type = g.type /\ f.timestep = g.timestep /\ a = c /\ b = d
    BY <2>1
  <2>3. QED
    BY <2>2 DEF a, b, c, d
<1>4. \A i \in Pe : to_id(to_coord(i)) = i
  BY PeAtNode
<1>5. f.src = g.src /\ f.dst = g.dst
  BY <1>1, <1>3, <1>4
<1>6. QED
  BY <1>1, <1>3, <1>5

LEMMA WireSource ==
  ASSUME NEW g \in SyncOnWire
  PROVE  \E f \in SyncFlit : OnWire(f) = g /\ f.dst = to_id(g.dst)
<1> DEFINE f == [type |-> g.type, src |-> to_id(g.src), dst |-> to_id(g.dst),
                 timestep |-> g.timestep]
<1>1. g \in [type : {"Report", "NextTimestep", "Spike"}, src : Node, dst : Node,
             timestep : Timestep] /\ g.type # "Spike"
  BY WireAssumption DEF SyncOnWire, is_sync
<1>2. /\ g.type \in {"Report", "NextTimestep"} /\ g.src \in Node /\ g.dst \in Node
      /\ g.timestep \in Timestep
      /\ g = [type |-> g.type, src |-> g.src, dst |-> g.dst, timestep |-> g.timestep]
  BY <1>1
<1>3. /\ to_id(g.src) \in Pe /\ to_coord(to_id(g.src)) = g.src
      /\ to_id(g.dst) \in Pe /\ to_coord(to_id(g.dst)) = g.dst
  BY <1>2, PeAtNode
<1>4. f \in SyncFlit
  BY <1>2, <1>3 DEF SyncFlit
<1>5. OnWire(f) = [type |-> f.type, src |-> to_coord(f.src),
                   dst |-> to_coord(f.dst), timestep |-> f.timestep]
  BY <1>4, SyncFlitOnWire
<1>6. OnWire(f) = g
  BY <1>2, <1>3, <1>5
<1>7. QED
  BY <1>4, <1>6

(* The sync flits of a step, on the wire and off it. *)
LEMMA WiresAreEmitted ==
  ASSUME SyncTypeOK, NEW i \in Pe, NEW fs, NEW d \in BOOLEAN, NEW f \in SyncFlit
  PROVE  Count(Wires(i, fs, d), {OnWire(f)}) = P!One(f \in SyncEmits(i, fs, d))
<1> DEFINE p == make_report(i)
           l == make_next(i, 2 * i + 1)
           r == make_next(i, 2 * i + 2)
           R == EmitsReport(i, fs, d)
           N == EmitsNexts(i, fs, d)
<1>1. f \in SyncEmits(i, fs, d) <=>
        \/ R /\ f = p
        \/ N /\ 2 * i + 1 \in Pe /\ f = l
        \/ N /\ 2 * i + 2 \in Pe /\ f = r
  <2>1. SyncEmits(i, fs, d) = (IF R THEN {p} ELSE {})
          \cup (IF N THEN {make_next(i, c) : c \in children(i, NumPe)} ELSE {})
    BY DEF SyncEmits, Emitted, EmitsReport, EmitsNexts
  <2>2. \A c : c \in children(i, NumPe) <=>
          (c = 2 * i + 1 /\ 2 * i + 1 \in Pe) \/ (c = 2 * i + 2 /\ 2 * i + 2 \in Pe)
    BY Heap
  <2>3. f \in {make_next(i, c) : c \in children(i, NumPe)} <=>
          (f = l /\ 2 * i + 1 \in Pe) \/ (f = r /\ 2 * i + 2 \in Pe)
    BY <2>2
  <2> HIDE DEF R, N, p, l, r
  <2>4. QED
    BY <2>1, <2>3
<1>2. Count(Wires(i, fs, d), {OnWire(f)}) =
        (IF R /\ OnWire(p) \in {OnWire(f)} THEN 1 ELSE 0)
        + (IF N /\ 2 * i + 1 \in Pe /\ OnWire(l) \in {OnWire(f)} THEN 1 ELSE 0)
        + (IF N /\ 2 * i + 2 \in Pe /\ OnWire(r) \in {OnWire(f)} THEN 1 ELSE 0)
  BY WiresOf
<1>3. /\ R => p \in SyncFlit
      /\ 2 * i + 1 \in Pe => l \in SyncFlit
      /\ 2 * i + 2 \in Pe => r \in SyncFlit
  BY WiresOf, EmittedAreSyncFlits
<1>4. p # l /\ p # r /\ l # r
  <2>1. p.type = "Report" /\ l.type = "NextTimestep" /\ r.type = "NextTimestep"
    BY DEF make_report, make_next
  <2>2. l.dst = 2 * i + 1 /\ r.dst = 2 * i + 2 /\ i \in Nat
    BY Heap DEF make_next
  <2> HIDE DEF p, l, r
  <2>3. QED
    BY <2>1, <2>2
<1> HIDE DEF p, l, r, R, N
<1>5. /\ R => (OnWire(p) \in {OnWire(f)} <=> f = p)
      /\ 2 * i + 1 \in Pe => (OnWire(l) \in {OnWire(f)} <=> f = l)
      /\ 2 * i + 2 \in Pe => (OnWire(r) \in {OnWire(f)} <=> f = r)
  BY <1>3, WireInjective
<1>6. QED
  BY <1>1, <1>2, <1>4, <1>5 DEF P!One

LEMMA SomewhereCounts ==
  ASSUME EngineTypeOK, NEW l \in Line, NEW k \in DOMAIN Mesh[l], NEW A, Mesh[l][k] \in A
  PROVE  Num(A) > 0
<1>1. <<l, k>> \in Spots(Mesh, A)
  BY SpotsUnfold DEF Mesh
<1>2. Num(A) \in Nat /\ IsFiniteSet(Places(A)) /\ Places(A) = Spots(Mesh, A)
  BY NumIsNat, PlacesAreSpots
<1>3. Cardinality(Places(A)) # 0
  BY <1>1, <1>2, FS_EmptySet
<1>4. QED
  BY <1>2, <1>3 DEF Num

(* What the controller of PE n hears among the flits ejected to it: nothing,
   or one sync flit. *)
LEMMA HeardAt ==
  ASSUME EngineTypeOK, EjectHome, SweepInv, NEW n \in Node
  PROVE  \E fs :
           /\ \/ fs = << >>
              \/ \E f \in SyncFlit : fs = <<f>> /\ Copies[f] > 0 /\ f.dst = to_id(n)
           /\ Reported(to_id(n), eject[n]) = Reported(to_id(n), fs)
           /\ Nexted(to_id(n), eject[n]) = Nexted(to_id(n), fs)
           /\ \A f \in SyncFlit : Count(eject[n], {OnWire(f)}) = P!One(P!Got(fs, f))
<1> DEFINE i == to_id(n)
           q == eject[n]
<1>1. i \in Pe /\ q \in Seq(Flit) /\ q \in Seq(Home(n)) /\ Len(q) <= 1 /\ Len(q) \in Nat
  BY PeAtNode, LenProperties DEF EngineTypeOK, RouterTypeOK, EjectHome, SweepInv, EjectBound
<1>2. CASE q = << >>
  <2>1. ASSUME NEW f \in SyncFlit PROVE Count(<< >>, {OnWire(f)}) = 0
    <3> DEFINE A == {OnWire(f)}
    <3>1. << >> \in Seq(Flit)
      OBVIOUS
    <3> HIDE DEF A
    <3>2. Count(<< >>, A) = 0
      BY <3>1, CountIsNat
    <3>3. QED
      BY <3>2 DEF A
  <2>2. \A f : ~P!Got(<< >>, f)
    BY DEF P!Got
  <2>3. \A f \in SyncFlit : Count(q, {OnWire(f)}) = P!One(P!Got(<< >>, f))
    BY <1>2, <2>1, <2>2 DEF P!One
  <2>4. Reported(i, q) = Reported(i, << >>) /\ Nexted(i, q) = Nexted(i, << >>)
    BY <1>2
  <2> HIDE DEF i, q
  <2>5. QED
    BY <2>3, <2>4 DEF i, q
<1>3. CASE q # << >>
  <2> DEFINE g == Head(q)
  <2>1. q = <<g>> /\ g \in Home(n) /\ g \in Flit
    <3>1. Len(q) = 1
      <4> HIDE DEF q
      <4>1. Len(q) \in Nat \ {0}
        BY <1>1, <1>3, EmptySeq
      <4>2. Len(q) <= 1
        BY <1>1
      <4>3. QED
        BY <4>1, <4>2
    <3>2. q = <<q[1]>> /\ Head(q) = q[1]
      BY <1>1, <3>1
    <3>3. Head(q) \in Home(n)
      BY <1>1, <1>3, HeadTailProperties
    <3>4. QED
      BY <3>2, <3>3 DEF Home
  <2>2. <<"eject", n, Local>> \in Line /\ Mesh[<<"eject", n, Local>>] = q
    BY InLine, BothMeshes DEF MeshShape
  <2> HIDE DEF q, g
  <2>3. CASE is_sync(g)
    <3>1. g \in SyncOnWire /\ g.dst = n
      BY <2>1, <2>3 DEF SyncOnWire, Home
    <3>2. PICK h \in SyncFlit : OnWire(h) = g /\ h.dst = i
      BY <3>1, WireSource DEF i
    <3>3. Copies[h] > 0
      <4>1. 1 \in DOMAIN Mesh[<<"eject", n, Local>>] /\ Mesh[<<"eject", n, Local>>][1] = g
        BY <2>1, <2>2
      <4>2. Num({OnWire(h)}) > 0
        BY <2>2, <3>2, <4>1, SomewhereCounts
      <4>3. QED
        BY <4>2 DEF Copies
    <3>4. \A k \in DOMAIN <<g>> : <<g>>[k] = g /\ <<h>>[k] = h
      OBVIOUS
    <3>5. h.type = g.type /\ (Fresh(i, h) <=> Fresh(i, g)) /\ DOMAIN <<g>> = DOMAIN <<h>>
      BY <3>2, SyncFlitOnWire DEF Fresh
    <3>6. Reported(i, <<g>>) = Reported(i, <<h>>)
      <4>1. {k \in DOMAIN <<g>> : <<g>>[k].type = "Report" /\ Fresh(i, <<g>>[k])}
              = {k \in DOMAIN <<h>> : <<h>>[k].type = "Report" /\ Fresh(i, <<h>>[k])}
        BY <3>4, <3>5
      <4>2. QED
        BY <4>1 DEF Reported
    <3>7. Nexted(i, <<g>>) = Nexted(i, <<h>>)
      <4>1. Nexted(i, <<g>>) <=> next_received[i] \/ (g.type = "NextTimestep" /\ Fresh(i, g))
        <5>1. DOMAIN <<g>> = {1} /\ <<g>>[1] = g
          OBVIOUS
        <5>2. QED
          BY <5>1 DEF Nexted
      <4>2. Nexted(i, <<h>>) <=> next_received[i] \/ (h.type = "NextTimestep" /\ Fresh(i, h))
        <5>1. DOMAIN <<h>> = {1} /\ <<h>>[1] = h
          OBVIOUS
        <5>2. QED
          BY <5>1 DEF Nexted
      <4>3. Nexted(i, <<g>>) \in BOOLEAN /\ Nexted(i, <<h>>) \in BOOLEAN
        BY DEF Nexted
      <4>4. QED
        BY <3>5, <4>1, <4>2, <4>3
    <3>8. ASSUME NEW f \in SyncFlit
          PROVE  Count(<<g>>, {OnWire(f)}) = P!One(P!Got(<<h>>, f))
      <4>1. Count(<<g>>, {OnWire(f)}) = IF g \in {OnWire(f)} THEN 1 ELSE 0
        BY CountOne
      <4>2. g \in {OnWire(f)} <=> h = f
        BY <3>2, WireInjective
      <4>3. P!Got(<<h>>, f) <=> h = f
        BY DEF P!Got
      <4>4. QED
        BY <4>1, <4>2, <4>3 DEF P!One
    <3>9. QED
      BY <2>1, <3>2, <3>3, <3>6, <3>7, <3>8 DEF i, q
  <2>4. CASE ~is_sync(g)
    <3>1. g.type = "Spike"
      BY <2>4 DEF is_sync
    <3>2. Reported(i, <<g>>) = Reported(i, << >>)
      <4>1. {k \in DOMAIN <<g>> : <<g>>[k].type = "Report" /\ Fresh(i, <<g>>[k])} = {}
        BY <3>1
      <4>2. {k \in DOMAIN << >> : << >>[k].type = "Report" /\ Fresh(i, << >>[k])} = {}
        OBVIOUS
      <4>3. QED
        BY <4>1, <4>2 DEF Reported
    <3>3. Nexted(i, <<g>>) = Nexted(i, << >>)
      <4>1. Nexted(i, <<g>>) <=> next_received[i]
        BY <3>1 DEF Nexted
      <4>2. Nexted(i, << >>) <=> next_received[i]
        <5>1. DOMAIN << >> = {}
          OBVIOUS
        <5>2. QED
          BY <5>1, Zenon DEF Nexted
      <4>3. Nexted(i, <<g>>) \in BOOLEAN /\ Nexted(i, << >>) \in BOOLEAN
        BY DEF Nexted
      <4>4. QED
        BY <4>1, <4>2, <4>3
    <3>4. ASSUME NEW f \in SyncFlit
          PROVE  Count(<<g>>, {OnWire(f)}) = P!One(P!Got(<< >>, f))
      <4>1. Count(<<g>>, {OnWire(f)}) = IF g \in {OnWire(f)} THEN 1 ELSE 0
        BY CountOne
      <4>2. g \notin {OnWire(f)}
        BY <2>4, SyncFlitOnWire DEF SyncOnWire
      <4>3. ~P!Got(<< >>, f)
        BY DEF P!Got
      <4>4. QED
        BY <4>1, <4>2, <4>3 DEF P!One
    <3>5. QED
      BY <2>1, <3>2, <3>3, <3>4 DEF i, q
  <2>5. QED
    BY <2>3, <2>4
<1>4. QED
  BY <1>2, <1>3

LEMMA SameHeard ==
  ASSUME NEW i, NEW fs, NEW gs, NEW d,
         Reported(i, fs) = Reported(i, gs), Nexted(i, fs) = Nexted(i, gs)
  PROVE  /\ SyncStep(i, fs, d) <=> SyncStep(i, gs, d)
         /\ SyncEmits(i, fs, d) = SyncEmits(i, gs, d)
BY DEF SyncStep, SyncEmits

LEMMA LocalWork ==
  ASSUME EngineTypeOK, NEW n \in Node, NEW burst \in Seq(Node), PeStep(n, burst)
  PROVE  /\ AllDone[to_id(n)] => DoneAt(n, burst)
         /\ \E after \in BOOLEAN :
              AllDone' = [AllDone EXCEPT ![to_id(n)] = DoneAt(n, burst) \/ after]
<1> DEFINE i == to_id(n)
           d == DoneAt(n, burst)
           spikes == Spiking(n, burst)
<1>1. i \in Pe /\ to_coord(i) = n /\ \A j \in Pe \ {i} : to_coord(j) \in Node \ {n}
  BY PeAtNode
<1>2. spikes \in Seq(Flit) /\ d \in BOOLEAN
  BY StepQueues
<1>3. PICK k \in 0 .. Len(spikes) :
        /\ pending_spikes' = [pending_spikes EXCEPT ![n] = SubSeq(spikes, k + 1, Len(spikes))]
        /\ spikes_generated' = [spikes_generated EXCEPT ![n] = @ \/ Generates(n)]
  BY PeStepParts
<1>4. AllDone[i] => d
  <2>1. ASSUME LocalDone(n) PROVE d
    <3>1. spikes_generated[n] /\ pending_spikes[n] = << >> /\ ~Generates(n)
      BY <2>1 DEF LocalDone, Generates
    <3>2. spikes = << >> \o << >>
      BY <3>1 DEF Spiking, NewSpikes
    <3>3. << >> \o << >> = << >>
      OBVIOUS
    <3>4. QED
      BY <3>1, <3>2, <3>3 DEF DoneAt
  <2>2. QED
    BY <1>1, <2>1 DEF AllDone
<1>5. d => LocalDone(n)'
  <2>1. SUFFICES ASSUME d PROVE LocalDone(n)'
    OBVIOUS
  <2>2. spikes = << >> /\ (spikes_generated[n] \/ Generates(n))
    BY <2>1 DEF DoneAt
  <2>3. SubSeq(spikes, k + 1, Len(spikes)) = << >>
    <3> HIDE DEF spikes
    <3>1. /\ Len(spikes) = 0 /\ k = 0
          /\ SubSeq(spikes, k + 1, Len(spikes)) \in Seq(Flit)
          /\ Len(SubSeq(spikes, k + 1, Len(spikes))) = Len(spikes) - k
      BY <1>2, <2>2, CountSplit, EmptySeq
    <3>2. QED
      BY <3>1, EmptySeq
  <2>4. QED
    BY <1>3, <2>2, <2>3 DEF LocalDone, EngineTypeOK
<1>6. AllDone' = [AllDone EXCEPT ![i] = d \/ LocalDone(n)']
  <2>1. \A j \in Pe \ {i} : LocalDone(to_coord(j))' <=> LocalDone(to_coord(j))
    BY <1>1, <1>3 DEF LocalDone, EngineTypeOK
  <2>2. LocalDone(to_coord(i))' <=> d \/ LocalDone(n)'
    BY <1>1, <1>5 DEF LocalDone
  <2>3. AllDone' = [j \in Pe |-> LocalDone(to_coord(j))']
    BY DEF AllDone
  <2>4. \A j \in Pe : LocalDone(to_coord(j)) \in BOOLEAN /\ LocalDone(to_coord(j))' \in BOOLEAN
    BY DEF LocalDone
  <2> HIDE DEF d
  <2>5. QED
    BY <1>1, <1>2, <2>1, <2>2, <2>3, <2>4 DEF AllDone
<1>7. LocalDone(n)' \in BOOLEAN
  BY DEF LocalDone
<1>8. QED
  BY <1>4, <1>6, <1>7

LEMMA NetMoves ==
  ASSUME EngineTypeOK, EngineTypeOK', NEW n \in Node, NEW burst \in Seq(Node),
         PeStep(n, burst), NEW f \in SyncFlit
  PROVE  Num({OnWire(f)})' + Count(eject[n], {OnWire(f)})
           = Num({OnWire(f)})
               + P!One(f \in SyncEmits(to_id(n), eject[n], DoneAt(n, burst)))
<1> DEFINE A == {OnWire(f)}
           i == to_id(n)
           d == DoneAt(n, burst)
           new == NewSpikes(n, burst)
<1>1. Num(A)' + Count(eject[n], A)
        = Num(A) + Count(Wires(i, eject[n], d), A) + Count(new, A)
  BY PeStepMoves
<1>2. Count(Wires(i, eject[n], d), A) = P!One(f \in SyncEmits(i, eject[n], d))
  <2>1. i \in Pe /\ SyncTypeOK /\ d \in BOOLEAN
    BY PeAtNode, StepQueues DEF EngineTypeOK
  <2> HIDE DEF i, d
  <2>2. QED
    BY <2>1, WiresAreEmitted
<1>3. Count(new, A) = 0
  <2>1. \A k \in DOMAIN new : new[k] \notin A
    <3>1. CASE Generates(n)
      <4>1. \A k \in DOMAIN new : new[k] = SpikeFlit(n, burst[k], t)
        BY <3>1, StepQueues
      <4>2. \A k \in DOMAIN new : new[k].type = "Spike"
        BY <4>1 DEF SpikeFlit
      <4>3. OnWire(f).type # "Spike"
        BY SyncFlitOnWire DEF SyncOnWire, is_sync
      <4> HIDE DEF new
      <4>4. QED
        BY <4>2, <4>3
    <3>2. CASE ~Generates(n)
      BY <3>2 DEF NewSpikes
    <3>3. QED
      BY <3>1, <3>2
  <2> HIDE DEF new
  <2>2. {k \in DOMAIN new : new[k] \in A} = {}
    BY <2>1
  <2>3. QED
    BY <2>2, FS_EmptySet DEF Count
<1>4. Num(A) \in Nat /\ P!One(f \in SyncEmits(i, eject[n], d)) \in Nat
  BY NumIsNat DEF P!One
<1> HIDE DEF A, i, d, new
<1>5. Num(A)' + Count(eject[n], A) = Num(A) + P!One(f \in SyncEmits(i, eject[n], d))
  BY <1>1, <1>2, <1>3, <1>4
<1>6. QED
  BY <1>5 DEF A, i, d

LEMMA PeComputeIsCompute ==
  ASSUME EngineTypeOK, EngineTypeOK', EjectHome, SweepInv, NEW n \in Node, PeCompute(n)
  PROVE  P!Next
<1>1. PICK burst \in Seq(Node) : PeStep(n, burst)
  BY PeComputeBurst
<1> DEFINE i == to_id(n)
           d == DoneAt(n, burst)
<1>2. PICK fs :
        /\ \/ fs = << >>
           \/ \E f \in SyncFlit : fs = <<f>> /\ Copies[f] > 0 /\ f.dst = i
        /\ Reported(i, eject[n]) = Reported(i, fs)
        /\ Nexted(i, eject[n]) = Nexted(i, fs)
        /\ \A f \in SyncFlit : Count(eject[n], {OnWire(f)}) = P!One(P!Got(fs, f))
  BY HeardAt
<1>3. i \in Pe /\ d \in BOOLEAN
  BY PeAtNode, StepQueues
<1>4. SyncStep(i, fs, d) /\ SyncEmits(i, eject[n], d) = SyncEmits(i, fs, d)
  <2>1. SyncStep(i, eject[n], d)
    BY <1>1, PeStepParts
  <2>2. QED
    BY <1>2, <2>1, SameHeard
<1>5. /\ AllDone[i] => d
      /\ \E after \in BOOLEAN : AllDone' = [AllDone EXCEPT ![i] = d \/ after]
  BY <1>1, LocalWork
<1>6. Copies' = [f \in SyncFlit |->
        Copies[f] - P!One(P!Got(fs, f)) + P!One(f \in P!SyncEmits(i, fs, d))]
  <2>1. Copies' = [f \in SyncFlit |-> Num({OnWire(f)})']
    BY DEF Copies
  <2>2. ASSUME NEW f \in SyncFlit
        PROVE  Num({OnWire(f)})'
                 = Copies[f] - P!One(P!Got(fs, f)) + P!One(f \in P!SyncEmits(i, fs, d))
    <3>1. Num({OnWire(f)})' + Count(eject[n], {OnWire(f)})
            = Num({OnWire(f)}) + P!One(f \in SyncEmits(i, eject[n], d))
      BY <1>1, NetMoves
    <3>2. P!SyncEmits(i, fs, d) = SyncEmits(i, eject[n], d)
      BY <1>4, SameController
    <3>3. Count(eject[n], {OnWire(f)}) = P!One(P!Got(fs, f))
      BY <1>2
    <3>4. \A b : P!One(b) \in Nat
      BY DEF P!One
    <3>5. Num({OnWire(f)}) \in Nat /\ Num({OnWire(f)})' \in Nat
      BY NumIsNat, NextNumIsNat
    <3>6. Copies[f] = Num({OnWire(f)})
      BY DEF Copies
    <3>7. QED
      BY <3>1, <3>2, <3>3, <3>4, <3>5, <3>6
  <2>3. QED
    BY <2>1, <2>2
<1>7. P!SyncStep(i, fs, d)
  BY <1>4, SameController
<1> HIDE DEF i, d
<1>8. P!Pe = Pe /\ P!SyncFlit = SyncFlit
  BY DEF P!Pe, Pe, P!SyncFlit, SyncFlit, P!Timestep, Timestep
<1>9. P!PeCompute(i, fs, d)
  BY <1>5, <1>6, <1>7, <1>8 DEF P!PeCompute
<1>10. P!Work(i) \/ \E f \in P!SyncFlit : P!Receive(f)
  BY <1>2, <1>3, <1>8, <1>9 DEF P!Work, P!Receive
<1>11. QED
  BY <1>3, <1>8, <1>10 DEF P!Next

(* Every other step leaves the barrier alone, but for the common Begin. *)
LEMMA SameProtocol ==
  ASSUME EngineTypeOK, EngineTypeOK', UNCHANGED <<syncVars, peVars>>,
         \A A : Num(A)' = Num(A)
  PROVE  UNCHANGED P!protocolVars
<1>1. Copies' = Copies
  BY DEF Copies
<1>2. AllDone' = AllDone
  BY DEF AllDone, LocalDone, peVars
<1>3. QED
  BY <1>1, <1>2 DEF P!protocolVars, P!syncVars, syncVars

LEMMA NextTimestepIsBegin ==
  ASSUME EngineTypeOK, EngineTypeOK', SweepInv, NextTimestep
  PROVE  P!Begin
<1>1. \A i \in Pe : state[i] = "Advancing" /\ current_t[i] + 1 < NumTimesteps
  BY DEF NextTimestep, SweepInv, Released, all_advancing, ready_to_advance, EngineTypeOK
<1>2. UNCHANGED <<routerVars, pending_spikes, pending_sync>>
  BY DEF NextTimestep
<1>3. Copies' = Copies
  <2>1. \A A : Num(A)' = Num(A)
    BY <1>2, StillMesh
  <2>2. QED
    BY <2>1 DEF Copies
<1>4. AllDone' = [i \in Pe |-> FALSE]
  <2>1. \A i \in Pe : to_coord(i) \in Node
    BY PeAtNode
  <2>2. spikes_generated' = [n \in Node |-> FALSE]
    BY DEF NextTimestep
  <2>3. \A i \in Pe : LocalDone(to_coord(i))' = FALSE
    BY <2>1, <2>2 DEF LocalDone
  <2>4. AllDone' = [i \in Pe |-> LocalDone(to_coord(i))']
    BY DEF AllDone
  <2>5. QED
    BY <2>3, <2>4
<1>5. P!Pe = Pe
  BY DEF P!Pe, Pe
<1>6. P!BeginNextTimestep
  BY <1>5 DEF NextTimestep, BeginNextTimestep, P!BeginNextTimestep
<1>7. QED
  BY <1>1, <1>3, <1>4, <1>5, <1>6 DEF P!Begin, P!ready_to_advance

LEMMA InitIsProtocol == Init => P!Init
<1> SUFFICES ASSUME Init PROVE P!Init
  OBVIOUS
<1>1. P!Pe = Pe /\ P!SyncFlit = SyncFlit
  BY DEF P!Pe, Pe, P!SyncFlit, SyncFlit, P!Timestep, Timestep
<1>2. P!SyncInit
  BY <1>1 DEF Init, SyncInit, P!SyncInit
<1>3. AllDone = [i \in Pe |-> FALSE]
  <2>1. \A i \in Pe : to_coord(i) \in Node
    BY PeAtNode
  <2>2. \A i \in Pe : LocalDone(to_coord(i)) = FALSE
    BY <2>1 DEF LocalDone, Init
  <2>3. QED
    BY <2>2 DEF AllDone
<1>4. Copies = [f \in SyncFlit |-> 0]
  <2>1. \A A : Num(A) = 0
    BY InitNum
  <2>2. QED
    BY <2>1 DEF Copies
<1>5. QED
  BY <1>1, <1>2, <1>3, <1>4 DEF P!Init

EngineInv == EngineTypeOK /\ EjectHome /\ SweepInv

LEMMA EngineInvariant == Spec => []EngineInv
<1>1. Init => EngineInv
  BY InitEngineType, EjectHomeInit, SweepInit DEF EngineInv
<1>2. EngineInv /\ [Next]_bspVars => EngineInv'
  BY EngineTypeStep, EjectHomeStep, SweepStep DEF EngineInv
<1>3. QED
  BY <1>1, <1>2, PTL DEF Spec

LEMMA StepIsProtocol ==
  ASSUME EngineInv, [Next]_bspVars
  PROVE  [P!Next]_(P!protocolVars)
<1>1. EngineTypeOK /\ EjectHome /\ SweepInv /\ EngineTypeOK'
  BY EngineTypeStep DEF EngineInv
<1>2. ASSUME NEW n \in Node, PeCompute(n) PROVE P!Next
  BY <1>1, <1>2, PeComputeIsCompute
<1>3. ASSUME NEW n \in Node, RouterCompute(n) \/ PeCommit(n) \/ RouterCommit(n)
      PROVE  UNCHANGED P!protocolVars
  <2>1. UNCHANGED <<syncVars, peVars>>
    BY <1>3 DEF RouterCompute, PeCommit, RouterCommit
  <2>2. UNCHANGED <<pending_spikes, pending_sync>>
    BY <2>1 DEF peVars
  <2>3. Compute(n) \/ CommitEject(n) \/ Commit(n)
    BY <1>3 DEF RouterCompute, PeCommit, RouterCommit
  <2>4. \A A : Num(A)' = Num(A)
    BY <1>1, <2>2, <2>3, ComputeMoves, CommitMoves, CommitEjectMoves
  <2>5. QED
    BY <1>1, <2>1, <2>4, SameProtocol
<1>4. CASE EndCompute \/ EndCycle \/ BeginDrain \/ DrainCycle \/ UNCHANGED bspVars
  <2>1. UNCHANGED <<routerVars, syncVars, peVars>>
    BY <1>4 DEF EndCompute, EndCycle, BeginDrain, DrainCycle, bspVars
  <2>2. UNCHANGED <<routerVars, pending_spikes, pending_sync>>
    BY <2>1 DEF peVars
  <2>3. \A A : Num(A)' = Num(A)
    BY <1>1, <2>2, StillMesh
  <2>4. QED
    BY <1>1, <2>1, <2>3, SameProtocol
<1>5. CASE NextTimestep
  BY <1>1, <1>5, NextTimestepIsBegin DEF P!Next
<1>6. QED
  BY <1>2, <1>3, <1>4, <1>5 DEF Next

LEMMA EngineIsP == Spec => P!Spec
<1>1. EngineInv /\ [Next]_bspVars => [P!Next]_(P!protocolVars)
  BY StepIsProtocol
<1>2. QED
  BY <1>1, EngineInvariant, InitIsProtocol, PTL DEF Spec, P!Spec

LEMMA ProtocolOfEngine == Spec => [](P!NeverStale /\ P!SilentAtBarrier /\ P!IInv)
BY EngineIsP, P!NoFlitIsStale, P!BarrierIsSilent, P!Inductive, NumPeAssumption,
   NumTimestepsAssumption, PTL

(* Protocol is the same instance, with Copies and AllDone written out. *)
LEMMA SameInstance ==
  /\ P!Init => Protocol!Init
  /\ [P!Next]_(P!protocolVars) => [Protocol!Next]_(Protocol!protocolVars)
<1>1. \A S : P!Cardinality(S) = Cardinality(S) /\ Protocol!Cardinality(S) = Cardinality(S)
  BY DEF P!Cardinality, Protocol!Cardinality, Cardinality
<1>2. /\ P!Pe = Protocol!Pe /\ P!SyncFlit = Protocol!SyncFlit
      /\ Protocol!Pe = Pe /\ Protocol!SyncFlit = SyncFlit
  BY DEF P!Pe, Protocol!Pe, Pe, P!SyncFlit, Protocol!SyncFlit, SyncFlit,
         P!Timestep, Protocol!Timestep, Timestep
<1>3. /\ AllDone = [i \in Pe |-> LocalDone(to_coord(i))]
      /\ Copies = [f \in SyncFlit |-> Cardinality(Places({OnWire(f)}))]
      /\ AllDone' = [i \in Pe |-> LocalDone(to_coord(i))]'
      /\ Copies' = [f \in SyncFlit |-> Cardinality(Places({OnWire(f)}))]'
  BY DEF AllDone, Copies, Num
<1>4. P!Init => Protocol!Init
  BY <1>2, <1>3 DEF P!Init, Protocol!Init, P!SyncInit, Protocol!SyncInit
<1>5. \A i, fs : /\ P!Reported(i, fs) = Protocol!Reported(i, fs)
                /\ P!Nexted(i, fs) = Protocol!Nexted(i, fs)
  <2>1. TAKE i, fs
  <2> DEFINE K == {k \in DOMAIN fs : fs[k].type = "Report" /\ Fresh(i, fs[k])}
  <2>2. P!Reported(i, fs) = children_reported[i] + P!Cardinality(K)
    BY DEF P!Reported, P!Fresh, Fresh
  <2>3. Protocol!Reported(i, fs) = children_reported[i] + Protocol!Cardinality(K)
    BY DEF Protocol!Reported, Protocol!Fresh, Fresh
  <2>4. P!Nexted(i, fs) = Protocol!Nexted(i, fs)
    BY DEF P!Nexted, P!Fresh, Protocol!Nexted, Protocol!Fresh
  <2> HIDE DEF K
  <2>5. QED
    BY <1>1, <2>2, <2>3, <2>4
<1>6. \A i, d, r : P!ChildrenStage(i, d, r) = Protocol!ChildrenStage(i, d, r)
  BY DEF P!ChildrenStage, P!LocalStage, Protocol!ChildrenStage, Protocol!LocalStage,
     P!child_count, Protocol!child_count, P!left_child, P!right_child,
     Protocol!left_child, Protocol!right_child, P!is_root, Protocol!is_root
<1>7. \A i, d, r, m : P!NextStage(i, d, r, m) = Protocol!NextStage(i, d, r, m)
  BY <1>6 DEF P!NextStage, Protocol!NextStage
<1>8. \A i, d, r, m : P!Emitted(i, d, r, m) = Protocol!Emitted(i, d, r, m)
  BY <1>6, <1>7 DEF P!Emitted, Protocol!Emitted, P!LocalStage, Protocol!LocalStage,
     P!make_report, Protocol!make_report, P!make_next, Protocol!make_next, P!children,
     Protocol!children, P!left_child, P!right_child, Protocol!left_child,
     Protocol!right_child, P!parent, Protocol!parent
<1>9. \A i, fs, d : P!SyncStep(i, fs, d) <=> Protocol!SyncStep(i, fs, d)
  BY <1>5, <1>7 DEF P!SyncStep, Protocol!SyncStep
<1>10. \A i, fs, d : P!SyncEmits(i, fs, d) = Protocol!SyncEmits(i, fs, d)
  BY <1>5, <1>8 DEF P!SyncEmits, Protocol!SyncEmits
<1>11. \A i, fs, d : P!PeCompute(i, fs, d) => Protocol!PeCompute(i, fs, d)
  <2>1. \A b : P!One(b) = Protocol!One(b)
    BY DEF P!One, Protocol!One
  <2>2. \A fs, f : P!Got(fs, f) = Protocol!Got(fs, f)
    BY DEF P!Got, Protocol!Got
  <2>3. QED
    BY <1>2, <1>3, <1>9, <1>10, <2>1, <2>2 DEF P!PeCompute, Protocol!PeCompute
<1>12. \A i : P!Work(i) => Protocol!Work(i)
  BY <1>11 DEF P!Work, Protocol!Work
<1>13. \A f : P!Receive(f) => Protocol!Receive(f)
  BY <1>2, <1>3, <1>11 DEF P!Receive, Protocol!Receive
<1>14. P!Begin => Protocol!Begin
  BY <1>2, <1>3 DEF P!Begin, Protocol!Begin, P!BeginNextTimestep,
     Protocol!BeginNextTimestep, P!ready_to_advance, Protocol!ready_to_advance
<1>15. P!Next => Protocol!Next
  BY <1>2, <1>12, <1>13, <1>14 DEF P!Next, Protocol!Next
<1>16. UNCHANGED P!protocolVars => UNCHANGED Protocol!protocolVars
  BY <1>3 DEF P!protocolVars, Protocol!protocolVars, P!syncVars, Protocol!syncVars
<1>17. QED
  BY <1>4, <1>15, <1>16

(* Whatever the mesh does to the flits of the barrier, to their credits and
   to the spikes among which they travel, the controllers of the engine take
   the steps of the protocol over a network that only delays and reorders:
   each step of engine.cpp:68-124 is one of its steps or changes nothing of
   it, so its theorems (SyncProtocolProofs) hold of the engine. *)
THEOREM EngineIsProtocol == Spec => ImplementsProtocol
BY EngineIsP, SameInstance, PTL DEF P!Spec, Protocol!Spec, ImplementsProtocol

-----------------------------------------------------------------------------
(* A sync flit in a queue of the engine is one that the protocol knows of. *)
LEMMA InAQueueIsUnderWay ==
  ASSUME EngineTypeOK, NEW l \in Line, NEW k \in DOMAIN Mesh[l],
         Mesh[l][k] \in SyncOnWire
  PROVE  \E f \in SyncFlit : /\ OnWire(f) = Mesh[l][k]
                            /\ f.dst = to_id(Mesh[l][k].dst)
                            /\ Copies[f] > 0
<1>1. PICK f \in SyncFlit : OnWire(f) = Mesh[l][k] /\ f.dst = to_id(Mesh[l][k].dst)
  BY WireSource
<1>2. Num({OnWire(f)}) > 0
  BY <1>1, SomewhereCounts
<1>3. QED
  BY <1>1, <1>2 DEF Copies

(* The deadlock rule of sync_fsm.hpp:20: no queue holds a REPORT or a
   NEXTTIMESTEP of an earlier timestep once any PE may inject spikes of a later
   one.  All PEs enter a timestep together, and the protocol has no flit under
   way that is not of its receiver's timestep. *)
THEOREM SpikesStayBehindSync == Spec => []SpikesBehindSync
<1>1. EngineTypeOK /\ P!NeverStale => SpikesBehindSync
  <2> SUFFICES ASSUME EngineTypeOK, P!NeverStale PROVE SpikesBehindSync
    OBVIOUS
  <2> DEFINE A == {f \in Flit :
                    is_sync(f) /\ \E n \in Node : current_t[to_id(n)] > f.timestep}
  <2>1. ASSUME NEW l \in Line, NEW k \in DOMAIN Mesh[l], Mesh[l][k] \in A
        PROVE  FALSE
    <3>1. Mesh[l][k] \in SyncOnWire
      BY <2>1 DEF SyncOnWire
    <3>2. PICK f \in SyncFlit : /\ OnWire(f) = Mesh[l][k]
                               /\ Copies[f] > 0
      BY <3>1, InAQueueIsUnderWay
    <3>3. P!SyncFlit = SyncFlit
      BY DEF P!SyncFlit, SyncFlit, P!Pe, Pe, P!Timestep, Timestep
    <3>4. f.timestep = current_t[f.dst] /\ f.dst \in Pe
      BY <3>2, <3>3 DEF P!NeverStale, SyncFlit
    <3>5. f.timestep = t /\ t \in Int
      BY <3>4 DEF EngineTypeOK, Timestep
    <3>6. Mesh[l][k].timestep = f.timestep
      BY <3>2, SyncFlitOnWire
    <3>7. PICK n \in Node : current_t[to_id(n)] > Mesh[l][k].timestep
      BY <2>1
    <3>8. current_t[to_id(n)] = t
      BY PeAtNode DEF EngineTypeOK
    <3>9. QED
      BY <3>5, <3>6, <3>7, <3>8
  <2>2. DOMAIN Mesh = Line
    BY DEF Mesh
  <2> HIDE DEF A
  <2>3. Spots(Mesh, A) = {}
    BY <2>1, <2>2, SpotsUnfold
  <2>4. Places(A) = {}
    BY <2>3, PlacesAreSpots
  <2>5. QED
    BY <2>4 DEF SpikesBehindSync, A
<1>2. EngineInv => EngineTypeOK
  BY DEF EngineInv
<1>3. QED
  BY <1>1, <1>2, EngineInvariant, ProtocolOfEngine, PTL

(* drain() stops when inflight() is zero, though it does not look at what PEs
   hold back nor at what is staged (engine.cpp:61-66, 100-113): a PE that is
   released holds no spikes back, the barrier leaves no sync flit anywhere,
   and a cycle leaves nothing staged, so nothing at all is left. *)
THEOREM NothingIsLeft == Spec => []DrainLeavesNothing
<1>1. EngineInv /\ P!SilentAtBarrier /\ P!IInv => DrainLeavesNothing
  <2> SUFFICES ASSUME EngineInv, P!SilentAtBarrier, P!IInv,
                      phase = "done", ~deadlock
               PROVE  Places(Flit) = {}
    BY DEF DrainLeavesNothing
  <2>1. EngineTypeOK /\ SweepInv
    BY DEF EngineInv
  <2>2. all_advancing /\ NoneInFlight /\ \A n \in Node : Staged(n)
    BY <2>1 DEF SweepInv, Released, AtRest
  <2>3. P!Pe = Pe /\ P!SyncFlit = SyncFlit
    BY DEF P!SyncFlit, SyncFlit, P!Pe, Pe, P!Timestep, Timestep
  <2>4. \A f \in SyncFlit : Copies[f] = 0
    BY <2>2, <2>3 DEF P!SilentAtBarrier, P!ready_to_advance, all_advancing,
       ready_to_advance
  <2>5. \A n \in Node : to_id(n) \in Pe /\ to_coord(to_id(n)) = n
    BY PeAtNode
  <2>6. \A n \in Node : pending_spikes[n] = << >>
    <3>1. \A i \in Pe : AllDone[i]
      BY <2>2, <2>3 DEF P!IInv, P!ReleaseInv, all_advancing, ready_to_advance
    <3>2. \A i \in Pe : LocalDone(to_coord(i))
      BY <3>1 DEF AllDone
    <3>3. QED
      BY <2>5, <3>2 DEF LocalDone
  <2>7. ASSUME NEW n \in Node PROVE pending_sync[n] = << >>
    <3> DEFINE l == <<"sync", n, Local>>
    <3>1. l \in Line /\ Mesh[l] = pending_sync[n]
      BY InLine DEF Mesh, Queue
    <3>2. pending_sync[n] \in Seq(SyncOnWire)
      BY <2>1 DEF EngineTypeOK
    <3> HIDE DEF l
    <3>3. ASSUME NEW k \in DOMAIN pending_sync[n] PROVE FALSE
      <4>1. Mesh[l][k] \in SyncOnWire
        BY <3>1, <3>2, <3>3
      <4>2. \E f \in SyncFlit : Copies[f] > 0
        BY <2>1, <3>1, <4>1, InAQueueIsUnderWay
      <4>3. QED
        BY <2>4, <4>2
    <3> DEFINE q == pending_sync[n]
    <3>4. q \in Seq(SyncOnWire) /\ DOMAIN q = {}
      BY <3>2, <3>3
    <3> HIDE DEF q
    <3>5. q = << >>
      BY <3>4
    <3>6. QED
      BY <3>5 DEF q
  <2>8. \A l \in Line : Mesh[l] = << >>
    <3>1. TAKE l \in Line
    <3>2. PICK n \in Node :
            \/ l \in {<<"spikes", n, Local>>, <<"sync", n, Local>>,
                      <<"eject", n, Local>>, <<"ejectNxt", n, Local>>}
            \/ \E p \in Dir : l \in {<<"cur", n, p>>, <<"nxt", n, p>>}
      BY LineCases
    <3>3. Queue(l) = << >>
      BY <2>2, <2>6, <2>7, <3>2 DEF Queue, NoneInFlight, Staged
    <3>4. QED
      BY <3>3 DEF Mesh
  <2>9. Spots(Mesh, Flit) = {}
    <3>1. DOMAIN Mesh = Line
      BY DEF Mesh
    <3>2. QED
      BY <2>8, <3>1, SpotsUnfold
  <2>10. QED
    BY <2>9, PlacesAreSpots
<1>2. QED
  BY <1>1, EngineInvariant, ProtocolOfEngine, PTL

(* The state stays well formed, and all PEs stay in the timestep of run's
   loop (engine.cpp:115-122). *)
THEOREM EngineTypeCorrect == Spec => []EngineTypeOK
<1>1. EngineInv => EngineTypeOK
  BY DEF EngineInv
<1>2. QED
  BY <1>1, EngineInvariant, PTL
=============================================================================
