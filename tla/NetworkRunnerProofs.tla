------------------------- MODULE NetworkRunnerProofs -------------------------
(***************************************************************************)
(* Theorems about NetworkRunner for every compiled network, every mesh,    *)
(* every credit_init, every watchdog and every input: between two          *)
(* timesteps nothing is left anywhere, a spike on its way belongs to the   *)
(* timestep its receiver is in, and the mesh computes what the synchronous *)
(* network of DelayLine does.                                              *)
(***************************************************************************)
EXTENDS NetworkRunner, RouterProofs, SyncControllerProofs

Cells == W * H

InTimestep == phase \in {"barrier", "drain"}

(* The timestep begun last, which all PEs are in. *)
Now == IF InTimestep \/ abs_t = 0 THEN abs_t ELSE abs_t - 1

RunnerTypeOK ==
  /\ RouterTypeOK /\ SyncTypeOK
  /\ cur_t \in [Pe -> Timestep]
  /\ spikes_queued \in [Pe -> BOOLEAN]
  /\ pending_spikes \in [Pe -> Seq(Flit)]
  /\ pending_sync \in [Pe -> Seq(Flit)]
  /\ abs_t \in 0 .. NumTimesteps
  /\ measuring \in BOOLEAN /\ deadlock \in BOOLEAN
  /\ phase \in {"between", "barrier", "drain", "done"}
  /\ ran \in 0 .. CycleLength
  /\ elapsed \in Nat
  /\ ran # CycleLength => InTimestep

Clocks ==
  /\ Now \in Timestep
  /\ \A i \in Pe : current_t[i] = Now /\ cur_t[i] = Now
  /\ phase = "between" /\ abs_t = 0 => \A i \in Pe : state[i] = "Computing"

(* A PE whose controller has left Computing has sent all it had. *)
SentAll ==
  /\ \A i \in Pe : state[i] # "Computing" => local_done(i)
  /\ phase = "drain" => all_advancing

(* The queues hold members of S only. *)
MeshOver(S) ==
  /\ cur \in [Node -> [Dir -> Seq(S)]]
  /\ nxt \in [Node -> [Dir -> Seq(S)]]
  /\ eject \in [Node -> Seq(S)]
  /\ ejectNxt \in [Node -> Seq(S)]

QueuesOver(S) ==
  /\ MeshOver(S)
  /\ pending_spikes \in [Pe -> Seq(S)]
  /\ pending_sync \in [Pe -> Seq(S)]

FlitsOf(ts) == {f \in Flit : is_sync(f) \/ f.timestep = ts}

Stamped == \A ts \in Timestep : ts = Now => QueuesOver(FlitsOf(ts))

(* A router without a PE ejects nothing. *)
EjectHome ==
  \A n \in Node : to_id(n) \notin Pe => eject[n] = << >> /\ ejectNxt[n] = << >>

(* What the sweeps of a cycle have tidied up, by how far they are. *)
Swept ==
  /\ \A n \in Node :
       /\ 2 * NumPe + Cells + to_id(n) < ran =>
            peCreditReturn[n] = 0 /\ \A p \in Dir : nxt[n][p] = << >>
       /\ ran <= NumPe => peCreditReturn[n] = 0
  /\ \A i \in Pe : NumPe + Cells + i < ran => ejectNxt[to_coord(i)] = << >>

(* Something will be in the visible half of a queue when the cycle ends. *)
Loaded ==
  \/ \E n \in Node, p \in Dir : cur[n][p] # << >> \/ nxt[n][p] # << >>
  \/ \E n \in Node : ejectNxt[n] # << >>
  \/ NumPe <= ran /\ \E n \in Node : eject[n] # << >>

(* A sync flit is held back only by a router whose Local input is full. *)
HeldBack == \A i \in Pe : i < ran /\ pending_sync[i] # << >> => Loaded

RunnerInv ==
  /\ RunnerTypeOK /\ Clocks /\ SentAll /\ Stamped
  /\ CreditInv /\ EjectHome /\ Swept /\ HeldBack /\ SilentBetween

(* FlattenSeq of a sequence of sequences is a sequence: the recursive function
   it is defined by exists, and all its values are sequences. *)
LEMMA FlattenUnfold ==
  ASSUME NEW S, NEW e \in Seq(Seq(S)), Len(e) # 0
  PROVE  \E g \in [1 .. Len(e) -> Seq(S)] :
           /\ Seqs!FlattenSeq(e) = g[Len(e)]
           /\ \A i \in 1 .. Len(e) : g[i] = IF i = 1 THEN e[i] ELSE g[i - 1] \o e[i]
<1> DEFINE N == Len(e)
           Eq(g, m) == /\ g[1] = e[1]
                       /\ \A i \in 2 .. m : g[i] = g[i - 1] \o e[i]
           Partial(m) == \E g \in [1 .. m -> Seq(S)] : Eq(g, m)
           Def(f) == f = [i \in 1 .. N |-> IF i = 1 THEN e[i] ELSE f[i - 1] \o e[i]]
<1>1. N \in Nat /\ DOMAIN e = 1 .. N /\ \A i \in 1 .. N : e[i] \in Seq(S)
  BY LenProperties
<1>2. N # 0
  OBVIOUS
<1>3. ASSUME NEW m \in 1 .. N PROVE Partial(m)
  <2> DEFINE T == {k \in 1 .. N : ~Partial(k)}
  <2>1. SUFFICES ASSUME T # {} PROVE FALSE
    BY <2>1
  <2> HIDE DEF Partial
  <2>2. T \in SUBSET Nat
    BY <1>1
  <2> HIDE DEF T
  <2>3. PICK k \in T : \A j \in T : k <= j
    BY <2>1, <2>2, LeastNat
  <2> USE DEF T, Partial
  <2>4. k \in 1 .. N /\ ~Partial(k)
    BY <2>3
  <2>5. k # 1
    <3>1. [i \in 1 .. 1 |-> e[1]] \in [1 .. 1 -> Seq(S)]
      BY <1>1, <1>2
    <3>2. Eq([i \in 1 .. 1 |-> e[1]], 1)
      OBVIOUS
    <3>3. QED
      BY <2>4, <3>1, <3>2
  <2>6. Partial(k - 1)
    <3>1. k - 1 \in 1 .. N /\ ~(k <= k - 1)
      BY <1>1, <2>4, <2>5
    <3>2. QED
      BY <2>3, <3>1
  <2>7. PICK g \in [1 .. k - 1 -> Seq(S)] : Eq(g, k - 1)
    BY <2>6
  <2> DEFINE h == [i \in 1 .. k |-> IF i = k THEN g[k - 1] \o e[k] ELSE g[i]]
  <2>8. h \in [1 .. k -> Seq(S)]
    <3>1. g[k - 1] \in Seq(S) /\ e[k] \in Seq(S)
      BY <1>1, <2>4, <2>5, <2>7
    <3>2. g[k - 1] \o e[k] \in Seq(S)
      BY <3>1, ConcatProperties
    <3>3. \A i \in 1 .. k : i # k => g[i] \in Seq(S)
      BY <1>1, <2>4, <2>7
    <3>4. QED
      BY <3>2, <3>3
  <2>9. Eq(h, k)
    <3>1. h[1] = e[1]
      BY <1>1, <2>4, <2>5, <2>7
    <3>2. ASSUME NEW i \in 2 .. k PROVE h[i] = h[i - 1] \o e[i]
      <4>1. i - 1 \in 1 .. k /\ i - 1 # k /\ h[i - 1] = g[i - 1]
        BY <1>1, <2>4
      <4>2. h[i] = IF i = k THEN g[k - 1] \o e[k] ELSE g[i]
        BY <2>4
      <4> HIDE DEF h
      <4>3. CASE i = k
        BY <4>1, <4>2, <4>3
      <4>4. CASE i # k
        <5>1. i \in 2 .. k - 1
          BY <1>1, <2>4, <4>4
        <5>2. g[i] = g[i - 1] \o e[i]
          BY <2>7, <5>1
        <5>3. QED
          BY <4>1, <4>2, <4>4, <5>2
      <4>5. QED
        BY <4>3, <4>4
    <3>3. QED
      BY <3>1, <3>2
  <2>10. QED
    BY <2>4, <2>8, <2>9
<1>4. PICK g \in [1 .. N -> Seq(S)] : Eq(g, N)
  <2>1. N \in 1 .. N
    BY <1>1, <1>2
  <2>2. Partial(N)
    BY <1>3, <2>1
  <2>3. QED
    BY <2>2
<1>5. Def(g)
  <2> DEFINE h == [i \in 1 .. N |-> IF i = 1 THEN e[i] ELSE g[i - 1] \o e[i]]
  <2>1. ASSUME NEW i \in 1 .. N PROVE g[i] = IF i = 1 THEN e[i] ELSE g[i - 1] \o e[i]
    <3>1. i # 1 => i \in 2 .. N
      BY <1>1
    <3>2. QED
      BY <1>4, <3>1
  <2>2. \A i \in 1 .. N : g[i] = h[i]
    BY <2>1
  <2>3. QED
    BY <1>4, <2>2
<1>6. Def(CHOOSE f : Def(f))
  BY <1>5
<1> DEFINE f == CHOOSE x : Def(x)
<1>7. /\ f = [i \in 1 .. N |-> f[i]]
      /\ \A i \in 1 .. N : f[i] = IF i = 1 THEN e[i] ELSE f[i - 1] \o e[i]
  <2> HIDE DEF f
  <2>1. Def(f)
    BY <1>6 DEF f
  <2>2. QED
    BY <2>1
<1> HIDE DEF f
<1>8. ASSUME NEW i \in 1 .. N PROVE f[i] \in Seq(S)
  <2> DEFINE T == {k \in 1 .. N : f[k] \notin Seq(S)}
  <2>1. SUFFICES ASSUME T # {} PROVE FALSE
    OBVIOUS
  <2>2. T \in SUBSET Nat
    BY <1>1
  <2> HIDE DEF T
  <2>3. PICK k \in T : \A j \in T : k <= j
    BY <2>1, <2>2, LeastNat
  <2> USE DEF T
  <2>4. k \in 1 .. N /\ f[k] \notin Seq(S) /\ k # 1
    BY <1>1, <1>7, <2>3
  <2>5. f[k - 1] \in Seq(S)
    BY <1>1, <2>3, <2>4
  <2>6. f[k - 1] \o e[k] \in Seq(S)
    BY <1>1, <2>4, <2>5, ConcatProperties
  <2>7. QED
    BY <1>7, <2>4, <2>6
<1>9. Seqs!FlattenSeq(e) = f[N]
  BY DEF Seqs!FlattenSeq, f
<1>10. f \in [1 .. N -> Seq(S)]
  BY <1>7, <1>8
<1> WITNESS f \in [1 .. Len(e) -> Seq(S)]
<1>11. QED
  BY <1>7, <1>9

LEMMA FlattenType ==
  ASSUME NEW S, NEW e \in Seq(Seq(S))
  PROVE  Seqs!FlattenSeq(e) \in Seq(S)
<1>1. Len(e) \in Nat
  BY LenProperties
<1>2. CASE Len(e) = 0
  <2>1. e = << >>
    BY <1>2, EmptySeq
  <2>2. Seqs!FlattenSeq(e) = e
    BY <1>2 DEF Seqs!FlattenSeq
  <2>3. << >> \in Seq(S)
    OBVIOUS
  <2>4. QED
    BY <2>1, <2>2, <2>3
<1>3. CASE Len(e) # 0
  BY <1>1, <1>3, FlattenUnfold
<1>4. QED
  BY <1>2, <1>3

-----------------------------------------------------------------------------
(* Ids, and the places of the tickables in a cycle. *)

LEMMA Ids ==
  /\ NumPe \in Nat /\ NumPe >= 1 /\ Pe = 0 .. NumPe - 1
  /\ Cells \in Nat /\ NumPe <= Cells /\ Cells = W * H
  /\ CycleLength = 2 * NumPe + 2 * Cells
  /\ \A n \in Node : to_id(n) \in 0 .. Cells - 1 /\ to_coord(to_id(n)) = n
  /\ \A i \in Pe : i \in Nat /\ to_coord(i) \in Node /\ to_id(to_coord(i)) = i
<1>1. W \in Nat /\ H \in Nat
  BY MeshAssumption
<1>2. Cells \in Nat /\ NumPe <= Cells /\ Cells = W * H
  BY <1>1, ImageSizeAssumption DEF Cells
<1>3. NumPe \in Nat /\ NumPe >= 1 /\ Pe = 0 .. NumPe - 1
  BY NumPeAssumption DEF Pe
<1>4. CycleLength = 2 * NumPe + 2 * Cells
  BY <1>1, <1>3 DEF CycleLength, Cells
<1>5. PeId = 0 .. Cells - 1
  BY DEF PeId, Cells
<1>6. Pe \subseteq PeId
  <2> HIDE DEF Cells
  <2>1. QED
    BY <1>2, <1>3, <1>5
<1>7. QED
  BY <1>2, <1>3, <1>4, <1>5, <1>6, IdOfNode

LEMMA Places ==
  /\ \A i \in Pe : PeCompute(i) => ran = i /\ ran' = i + 1
  /\ \A r \in Node : RouterCompute(r) => ran = NumPe + to_id(r) /\ ran' = ran + 1
  /\ \A i \in Pe : PeCommit(i) => ran = NumPe + Cells + i /\ ran' = ran + 1
  /\ \A r \in Node :
       RouterCommit(r) => ran = 2 * NumPe + Cells + to_id(r) /\ ran' = ran + 1
BY DEF PeCompute, RouterCompute, PeCommit, RouterCommit, Take, Cells

-----------------------------------------------------------------------------
(* What the queues hold. *)

LEMMA SeqOver ==
  ASSUME NEW S, NEW q \in Seq(S), NEW T, \A k \in DOMAIN q : q[k] \in T
  PROVE  q \in Seq(T)
<1>1. Len(q) \in Nat /\ DOMAIN q = 1 .. Len(q)
  BY LenProperties
<1>2. q \in [1 .. Len(q) -> T]
  BY <1>1
<1>3. QED
  BY <1>1, <1>2, SeqDef

LEMMA ComputeOver ==
  ASSUME RouterTypeOK, NEW S, MeshOver(S), NEW r \in Node, Compute(r)
  PROVE  MeshOver(S)'
<1> USE DEF MeshOver
<1>1. \A o \in Granted(r) : Sent(r, o) \in S
  <2> SUFFICES ASSUME NEW o \in Granted(r) PROVE Sent(r, o) \in S
    OBVIOUS
  <2>1. Winner(r, o) \in Dir /\ cur[r][Winner(r, o)] # << >>
    BY WinnerAsked DEF Granted, Requests
  <2>2. cur[r][Winner(r, o)] \in Seq(S)
    BY <2>1
  <2>3. QED
    BY <2>1, <2>2, HeadTailProperties DEF Sent
<1>2. cur' \in [Node -> [Dir -> Seq(S)]]
  <2>1. \A p \in Popped(r) : p \in Dir /\ Tail(cur[r][p]) \in Seq(S)
    BY PoppedHasFlit, HeadTailProperties
  <2>2. QED
    BY <2>1 DEF Compute
<1>3. nxt' \in [Node -> [Dir -> Seq(S)]]
  <2>1. \A n \in Node, p \in Dir :
          Faces(n, p, r) /\ opposite(p) \in Granted(r) =>
            Append(nxt[n][p], Sent(r, opposite(p))) \in Seq(S)
    BY <1>1, AppendProperties
  <2>2. QED
    BY <2>1 DEF Compute
<1>4. ejectNxt' \in [Node -> Seq(S)] /\ eject' \in [Node -> Seq(S)]
  BY <1>1, AppendProperties DEF Compute
<1>5. QED
  BY <1>2, <1>3, <1>4

LEMMA CommitOver ==
  ASSUME NEW S, MeshOver(S), NEW r \in Node, Commit(r)
  PROVE  MeshOver(S)'
BY ConcatProperties, EmptySeq DEF MeshOver, Commit, Merge

LEMMA CommitEjectOver ==
  ASSUME NEW S, MeshOver(S), NEW n \in Node, CommitEject(n)
  PROVE  MeshOver(S)'
BY ConcatProperties, EmptySeq DEF MeshOver, CommitEject, Merge

LEMMA DrainAndInjectOver ==
  ASSUME NEW S, MeshOver(S), NEW n \in Node, NEW fs \in Seq(S), DrainAndInject(n, fs)
  PROVE  MeshOver(S)'
<1>1. nxt[n][Local] \o fs \in Seq(S) /\ Local \in Dir
  BY ConcatProperties DEF MeshOver, Dir, Local, South
<1>2. QED
  BY <1>1, EmptySeq DEF MeshOver, DrainAndInject, Drained

LEMMA PacketsType ==
  ASSUME NEW i \in Pe, NEW ts \in Timestep, NEW fired
  PROVE  Packets(i, fired, ts) \in Seq(FlitsOf(ts))
<1> DEFINE N == Image[i].neuron_count
           part(k) == IF k - 1 \in fired THEN SpikesOf(i, k - 1, ts) ELSE << >>
           parts == [k \in 1 .. N |-> part(k)]
<1>1. N \in Nat
  BY ImageSizeAssumption
<1>2. ASSUME NEW n \in Neurons(i) PROVE SpikesOf(i, n, ts) \in Seq(FlitsOf(ts))
  <2> DEFINE q == SpikesOf(i, n, ts)
  <2>1. q \in Seq(Flit)
    BY WireAssumption
  <2>2. \A k \in DOMAIN q : q[k].type = "Spike" /\ q[k].timestep = ts
    BY DEF SpikesOf, SpikeFlit
  <2> HIDE DEF q
  <2>3. \A k \in DOMAIN q : q[k] \in Flit
    BY <2>1
  <2>4. \A k \in DOMAIN q : q[k] \in FlitsOf(ts)
    BY <2>2, <2>3 DEF FlitsOf
  <2>5. q \in Seq(FlitsOf(ts))
    BY <2>1, <2>4, SeqOver
  <2>6. QED
    BY <2>5 DEF q
<1>3. ASSUME NEW k \in 1 .. N PROVE part(k) \in Seq(FlitsOf(ts))
  <2>1. k - 1 \in Neurons(i)
    BY <1>1 DEF Neurons, neurons
  <2>2. << >> \in Seq(FlitsOf(ts))
    OBVIOUS
  <2>3. QED
    BY <1>2, <2>1, <2>2
<1>4. parts \in [1 .. N -> Seq(FlitsOf(ts))]
  BY <1>3
<1>5. parts \in Seq(Seq(FlitsOf(ts)))
  <2> HIDE DEF parts, N
  <2>1. QED
    BY <1>1, <1>4, SeqDef
<1>6. Packets(i, fired, ts) = Seqs!FlattenSeq(parts)
  BY DEF Packets
<1>7. QED
  <2> HIDE DEF parts
  <2>1. QED
    BY <1>5, <1>6, FlattenType

LEMMA WiresType ==
  ASSUME SyncTypeOK, NEW i \in Pe, NEW fs, NEW d \in BOOLEAN, NEW ts
  PROVE  Wires(i, fs, d) \in Seq(FlitsOf(ts))
<1> DEFINE q == InOrder(SyncEmits(i, fs, d))
           w == [k \in DOMAIN q |-> OnWire(q[k])]
<1>1. q \in Seq(SyncFlit)
  BY EmissionIsSeq
<1>2. ASSUME NEW f \in SyncFlit PROVE OnWire(f) \in FlitsOf(ts)
  <2>1. OnWire(f) \in Flit
    BY WireAssumption
  <2>2. OnWire(f).type = f.type /\ f.type # "Spike"
    BY DEF OnWire, SyncFlit
  <2>3. QED
    BY <2>1, <2>2 DEF FlitsOf, is_sync
<1>3. Wires(i, fs, d) = w
  BY DEF Wires
<1> HIDE DEF q
<1>4. Len(q) \in Nat /\ DOMAIN q = 1 .. Len(q) /\ \A k \in DOMAIN q : q[k] \in SyncFlit
  BY <1>1, LenProperties
<1>5. w \in [1 .. Len(q) -> FlitsOf(ts)]
  BY <1>2, <1>4
<1>6. w \in Seq(FlitsOf(ts))
  <2> HIDE DEF w
  <2>1. QED
    BY <1>4, <1>5, SeqDef
<1>7. QED
  BY <1>3, <1>6

-----------------------------------------------------------------------------
(* The step of a PE. *)

(* The sync flits it has to send. *)
Syncing(i) == pending_sync[i] \o Wires(i, eject[to_coord(i)], local_done(i))

LEMMA SyncingType ==
  ASSUME RunnerTypeOK, NEW i \in Pe
  PROVE  Syncing(i) \in Seq(Flit)
<1>1. Wires(i, eject[to_coord(i)], local_done(i)) \in Seq(FlitsOf(0))
  BY WiresType DEF local_done, RunnerTypeOK
<1>2. FlitsOf(0) \subseteq Flit
  BY DEF FlitsOf
<1>3. Wires(i, eject[to_coord(i)], local_done(i)) \in Seq(Flit)
  BY <1>1, <1>2
<1>4. QED
  BY <1>3, ConcatProperties DEF Syncing, RunnerTypeOK

LEMMA PeStepParts ==
  ASSUME RunnerTypeOK, NEW i \in Pe, PeStep(i)
  PROVE  \E s \in 0 .. Len(Syncing(i)), k \in 0 .. Len(pending_spikes[i]) :
           /\ DrainAndInject(to_coord(i), SubSeq(Syncing(i), 1, s)
                                            \o SubSeq(pending_spikes[i], 1, k))
           /\ pending_sync' = [pending_sync EXCEPT ![i] =
                SubSeq(Syncing(i), s + 1, Len(Syncing(i)))]
           /\ pending_spikes' = [pending_spikes EXCEPT ![i] =
                SubSeq(pending_spikes[i], k + 1, Len(pending_spikes[i]))]
           /\ s < Len(Syncing(i)) => s = injectCredit[to_coord(i)]
           /\ state'[i] # "Computing" => k = 0
           /\ SyncStep(i, eject[to_coord(i)], local_done(i))
           /\ UNCHANGED neuronVars
<1> DEFINE sync == Syncing(i)
           spikes == pending_spikes[i]
           credits == injectCredit[to_coord(i)]
           s == Least(credits, Len(sync))
           k == IF state'[i] = "Computing" THEN Least(credits - s, Len(spikes)) ELSE 0
<1>1. sync \in Seq(Flit) /\ spikes \in Seq(Flit) /\ credits \in Nat
  BY SyncingType, Ids DEF RunnerTypeOK, RouterTypeOK
<1>2. Len(sync) \in Nat /\ Len(spikes) \in Nat
  <2> HIDE DEF sync, spikes
  <2>1. QED
    BY <1>1, LenProperties
<1>3. /\ s \in 0 .. Len(sync) /\ s <= credits
      /\ k \in 0 .. Len(spikes)
      /\ s < Len(sync) => s = credits
      /\ state'[i] # "Computing" => k = 0
  <2> HIDE DEF sync, spikes, credits
  <2>1. /\ s \in 0 .. Len(sync) /\ s <= credits
        /\ s < Len(sync) => s = credits
    BY <1>1, <1>2 DEF Least
  <2> HIDE DEF s
  <2>2. k \in 0 .. Len(spikes) /\ (state'[i] # "Computing" => k = 0)
    BY <1>1, <1>2, <2>1 DEF Least
  <2>3. QED
    BY <2>1, <2>2
<1>4. /\ DrainAndInject(to_coord(i), SubSeq(sync, 1, s) \o SubSeq(spikes, 1, k))
      /\ pending_sync' = [pending_sync EXCEPT ![i] = SubSeq(sync, s + 1, Len(sync))]
      /\ pending_spikes' = [pending_spikes EXCEPT ![i] = SubSeq(spikes, k + 1, Len(spikes))]
      /\ SyncStep(i, eject[to_coord(i)], local_done(i))
      /\ UNCHANGED neuronVars
  BY DEF PeStep, Syncing
<1> HIDE DEF s, k
<1>5. QED
  BY <1>3, <1>4

LEMMA PartsOver ==
  ASSUME NEW S, NEW q \in Seq(S), NEW s \in 0 .. Len(q)
  PROVE  /\ SubSeq(q, 1, s) \in Seq(S) /\ Len(SubSeq(q, 1, s)) = s
         /\ SubSeq(q, s + 1, Len(q)) \in Seq(S)
         /\ Len(SubSeq(q, s + 1, Len(q))) = Len(q) - s
<1>1. Len(q) \in Nat
  BY LenProperties
<1>2. /\ 1 \in 1 .. Len(q) + 1 /\ s \in 1 - 1 .. Len(q)
      /\ s + 1 \in 1 .. Len(q) + 1 /\ Len(q) \in s + 1 - 1 .. Len(q)
  BY <1>1
<1>3. SubSeq(q, 1, s) \in Seq(S) /\ Len(SubSeq(q, 1, s)) = s - 1 + 1
  BY <1>2, SubSeqProperties
<1>4. SubSeq(q, s + 1, Len(q)) \in Seq(S) /\ Len(SubSeq(q, s + 1, Len(q))) = Len(q) - (s + 1) + 1
  BY <1>2, SubSeqProperties
<1>5. QED
  BY <1>1, <1>3, <1>4

LEMMA PeStepOver ==
  ASSUME RunnerTypeOK, NEW i \in Pe, NEW ts, QueuesOver(FlitsOf(ts)), PeStep(i)
  PROVE  QueuesOver(FlitsOf(ts))'
<1> DEFINE S == FlitsOf(ts)
           sync == Syncing(i)
           spikes == pending_spikes[i]
<1>1. PICK s \in 0 .. Len(sync), k \in 0 .. Len(spikes) :
        /\ DrainAndInject(to_coord(i), SubSeq(sync, 1, s) \o SubSeq(spikes, 1, k))
        /\ pending_sync' = [pending_sync EXCEPT ![i] = SubSeq(sync, s + 1, Len(sync))]
        /\ pending_spikes' = [pending_spikes EXCEPT ![i] = SubSeq(spikes, k + 1, Len(spikes))]
  BY PeStepParts
<1>2. sync \in Seq(S) /\ spikes \in Seq(S)
  <2>1. Wires(i, eject[to_coord(i)], local_done(i)) \in Seq(S)
    BY WiresType DEF local_done, RunnerTypeOK
  <2>2. QED
    BY <2>1, ConcatProperties DEF QueuesOver, Syncing
<1> HIDE DEF sync, spikes
<1>3. /\ SubSeq(sync, 1, s) \in Seq(S) /\ SubSeq(spikes, 1, k) \in Seq(S)
      /\ SubSeq(sync, s + 1, Len(sync)) \in Seq(S)
      /\ SubSeq(spikes, k + 1, Len(spikes)) \in Seq(S)
  BY <1>2, PartsOver
<1> DEFINE fs == SubSeq(sync, 1, s) \o SubSeq(spikes, 1, k)
<1>4. fs \in Seq(S) /\ DrainAndInject(to_coord(i), fs) /\ to_coord(i) \in Node
  BY <1>1, <1>3, ConcatProperties, Ids
<1> HIDE DEF fs, S
<1>5. MeshOver(S)'
  <2>1. MeshOver(S)
    BY DEF QueuesOver, S
  <2>2. QED
    BY <1>4, <2>1, DrainAndInjectOver
<1>6. pending_sync' \in [Pe -> Seq(S)] /\ pending_spikes' \in [Pe -> Seq(S)]
  <2>1. pending_sync \in [Pe -> Seq(S)] /\ pending_spikes \in [Pe -> Seq(S)]
    BY DEF QueuesOver, S
  <2>2. QED
    BY <1>1, <1>3, <2>1
<1>7. QED
  BY <1>5, <1>6 DEF QueuesOver, S

LEMMA PeStepType ==
  ASSUME RunnerTypeOK, SentAll, NEW i \in Pe, PeStep(i)
  PROVE  /\ RouterTypeOK' /\ SyncTypeOK'
         /\ pending_spikes' \in [Pe -> Seq(Flit)] /\ pending_sync' \in [Pe -> Seq(Flit)]
         /\ UNCHANGED <<current_t, cur_t, spikes_queued>>
         /\ \A j \in Pe : state'[j] # "Computing" => local_done(j)'
         /\ \A j \in Pe : state[j] = "Advancing" => state'[j] = "Advancing"
<1> DEFINE sync == Syncing(i)
           spikes == pending_spikes[i]
<1>1. PICK s \in 0 .. Len(sync), k \in 0 .. Len(spikes) :
        /\ DrainAndInject(to_coord(i), SubSeq(sync, 1, s) \o SubSeq(spikes, 1, k))
        /\ pending_sync' = [pending_sync EXCEPT ![i] = SubSeq(sync, s + 1, Len(sync))]
        /\ pending_spikes' = [pending_spikes EXCEPT ![i] = SubSeq(spikes, k + 1, Len(spikes))]
        /\ SyncStep(i, eject[to_coord(i)], local_done(i))
        /\ UNCHANGED neuronVars
  BY PeStepParts
<1>2. spikes \in Seq(Flit) /\ sync \in Seq(Flit)
  BY SyncingType DEF RunnerTypeOK
<1>3. SyncTypeOK' /\ current_t' = current_t
  <2>1. eject[to_coord(i)] \in Seq(Flit) /\ SyncTypeOK
    BY Ids DEF RunnerTypeOK, RouterTypeOK
  <2>2. QED
    BY <1>1, <2>1, SyncStepType
<1>4. cur_t' = cur_t /\ spikes_queued' = spikes_queued
  BY <1>1 DEF neuronVars
<1>5. ASSUME NEW j \in Pe
      PROVE  /\ state[j] = "Advancing" => state'[j] = "Advancing"
             /\ j # i => state'[j] = state[j] /\ pending_spikes'[j] = pending_spikes[j]
             /\ state'[i] = "Computing" \/ state[i] # "Computing" \/ local_done(i)
  <2>1. state' = [state EXCEPT ![i] =
          NextStage(i, local_done(i), Reported(i, eject[to_coord(i)]), Nexted(i, eject[to_coord(i)]))]
    BY <1>1 DEF SyncStep
  <2>2. state \in [Pe -> PeSyncState]
    BY DEF RunnerTypeOK, SyncTypeOK
  <2>3. \A d, r, m :
          /\ state[i] = "Advancing" => NextStage(i, d, r, m) = "Advancing"
          /\ state[i] = "Computing" /\ ~d => NextStage(i, d, r, m) = "Computing"
    BY DEF NextStage, ChildrenStage, LocalStage
  <2>4. j # i => pending_spikes'[j] = pending_spikes[j]
    BY <1>1 DEF RunnerTypeOK
  <2>5. QED
    BY <2>1, <2>2, <2>3, <2>4
<1>6. ASSUME spikes = << >> PROVE pending_spikes'[i] = << >>
  <2>1. pending_spikes'[i] = SubSeq(spikes, k + 1, Len(spikes))
    BY <1>1 DEF RunnerTypeOK
  <2> HIDE DEF spikes
  <2>2. Len(spikes) = 0 /\ k = 0
    BY <1>6, EmptySeq
  <2>3. SubSeq(spikes, k + 1, Len(spikes)) \in Seq(Flit) /\ Len(SubSeq(spikes, k + 1, Len(spikes))) = 0
    BY <1>2, <2>2, PartsOver
  <2>4. QED
    BY <2>1, <2>3, EmptySeq
<1>7. \A j \in Pe : state'[j] # "Computing" => local_done(j)'
  <2> SUFFICES ASSUME NEW j \in Pe, state'[j] # "Computing" PROVE local_done(j)'
    OBVIOUS
  <2>1. local_done(j)
    BY <1>5 DEF SentAll
  <2>2. pending_spikes'[j] = << >>
    BY <1>5, <1>6, <2>1 DEF local_done
  <2>3. QED
    BY <1>4, <2>1, <2>2 DEF local_done
<1> HIDE DEF sync, spikes
<1>8. /\ SubSeq(sync, 1, s) \in Seq(Flit) /\ SubSeq(spikes, 1, k) \in Seq(Flit)
      /\ SubSeq(sync, s + 1, Len(sync)) \in Seq(Flit)
      /\ SubSeq(spikes, k + 1, Len(spikes)) \in Seq(Flit)
  BY <1>2, PartsOver
<1>9. pending_spikes' \in [Pe -> Seq(Flit)] /\ pending_sync' \in [Pe -> Seq(Flit)]
  BY <1>1, <1>8 DEF RunnerTypeOK
<1> DEFINE fs == SubSeq(sync, 1, s) \o SubSeq(spikes, 1, k)
<1>10. fs \in Seq(Flit) /\ DrainAndInject(to_coord(i), fs) /\ to_coord(i) \in Node
  BY <1>1, <1>8, ConcatProperties, Ids
<1> HIDE DEF fs
<1>11. RouterTypeOK'
  BY <1>10, DrainAndInjectType DEF RunnerTypeOK
<1>12. QED
  BY <1>3, <1>4, <1>5, <1>7, <1>9, <1>11

LEMMA PeStepInjects ==
  ASSUME RunnerTypeOK, NEW i \in Pe, PeStep(i)
  PROVE  \E fs \in Seq(Flit) : DrainAndInject(to_coord(i), fs)
<1>1. PICK s \in 0 .. Len(Syncing(i)), k \in 0 .. Len(pending_spikes[i]) :
        DrainAndInject(to_coord(i), SubSeq(Syncing(i), 1, s)
                                      \o SubSeq(pending_spikes[i], 1, k))
  BY PeStepParts
<1>2. Syncing(i) \in Seq(Flit) /\ pending_spikes[i] \in Seq(Flit)
  BY SyncingType DEF RunnerTypeOK
<1>3. SubSeq(Syncing(i), 1, s) \in Seq(Flit) /\ SubSeq(pending_spikes[i], 1, k) \in Seq(Flit)
  BY <1>2, PartsOver
<1>4. SubSeq(Syncing(i), 1, s) \o SubSeq(pending_spikes[i], 1, k) \in Seq(Flit)
  BY <1>3, ConcatProperties
<1>5. QED
  BY <1>1, <1>4

(* What the steps of a cycle have in common. *)
Cycling ==
  /\ ran # CycleLength /\ InTimestep
  /\ UNCHANGED <<abs_t, measuring, phase, elapsed, deadlock>>
  /\ ran' = ran + 1 /\ ran' \in 0 .. CycleLength

LEMMA CycleSteps ==
  ASSUME RunnerTypeOK
  PROVE  /\ \A i \in Pe : PeCompute(i) \/ PeCommit(i) => Cycling
         /\ \A r \in Node : RouterCompute(r) \/ RouterCommit(r) => Cycling
<1> DEFINE len == CycleLength
           id(n) == to_id(n)
<1>1. /\ NumPe \in Nat /\ Cells \in Nat /\ NumPe <= Cells /\ len = 2 * NumPe + 2 * Cells
      /\ \A n \in Node : id(n) \in 0 .. Cells - 1
      /\ Pe = 0 .. NumPe - 1
  BY Ids
<1>2. /\ \A i \in Pe : PeCompute(i) => ran = i /\ ran' = ran + 1
      /\ \A r \in Node : RouterCompute(r) => ran = NumPe + id(r) /\ ran' = ran + 1
      /\ \A i \in Pe : PeCommit(i) => ran = NumPe + Cells + i /\ ran' = ran + 1
      /\ \A r \in Node : RouterCommit(r) => ran = 2 * NumPe + Cells + id(r) /\ ran' = ran + 1
  BY Places
<1>3. ran # len => InTimestep
  BY DEF RunnerTypeOK
<1>4. /\ \A i \in Pe : PeCompute(i) \/ PeCommit(i) =>
           UNCHANGED <<abs_t, measuring, phase, elapsed, deadlock>>
      /\ \A r \in Node : RouterCompute(r) \/ RouterCommit(r) =>
           UNCHANGED <<abs_t, measuring, phase, elapsed, deadlock>>
  BY DEF PeCompute, PeCommit, RouterCompute, RouterCommit, Take
<1> HIDE DEF len, id
<1>5. ASSUME NEW i \in Pe, PeCompute(i) \/ PeCommit(i)
      PROVE  ran # len /\ ran' = ran + 1 /\ ran' \in 0 .. len
  BY <1>1, <1>2, <1>5
<1>6. ASSUME NEW r \in Node, RouterCompute(r) \/ RouterCommit(r)
      PROVE  ran # len /\ ran' = ran + 1 /\ ran' \in 0 .. len
  <2>1. id(r) \in 0 .. Cells - 1
    BY <1>1
  <2>2. QED
    BY <1>1, <1>2, <1>6, <2>1
<1>7. QED
  BY <1>3, <1>4, <1>5, <1>6 DEF Cycling, len

-----------------------------------------------------------------------------
(* Types, clocks, sending and credits, through a cycle. *)

Basics == RunnerTypeOK /\ Clocks /\ SentAll /\ CreditInv

LEMMA CyclingKeepsTime ==
  ASSUME RunnerTypeOK, Cycling, UNCHANGED <<current_t, cur_t>>
  PROVE  /\ Now' = Now /\ InTimestep'
         /\ Clocks => Clocks'
<1>1. Now' = Now /\ InTimestep'
  BY DEF Cycling, Now, InTimestep
<1>2. phase' # "between"
  BY <1>1 DEF InTimestep
<1>3. Timestep' = Timestep
  BY DEF Timestep
<1>4. QED
  BY <1>1, <1>2, <1>3 DEF Clocks

LEMMA CyclingKeepsTypes ==
  ASSUME RunnerTypeOK, Cycling, RouterTypeOK', SyncTypeOK', UNCHANGED <<cur_t, spikes_queued>>,
         pending_spikes' \in [Pe -> Seq(Flit)], pending_sync' \in [Pe -> Seq(Flit)]
  PROVE  RunnerTypeOK'
<1>1. InTimestep'
  BY DEF Cycling, InTimestep
<1>2. CycleLength' = CycleLength
  BY DEF CycleLength
<1>3. QED
  BY <1>1, <1>2 DEF RunnerTypeOK, Cycling

LEMMA PeComputeBasics ==
  ASSUME Basics, NEW i \in Pe, PeCompute(i)
  PROVE  Basics' /\ Now' = Now
<1>1. Cycling /\ PeStep(i) /\ RunnerTypeOK /\ Clocks /\ SentAll /\ CreditInv
  BY CycleSteps DEF Basics, PeCompute
<1>2. /\ RouterTypeOK' /\ SyncTypeOK'
      /\ pending_spikes' \in [Pe -> Seq(Flit)] /\ pending_sync' \in [Pe -> Seq(Flit)]
      /\ UNCHANGED <<current_t, cur_t, spikes_queued>>
      /\ \A j \in Pe : state'[j] # "Computing" => local_done(j)'
      /\ \A j \in Pe : state[j] = "Advancing" => state'[j] = "Advancing"
  BY <1>1, PeStepType
<1>3. RunnerTypeOK'
  BY <1>1, <1>2, CyclingKeepsTypes
<1>4. Clocks' /\ Now' = Now
  BY <1>1, <1>2, CyclingKeepsTime
<1>5. SentAll'
  <2>1. phase' = phase
    BY <1>1 DEF Cycling
  <2>2. QED
    BY <1>1, <1>2, <2>1 DEF SentAll, all_advancing, ready_to_advance
<1>6. CreditInv'
  <2>1. PICK fs \in Seq(Flit) : DrainAndInject(to_coord(i), fs)
    BY <1>1, PeStepInjects
  <2>2. to_coord(i) \in Node
    BY Ids
  <2>3. QED
    BY <1>1, <2>1, <2>2, DrainAndInjectCredits DEF RunnerTypeOK
<1>7. QED
  BY <1>3, <1>4, <1>5, <1>6 DEF Basics

LEMMA SentAllUnchanged ==
  ASSUME SentAll, UNCHANGED <<syncVars, networkPeVars, phase>>
  PROVE  SentAll'
BY DEF SentAll, local_done, all_advancing, ready_to_advance, syncVars, networkPeVars,
       neuronVars

LEMMA RouterStepBasics ==
  ASSUME Basics, Cycling, RouterTypeOK', CreditInv', UNCHANGED <<syncVars, networkPeVars>>
  PROVE  Basics' /\ Now' = Now
<1>1. RunnerTypeOK /\ Clocks /\ SentAll
  BY DEF Basics
<1>2. SyncTypeOK' /\ UNCHANGED <<current_t, cur_t, spikes_queued>>
  BY <1>1 DEF RunnerTypeOK, SyncTypeOK, syncVars, networkPeVars, neuronVars
<1>3. pending_spikes' \in [Pe -> Seq(Flit)] /\ pending_sync' \in [Pe -> Seq(Flit)]
  BY <1>1 DEF RunnerTypeOK, networkPeVars
<1>4. RunnerTypeOK'
  BY <1>1, <1>2, <1>3, CyclingKeepsTypes
<1>5. Clocks' /\ Now' = Now
  BY <1>1, <1>2, CyclingKeepsTime
<1>6. SentAll'
  BY <1>1, SentAllUnchanged DEF Cycling
<1>7. QED
  BY <1>4, <1>5, <1>6 DEF Basics

LEMMA RouterComputeBasics ==
  ASSUME Basics, NEW r \in Node, RouterCompute(r)
  PROVE  Basics' /\ Now' = Now
<1>1. /\ Cycling /\ Compute(r) /\ RouterTypeOK /\ CreditInv
      /\ UNCHANGED <<syncVars, networkPeVars>>
  BY CycleSteps DEF Basics, RouterCompute, RunnerTypeOK
<1>2. RouterTypeOK' /\ CreditInv'
  BY <1>1, ComputeType, ComputeCredits
<1>3. QED
  BY <1>1, <1>2, RouterStepBasics

LEMMA RouterCommitBasics ==
  ASSUME Basics, NEW r \in Node, RouterCommit(r)
  PROVE  Basics' /\ Now' = Now
<1>1. /\ Cycling /\ Commit(r) /\ RouterTypeOK /\ CreditInv
      /\ UNCHANGED <<syncVars, networkPeVars>>
  BY CycleSteps DEF Basics, RouterCommit, RunnerTypeOK
<1>2. RouterTypeOK' /\ CreditInv'
  BY <1>1, CommitType, CommitCredits
<1>3. QED
  BY <1>1, <1>2, RouterStepBasics

LEMMA PeCommitBasics ==
  ASSUME Basics, NEW i \in Pe, PeCommit(i)
  PROVE  Basics' /\ Now' = Now
<1>1. /\ Cycling /\ CommitEject(to_coord(i)) /\ RouterTypeOK /\ CreditInv
      /\ UNCHANGED <<syncVars, networkPeVars>>
  BY CycleSteps DEF Basics, PeCommit, RunnerTypeOK
<1>2. RouterTypeOK'
  BY <1>1, Ids, CommitEjectType
<1>3. CreditInv'
  BY <1>1, LinksUnchangedCredits DEF CommitEject
<1>4. QED
  BY <1>1, <1>2, <1>3, RouterStepBasics

-----------------------------------------------------------------------------
(* The same outside the cycles. *)

(* A step that leaves the mesh and the PEs' controllers and queues alone. *)
Still == UNCHANGED <<routerVars, syncVars, cur_t, spikes_queued, pending_spikes, pending_sync>>

LEMMA StillMesh ==
  ASSUME RunnerTypeOK, CreditInv, SentAll, Still
  PROVE  /\ RouterTypeOK' /\ SyncTypeOK' /\ CreditInv'
         /\ cur_t' \in [Pe -> Timestep] /\ spikes_queued' \in [Pe -> BOOLEAN]
         /\ pending_spikes' \in [Pe -> Seq(Flit)] /\ pending_sync' \in [Pe -> Seq(Flit)]
         /\ \A i \in Pe : state'[i] # "Computing" => local_done(i)'
         /\ all_advancing' <=> all_advancing
<1>1. RouterTypeOK' /\ SyncTypeOK'
  BY DEF Still, RunnerTypeOK, RouterTypeOK, SyncTypeOK, routerVars, syncVars
<1>2. CreditInv'
  BY LinksUnchangedCredits DEF Still, routerVars
<1>3. QED
  BY <1>1, <1>2
  DEF Still, syncVars, RunnerTypeOK, SentAll, local_done, all_advancing, ready_to_advance

LEMMA StillSteps ==
  GiveUp \/ NextCycle \/ BeginDrain \/ EndTimestep \/ reset_counts \/ Finish => Still
BY DEF GiveUp, NextCycle, BeginDrain, EndTimestep, reset_counts, Finish, ResetFireCounts,
       Still, networkPeVars, neuronVars

LEMMA NowIsIn ==
  ASSUME Clocks, RunnerTypeOK
  PROVE  /\ abs_t \in Nat /\ NumTimesteps \in Nat
         /\ InTimestep => Now = abs_t /\ abs_t \in Timestep /\ abs_t + 1 \in 0 .. NumTimesteps
         /\ ~InTimestep /\ abs_t # 0 => Now = abs_t - 1
         /\ ~InTimestep /\ abs_t = 0 => Now = abs_t
<1>1. NumTimesteps \in Nat
  BY RunAssumption
<1>2. QED
  BY <1>1 DEF Clocks, RunnerTypeOK, Now, Timestep

LEMMA EndBasics ==
  ASSUME Basics, GiveUp \/ EndTimestep
  PROVE  Basics' /\ Now' = Now
<1>1. Still /\ RunnerTypeOK /\ Clocks /\ SentAll /\ CreditInv
  BY StillSteps DEF Basics
<1>2. /\ ran = CycleLength /\ InTimestep
      /\ phase' = "between" /\ abs_t' = abs_t + 1 /\ deadlock' \in BOOLEAN
      /\ UNCHANGED <<measuring, ran, elapsed>>
  BY <1>1 DEF GiveUp, EndTimestep, InCycles, InTimestep, RunnerTypeOK
<1>3. abs_t \in Nat /\ Now = abs_t /\ abs_t + 1 \in 0 .. NumTimesteps
  BY <1>1, <1>2, NowIsIn
<1>4. Now' = Now
  <2>1. ~InTimestep'
    BY <1>2 DEF InTimestep
  <2>2. abs_t' # 0 /\ abs_t' - 1 = abs_t
    BY <1>2, <1>3
  <2>3. QED
    BY <1>3, <2>1, <2>2 DEF Now
<1>5. RunnerTypeOK'
  <2>1. CycleLength' = CycleLength
    BY DEF CycleLength
  <2>2. QED
    BY <1>1, <1>2, <1>3, <2>1, StillMesh DEF RunnerTypeOK
<1>6. Clocks'
  BY <1>1, <1>2, <1>3, <1>4 DEF Clocks, Still, syncVars, Timestep
<1>7. SentAll' /\ CreditInv'
  BY <1>1, <1>2, StillMesh DEF SentAll
<1>8. QED
  BY <1>4, <1>5, <1>6, <1>7 DEF Basics

LEMMA InsideBasics ==
  ASSUME Basics, NextCycle \/ BeginDrain
  PROVE  Basics' /\ Now' = Now
<1>1. Still /\ RunnerTypeOK /\ Clocks /\ SentAll /\ CreditInv
  BY StillSteps DEF Basics
<1>2. /\ InTimestep /\ InTimestep' /\ phase' # "between"
      /\ phase' \in {"between", "barrier", "drain", "done"}
      /\ UNCHANGED <<abs_t, measuring, deadlock>>
      /\ elapsed' \in Nat /\ ran' \in 0 .. CycleLength
      /\ phase' = "drain" => all_advancing
  <2>1. InTimestep /\ CycleLength \in Nat
    <3>1. InTimestep
      BY DEF NextCycle, BeginDrain, InCycles, InTimestep
    <3> DEFINE len == CycleLength
    <3>2. NumPe \in Nat /\ Cells \in Nat /\ len = 2 * NumPe + 2 * Cells
      BY Ids
    <3> HIDE DEF len
    <3>3. len \in Nat
      BY <3>2
    <3>4. QED
      BY <3>1, <3>3 DEF len
  <2>2. CASE NextCycle
    <3>1. phase' = phase /\ elapsed' = elapsed + 1 /\ ran' = 0
          /\ UNCHANGED <<abs_t, measuring, deadlock>>
      BY <2>2 DEF NextCycle
    <3>2. 0 \in 0 .. CycleLength
      BY <2>1
    <3>3. QED
      BY <1>1, <2>1, <3>1, <3>2 DEF SentAll, InTimestep, RunnerTypeOK
  <2>3. CASE BeginDrain
    BY <1>1, <2>1, <2>3 DEF BeginDrain, LoopOver, InTimestep, RunnerTypeOK
  <2>4. QED
    BY <2>2, <2>3
<1>3. Now' = Now
  BY <1>2 DEF Now
<1>4. RunnerTypeOK'
  <2>1. CycleLength' = CycleLength
    BY DEF CycleLength
  <2>2. QED
    BY <1>1, <1>2, <2>1, StillMesh DEF RunnerTypeOK
<1>5. Clocks'
  BY <1>1, <1>2, <1>3 DEF Clocks, Still, syncVars, Timestep
<1>6. SentAll' /\ CreditInv'
  BY <1>1, <1>2, StillMesh DEF SentAll
<1>7. QED
  BY <1>3, <1>4, <1>5, <1>6 DEF Basics

LEMMA OutsideBasics ==
  ASSUME Basics, reset_counts \/ Finish
  PROVE  Basics' /\ Now' = Now
<1>1. Still /\ RunnerTypeOK /\ Clocks /\ SentAll /\ CreditInv
  BY StillSteps DEF Basics
<1>2. /\ ~InTimestep /\ ~InTimestep' /\ phase = "between" /\ phase' \in {"between", "done"}
      /\ UNCHANGED <<abs_t, deadlock, elapsed, ran>> /\ measuring' \in BOOLEAN
  BY <1>1 DEF reset_counts, Finish, InTimestep, RunnerTypeOK
<1>3. Now' = Now
  BY <1>2 DEF Now
<1>4. RunnerTypeOK'
  <2>1. CycleLength' = CycleLength
    BY DEF CycleLength
  <2>2. QED
    BY <1>1, <1>2, <2>1, StillMesh DEF RunnerTypeOK
<1>5. Clocks'
  BY <1>1, <1>2, <1>3 DEF Clocks, Still, syncVars, Timestep
<1>6. SentAll' /\ CreditInv'
  BY <1>1, <1>2, StillMesh DEF SentAll
<1>7. QED
  BY <1>3, <1>4, <1>5, <1>6 DEF Basics

LEMMA BeginParts ==
  ASSUME Basics, Begin
  PROVE  /\ abs_t \in Timestep /\ Now' = abs_t /\ ran = CycleLength
         /\ phase = "between" /\ ~deadlock
         /\ phase' = "barrier" /\ elapsed' = 0
         /\ UNCHANGED <<abs_t, measuring, deadlock, ran, routerVars, pending_sync>>
         /\ pending_spikes' \in [Pe -> Seq(FlitsOf(abs_t))]
         /\ spikes_queued' = [i \in Pe |-> TRUE]
         /\ cur_t' = [i \in Pe |-> abs_t]
         /\ current_t' \in [Pe -> Timestep] /\ \A i \in Pe : current_t'[i] = abs_t
         /\ \A i \in Pe : state'[i] = "Computing"
         /\ SyncTypeOK'
<1>1. RunnerTypeOK /\ Clocks /\ SentAll /\ CreditInv
  BY DEF Basics
<1>2. /\ phase = "between" /\ ~deadlock
      /\ phase' = "barrier" /\ elapsed' = 0
      /\ UNCHANGED <<abs_t, measuring, deadlock, ran>>
      /\ BeginTimestep(abs_t, [i \in Pe |-> FedCurrent(i)])
      /\ abs_t < IF measuring THEN Warmup + Measure ELSE Warmup
  BY DEF Begin, GoesOn, AbsoluteIndex
<1>3. abs_t \in Timestep
  BY <1>1, <1>2, RunAssumption DEF RunnerTypeOK, Timestep
<1>4. Now' = abs_t /\ ran = CycleLength
  BY <1>1, <1>2 DEF Now, InTimestep, RunnerTypeOK
<1>5. /\ UNCHANGED <<routerVars, pending_sync>>
      /\ spikes_queued' = [i \in Pe |-> TRUE]
      /\ cur_t' = [i \in Pe |-> abs_t]
      /\ pending_spikes' = [i \in Pe |-> Packets(i, soma'[i].fired, abs_t)]
      /\ IF abs_t > 0 THEN BeginNextTimestep ELSE UNCHANGED syncVars
  BY <1>2 DEF BeginTimestep
<1>6. pending_spikes' \in [Pe -> Seq(FlitsOf(abs_t))]
  BY <1>3, <1>5, PacketsType
<1>7. /\ current_t' \in [Pe -> Timestep] /\ \A i \in Pe : current_t'[i] = abs_t
      /\ \A i \in Pe : state'[i] = "Computing"
      /\ SyncTypeOK'
  <2>1. SyncTypeOK /\ abs_t \in Nat
    BY <1>1, NowIsIn DEF RunnerTypeOK
  <2>2. CASE abs_t > 0
    <3>1. ~InTimestep /\ abs_t # 0
      BY <1>2, <2>1, <2>2 DEF InTimestep
    <3>2. \A i \in Pe : current_t[i] = abs_t - 1
      BY <1>1, <3>1, NowIsIn DEF Clocks
    <3>3. \A i \in Pe : current_t'[i] = abs_t
      BY <1>5, <2>1, <2>2, <3>2 DEF BeginNextTimestep
    <3>4. current_t' \in [Pe -> Timestep]
      <4>1. current_t' = [i \in Pe |-> current_t[i] + 1]
        BY <1>5, <2>2 DEF BeginNextTimestep
      <4>2. QED
        BY <1>3, <3>3, <4>1
    <3>5. state' \in [Pe -> PeSyncState] /\ \A i \in Pe : state'[i] = "Computing"
      BY <1>5, <2>2 DEF BeginNextTimestep, PeSyncState
    <3>6. children_reported' \in [Pe -> Nat] /\ next_received' \in [Pe -> BOOLEAN]
      <4>1. children_reported' = [i \in Pe |-> 0] /\ next_received' = [i \in Pe |-> FALSE]
        BY <1>5, <2>2 DEF BeginNextTimestep
      <4>2. QED
        BY <4>1
    <3>7. QED
      BY <3>3, <3>4, <3>5, <3>6 DEF SyncTypeOK, Timestep
  <2>3. CASE abs_t = 0
    <3>1. UNCHANGED syncVars /\ Now = abs_t
      BY <1>5, <2>3 DEF Now
    <3>2. SyncTypeOK' /\ current_t' = current_t /\ state' = state
      BY <2>1, <3>1 DEF SyncTypeOK, syncVars, Timestep
    <3>3. QED
      BY <1>1, <1>2, <2>1, <2>3, <3>1, <3>2 DEF Clocks, SyncTypeOK
  <2>4. QED
    BY <2>1, <2>2, <2>3
<1>8. QED
  BY <1>2, <1>3, <1>4, <1>5, <1>6, <1>7

LEMMA BeginBasics ==
  ASSUME Basics, Begin
  PROVE  Basics'
<1>1. RunnerTypeOK /\ Clocks /\ SentAll /\ CreditInv
  BY DEF Basics
<1>2. /\ abs_t \in Timestep /\ Now' = abs_t
      /\ phase' = "barrier" /\ elapsed' = 0
      /\ UNCHANGED <<abs_t, measuring, deadlock, ran, routerVars, pending_sync>>
      /\ pending_spikes' \in [Pe -> Seq(FlitsOf(abs_t))]
      /\ spikes_queued' = [i \in Pe |-> TRUE]
      /\ cur_t' = [i \in Pe |-> abs_t]
      /\ \A i \in Pe : current_t'[i] = abs_t
      /\ \A i \in Pe : state'[i] = "Computing"
      /\ SyncTypeOK'
  BY BeginParts
<1>3. RouterTypeOK' /\ CreditInv'
  BY <1>1, <1>2, LinksUnchangedCredits DEF RunnerTypeOK, RouterTypeOK, routerVars
<1>4. pending_spikes' \in [Pe -> Seq(Flit)]
  <2>1. FlitsOf(abs_t) \subseteq Flit
    BY DEF FlitsOf
  <2>2. \A q \in Seq(FlitsOf(abs_t)) : q \in Seq(Flit)
    BY <2>1
  <2>3. QED
    BY <1>2, <2>2
<1>5. RunnerTypeOK'
  <2>1. CycleLength' = CycleLength /\ InTimestep'
    BY <1>2 DEF CycleLength, InTimestep
  <2>2. cur_t' \in [Pe -> Timestep] /\ spikes_queued' \in [Pe -> BOOLEAN]
    BY <1>2
  <2>3. QED
    BY <1>1, <1>2, <1>3, <1>4, <2>1, <2>2 DEF RunnerTypeOK, Timestep
<1>6. Clocks' /\ SentAll'
  BY <1>2 DEF Clocks, SentAll, Timestep
<1>7. QED
  BY <1>3, <1>5, <1>6 DEF Basics

LEMMA InitBasics == Init => Basics
<1> SUFFICES ASSUME Init PROVE Basics
  OBVIOUS
<1>1. /\ RouterInit /\ SyncInit /\ NetworkPeInit
      /\ abs_t = 0 /\ measuring = FALSE /\ phase = "between" /\ ran = CycleLength
      /\ elapsed = 0 /\ deadlock = FALSE
  BY DEF Init
<1>2. 0 \in Timestep /\ abs_t \in 0 .. NumTimesteps
  BY <1>1, NumTimestepsAssumption DEF Timestep
<1>3. RouterTypeOK /\ CreditInv
  <2>1. RouterTypeOK
    BY <1>1, CreditAssumption DEF RouterInit, RouterTypeOK, Dir, Local, South
  <2>2. QED
    BY <1>1, <2>1, InitCredits
<1>4. /\ SyncTypeOK
      /\ \A i \in Pe : current_t[i] = 0 /\ state[i] = "Computing"
  BY <1>1, <1>2 DEF SyncInit, SyncTypeOK, PeSyncState
<1>5. /\ cur_t \in [Pe -> Timestep] /\ spikes_queued \in [Pe -> BOOLEAN]
      /\ pending_spikes \in [Pe -> Seq(Flit)] /\ pending_sync \in [Pe -> Seq(Flit)]
      /\ \A i \in Pe : cur_t[i] = 0
  BY <1>1, <1>2 DEF NetworkPeInit
<1>6. ran \in 0 .. CycleLength
  <2> DEFINE len == CycleLength
  <2>1. NumPe \in Nat /\ Cells \in Nat /\ len = 2 * NumPe + 2 * Cells
    BY Ids
  <2>2. ran = len
    BY <1>1
  <2> HIDE DEF len
  <2>3. ran \in 0 .. len
    BY <2>1, <2>2
  <2>4. QED
    BY <2>3 DEF len
<1>7. RunnerTypeOK
  BY <1>1, <1>2, <1>3, <1>4, <1>5, <1>6 DEF RunnerTypeOK
<1>8. Clocks
  BY <1>1, <1>2, <1>4, <1>5 DEF Clocks, Now
<1>9. SentAll
  BY <1>1, <1>4 DEF SentAll
<1>10. QED
  BY <1>3, <1>7, <1>8, <1>9 DEF Basics

-----------------------------------------------------------------------------
(* Whatever is on its way is of the timestep begun last. *)

LEMMA EmptyQueues ==
  ASSUME RunnerTypeOK, NEW S,
         \A i \in Pe : pending_spikes[i] = << >> /\ pending_sync[i] = << >>,
         \A n \in Node : /\ eject[n] = << >> /\ ejectNxt[n] = << >>
                         /\ \A p \in Dir : cur[n][p] = << >> /\ nxt[n][p] = << >>
  PROVE  QueuesOver(S)
<1>1. << >> \in Seq(S)
  OBVIOUS
<1>2. cur \in [Node -> [Dir -> Seq(S)]] /\ nxt \in [Node -> [Dir -> Seq(S)]]
  <2>1. /\ cur \in [Node -> [Dir -> Seq(Flit)]] /\ nxt \in [Node -> [Dir -> Seq(Flit)]]
    BY DEF RunnerTypeOK, RouterTypeOK
  <2>2. \A n \in Node : cur[n] \in [Dir -> Seq(S)] /\ nxt[n] \in [Dir -> Seq(S)]
    BY <1>1, <2>1
  <2>3. QED
    BY <2>1, <2>2
<1>3. eject \in [Node -> Seq(S)] /\ ejectNxt \in [Node -> Seq(S)]
  <2>1. eject \in [Node -> Seq(Flit)] /\ ejectNxt \in [Node -> Seq(Flit)]
    BY DEF RunnerTypeOK, RouterTypeOK
  <2>2. QED
    BY <1>1, <2>1
<1>4. pending_spikes \in [Pe -> Seq(S)] /\ pending_sync \in [Pe -> Seq(S)]
  <2>1. pending_spikes \in [Pe -> Seq(Flit)] /\ pending_sync \in [Pe -> Seq(Flit)]
    BY DEF RunnerTypeOK
  <2>2. QED
    BY <1>1, <2>1
<1>5. QED
  BY <1>2, <1>3, <1>4 DEF QueuesOver, MeshOver

LEMMA StampedStep ==
  ASSUME Now' = Now, Stamped,
         \A ts \in Timestep : QueuesOver(FlitsOf(ts)) => QueuesOver(FlitsOf(ts))'
  PROVE  Stamped'
BY DEF Stamped, Timestep

LEMMA CycleStamped ==
  ASSUME Basics, Stamped,
         \/ \E i \in Pe : PeCompute(i) \/ PeCommit(i)
         \/ \E r \in Node : RouterCompute(r) \/ RouterCommit(r)
  PROVE  Stamped'
<1>1. Now' = Now
  BY PeComputeBasics, PeCommitBasics, RouterComputeBasics, RouterCommitBasics
<1>2. ASSUME NEW ts \in Timestep, QueuesOver(FlitsOf(ts))
      PROVE  QueuesOver(FlitsOf(ts))'
  <2>1. RunnerTypeOK /\ RouterTypeOK /\ MeshOver(FlitsOf(ts))
    BY <1>2 DEF Basics, RunnerTypeOK, QueuesOver
  <2>2. CASE \E i \in Pe : PeCompute(i)
    BY <1>2, <2>1, <2>2, PeStepOver DEF PeCompute
  <2>3. ASSUME MeshOver(FlitsOf(ts))', UNCHANGED networkPeVars
        PROVE  QueuesOver(FlitsOf(ts))'
    <3>1. pending_spikes' = pending_spikes /\ pending_sync' = pending_sync
      BY <2>3 DEF networkPeVars
    <3>2. QED
      BY <1>2, <2>3, <3>1 DEF QueuesOver
  <2>4. CASE \E r \in Node : RouterCompute(r)
    <3>1. PICK r \in Node : Compute(r) /\ UNCHANGED networkPeVars
      BY <2>4 DEF RouterCompute
    <3>2. MeshOver(FlitsOf(ts))'
      BY <2>1, <3>1, ComputeOver
    <3>3. QED
      BY <2>3, <3>1, <3>2
  <2>5. CASE \E r \in Node : RouterCommit(r)
    <3>1. PICK r \in Node : Commit(r) /\ UNCHANGED networkPeVars
      BY <2>5 DEF RouterCommit
    <3>2. MeshOver(FlitsOf(ts))'
      BY <2>1, <3>1, CommitOver
    <3>3. QED
      BY <2>3, <3>1, <3>2
  <2>6. CASE \E i \in Pe : PeCommit(i)
    <3>1. PICK i \in Pe : CommitEject(to_coord(i)) /\ UNCHANGED networkPeVars
      BY <2>6 DEF PeCommit
    <3>2. MeshOver(FlitsOf(ts))'
      BY <2>1, <3>1, Ids, CommitEjectOver
    <3>3. QED
      BY <2>3, <3>1, <3>2
  <2>7. QED
    BY <2>2, <2>4, <2>5, <2>6
<1>3. QED
  BY <1>1, <1>2, StampedStep

LEMMA StillStamped ==
  ASSUME Stamped, Now' = Now, Still
  PROVE  Stamped'
<1>1. ASSUME NEW ts \in Timestep, QueuesOver(FlitsOf(ts))
      PROVE  QueuesOver(FlitsOf(ts))'
  BY <1>1 DEF QueuesOver, MeshOver, Still, routerVars
<1>2. QED
  BY <1>1, StampedStep

(* A new timestep finds all queues empty. *)
LEMMA BeginStamped ==
  ASSUME Basics, SilentBetween, Begin
  PROVE  Stamped'
<1>1. /\ abs_t \in Timestep /\ Now' = abs_t
      /\ phase = "between" /\ ~deadlock
      /\ UNCHANGED <<abs_t, routerVars, pending_sync>>
      /\ pending_spikes' \in [Pe -> Seq(FlitsOf(abs_t))]
  BY BeginParts
<1>2. /\ \A i \in Pe : pending_spikes[i] = << >> /\ pending_sync[i] = << >>
      /\ \A n \in Node : /\ eject[n] = << >> /\ ejectNxt[n] = << >>
                         /\ \A p \in Dir : cur[n][p] = << >> /\ nxt[n][p] = << >>
  BY <1>1 DEF SilentBetween
<1>3. ASSUME NEW ts \in Timestep, ts = abs_t PROVE QueuesOver(FlitsOf(ts))'
  <2>1. QueuesOver(FlitsOf(ts))
    BY <1>2, EmptyQueues DEF Basics
  <2>2. UNCHANGED <<cur, nxt, eject, ejectNxt, pending_sync>>
    BY <1>1 DEF routerVars
  <2>3. pending_spikes' \in [Pe -> Seq(FlitsOf(ts))]
    BY <1>1, <1>3
  <2>4. QED
    BY <2>1, <2>2, <2>3 DEF QueuesOver, MeshOver
<1>4. QED
  BY <1>1, <1>3 DEF Stamped, Timestep

LEMMA InitEmpty ==
  ASSUME Init
  PROVE  /\ \A i \in Pe : pending_spikes[i] = << >> /\ pending_sync[i] = << >>
         /\ \A n \in Node :
              /\ eject[n] = << >> /\ ejectNxt[n] = << >>
              /\ injectCredit[n] + peCreditReturn[n] = CreditInit
              /\ peCreditReturn[n] = 0
              /\ \A p \in Dir : cur[n][p] = << >> /\ nxt[n][p] = << >>
<1>1. CreditInit \in Nat
  BY CreditAssumption
<1>2. QED
  BY <1>1 DEF Init, RouterInit, NetworkPeInit

LEMMA InitStamped == Init => Stamped
<1> SUFFICES ASSUME Init PROVE Stamped
  OBVIOUS
<1>1. RunnerTypeOK
  BY InitBasics DEF Basics
<1>2. \A ts \in Timestep : QueuesOver(FlitsOf(ts))
  BY <1>1, InitEmpty, EmptyQueues
<1>3. QED
  BY <1>2 DEF Stamped

-----------------------------------------------------------------------------
(* What the sweeps of a cycle leave behind. *)

LEMMA OnlyPesEject ==
  ASSUME RouterTypeOK, NEW r \in Node, to_id(r) \notin Pe
  PROVE  Local \notin Granted(r)
<1> SUFFICES ASSUME Local \in Granted(r) PROVE FALSE
  OBVIOUS
<1>1. Sent(r, Local) \in Flit /\ route_xy(r, Sent(r, Local).dst) = Local
  BY SentIsFlit
<1>2. Sent(r, Local).dst = r
  BY <1>1, FlitAssumption, RouteOnMesh
<1>3. PICK i \in Pe : r = to_coord(i)
  BY <1>1, <1>2, WireAssumption
<1>4. QED
  BY <1>3, Ids

LEMMA EjectHomeStep ==
  ASSUME Basics, EjectHome, Next
  PROVE  EjectHome'
<1>1. RunnerTypeOK /\ RouterTypeOK
  BY DEF Basics, RunnerTypeOK
<1> SUFFICES ASSUME NEW n \in Node, to_id(n) \notin Pe
             PROVE  eject'[n] = << >> /\ ejectNxt'[n] = << >>
  BY DEF EjectHome, to_id, Pe
<1>2. eject[n] = << >> /\ ejectNxt[n] = << >> /\ \A i \in Pe : to_coord(i) # n
  BY Ids DEF EjectHome
<1>3. CASE \E i \in Pe : PeCompute(i)
  <2>1. PICK i \in Pe, fs \in Seq(Flit) : DrainAndInject(to_coord(i), fs)
    BY <1>1, <1>3, PeStepInjects DEF PeCompute
  <2>2. QED
    BY <1>1, <1>2, <2>1 DEF DrainAndInject, RouterTypeOK
<1>4. CASE \E i \in Pe : PeCommit(i)
  BY <1>1, <1>2, <1>4 DEF PeCommit, CommitEject, RouterTypeOK
<1>5. CASE \E r \in Node : RouterCompute(r)
  <2>1. PICK r \in Node : Compute(r)
    BY <1>5 DEF RouterCompute
  <2>2. r = n => Local \notin Granted(r)
    BY <1>1, OnlyPesEject
  <2>3. QED
    BY <1>1, <1>2, <2>1, <2>2 DEF Compute, RouterTypeOK
<1>6. CASE \E r \in Node : RouterCommit(r)
  BY <1>2, <1>6 DEF RouterCommit, Commit
<1>7. CASE Begin
  BY <1>2, <1>7, BeginParts DEF routerVars
<1>8. CASE GiveUp \/ NextCycle \/ BeginDrain \/ EndTimestep \/ reset_counts \/ Finish
  BY <1>2, <1>8, StillSteps DEF Still, routerVars
<1>9. QED
  BY <1>3, <1>4, <1>5, <1>6, <1>7, <1>8 DEF Next

(* The arithmetic of the sweeps. *)
LEMMA Sweeps ==
  /\ \A i \in Pe : /\ i + 1 <= NumPe /\ ~(NumPe <= i)
                   /\ \A n \in Node : ~(2 * NumPe + Cells + to_id(n) < i + 1)
                   /\ \A j \in Pe : ~(NumPe + Cells + j < i + 1)
  /\ \A r \in Node : LET k == NumPe + to_id(r) IN
       /\ NumPe <= k /\ ~(k + 1 <= NumPe)
       /\ \A n \in Node : ~(2 * NumPe + Cells + to_id(n) < k + 1)
       /\ \A j \in Pe : ~(NumPe + Cells + j < k + 1) /\ j < k
  /\ \A i \in Pe : LET k == NumPe + Cells + i IN
       /\ NumPe <= k /\ ~(k + 1 <= NumPe)
       /\ \A n \in Node : ~(2 * NumPe + Cells + to_id(n) < k + 1)
       /\ \A j \in Pe : /\ NumPe + Cells + j < k + 1 => j = i \/ NumPe + Cells + j < k
                        /\ j < k
  /\ \A r \in Node : LET k == 2 * NumPe + Cells + to_id(r) IN
       /\ NumPe <= k /\ ~(k + 1 <= NumPe)
       /\ \A n \in Node : 2 * NumPe + Cells + to_id(n) < k + 1
                            => n = r \/ 2 * NumPe + Cells + to_id(n) < k
       /\ \A j \in Pe : NumPe + Cells + j < k /\ j < k
  /\ \A n \in Node : 2 * NumPe + Cells + to_id(n) < CycleLength
  /\ \A j \in Pe : NumPe + Cells + j < CycleLength /\ j < CycleLength
  /\ NumPe <= CycleLength
<1> DEFINE id(n) == to_id(n)
           len == CycleLength
           N == NumPe
<1>1. /\ N \in Nat /\ N >= 1 /\ Cells \in Nat /\ N <= Cells /\ len = 2 * N + 2 * Cells
      /\ Pe = 0 .. N - 1
      /\ \A n \in Node : id(n) \in 0 .. Cells - 1
      /\ \A n, r \in Node : id(n) = id(r) => n = r
  <2>1. \A n \in Node : to_coord(to_id(n)) = n
    BY Ids
  <2>2. \A n, r \in Node : id(n) = id(r) => n = r
    BY <2>1
  <2>3. QED
    BY <2>2, Ids
<1> HIDE DEF id, len, N
<1>2. \A i \in Pe : /\ i + 1 <= N /\ ~(N <= i)
                    /\ \A n \in Node : ~(2 * N + Cells + id(n) < i + 1)
                    /\ \A j \in Pe : ~(N + Cells + j < i + 1)
  BY <1>1
<1>3. \A r \in Node :
       /\ N <= N + id(r) /\ ~(N + id(r) + 1 <= N)
       /\ \A n \in Node : ~(2 * N + Cells + id(n) < N + id(r) + 1)
       /\ \A j \in Pe : ~(N + Cells + j < N + id(r) + 1) /\ j < N + id(r)
  BY <1>1
<1>4. \A i \in Pe :
       /\ N <= N + Cells + i /\ ~(N + Cells + i + 1 <= N)
       /\ \A n \in Node : ~(2 * N + Cells + id(n) < N + Cells + i + 1)
       /\ \A j \in Pe : /\ N + Cells + j < N + Cells + i + 1
                             => j = i \/ N + Cells + j < N + Cells + i
                        /\ j < N + Cells + i
  BY <1>1
<1>5. \A r \in Node :
       /\ N <= 2 * N + Cells + id(r) /\ ~(2 * N + Cells + id(r) + 1 <= N)
       /\ \A j \in Pe : N + Cells + j < 2 * N + Cells + id(r) /\ j < 2 * N + Cells + id(r)
  BY <1>1
<1>6. \A r, n \in Node :
        2 * N + Cells + id(n) < 2 * N + Cells + id(r) + 1
          => n = r \/ 2 * N + Cells + id(n) < 2 * N + Cells + id(r)
  <2> SUFFICES ASSUME NEW r \in Node, NEW n \in Node,
                      2 * N + Cells + id(n) < 2 * N + Cells + id(r) + 1, n # r
               PROVE  2 * N + Cells + id(n) < 2 * N + Cells + id(r)
    OBVIOUS
  <2>1. id(n) # id(r)
    BY <1>1
  <2>2. id(n) \in Nat /\ id(r) \in Nat
    BY <1>1
  <2>3. QED
    BY <1>1, <2>1, <2>2
<1>7. /\ \A n \in Node : 2 * N + Cells + id(n) < len
      /\ \A j \in Pe : N + Cells + j < len /\ j < len
      /\ N <= len
  BY <1>1
<1>8. QED
  BY <1>2, <1>3, <1>4, <1>5, <1>6, <1>7 DEF id, len, N

LEMMA SweptStep ==
  ASSUME Basics, Swept, Next
  PROVE  Swept'
<1>1. RunnerTypeOK /\ RouterTypeOK
  BY DEF Basics, RunnerTypeOK
<1>2. UNCHANGED <<NumPe, Cells>> /\ Node' = Node /\ Pe' = Pe
      /\ \A n \in Node : to_id(n)' = to_id(n)
  BY DEF Cells, Node, Pe, to_id
<1>3. CASE \E i \in Pe : PeCompute(i)
  <2>1. PICK i \in Pe : PeCompute(i)
    BY <1>3
  <2>2. peCreditReturn' = peCreditReturn
    <3>1. PICK fs \in Seq(Flit) : DrainAndInject(to_coord(i), fs)
      BY <1>1, <2>1, PeStepInjects DEF PeCompute
    <3>2. QED
      BY <3>1 DEF DrainAndInject
  <2>3. ran = i /\ ran' = i + 1 /\ i <= NumPe
    <3>1. i \in Nat /\ NumPe \in Nat /\ i + 1 <= NumPe
      BY Ids, Sweeps
    <3>2. QED
      BY <2>1, <3>1, Places
  <2>4. QED
    BY <1>2, <2>2, <2>3, Sweeps DEF Swept
<1>4. CASE \E r \in Node : RouterCompute(r)
  <2>1. PICK r \in Node : RouterCompute(r)
    BY <1>4
  <2>2. ran' = NumPe + to_id(r) + 1
    BY <2>1, Places
  <2>3. QED
    BY <1>2, <2>2, Sweeps DEF Swept
<1>5. CASE \E i \in Pe : PeCommit(i)
  <2>1. PICK i \in Pe : PeCommit(i)
    BY <1>5
  <2>2. ran = NumPe + Cells + i /\ ran' = NumPe + Cells + i + 1
    BY <2>1, Places
  <2>3. ejectNxt' = [ejectNxt EXCEPT ![to_coord(i)] = << >>] /\ to_coord(i) \in Node
    BY <2>1, Ids DEF PeCommit, CommitEject
  <2>4. \A j \in Pe : NumPe + Cells + j < ran' => ejectNxt'[to_coord(j)] = << >>
    <3> SUFFICES ASSUME NEW j \in Pe, NumPe + Cells + j < ran'
                 PROVE  ejectNxt'[to_coord(j)] = << >>
      OBVIOUS
    <3>1. j = i \/ NumPe + Cells + j < ran
      BY <2>2, Sweeps
    <3>2. j = i \/ ejectNxt[to_coord(j)] = << >>
      BY <3>1 DEF Swept
    <3>3. to_coord(j) \in Node
      BY Ids
    <3>4. QED
      BY <1>1, <2>3, <3>2, <3>3 DEF RouterTypeOK
  <2>5. QED
    BY <1>2, <2>2, <2>4, Sweeps DEF Swept, to_coord
<1>6. CASE \E r \in Node : RouterCommit(r)
  <2>1. PICK r \in Node : RouterCommit(r)
    BY <1>6
  <2>2. ran = 2 * NumPe + Cells + to_id(r) /\ ran' = 2 * NumPe + Cells + to_id(r) + 1
    BY <2>1, Places
  <2>3. /\ nxt' = [nxt EXCEPT ![r] = [p \in Dir |-> << >>]]
        /\ peCreditReturn' = [peCreditReturn EXCEPT ![r] = 0]
        /\ ejectNxt' = ejectNxt
    BY <2>1 DEF RouterCommit, Commit
  <2>4. ASSUME NEW n \in Node, 2 * NumPe + Cells + to_id(n) < ran'
        PROVE  peCreditReturn'[n] = 0 /\ \A p \in Dir : nxt'[n][p] = << >>
    <3>1. n = r \/ 2 * NumPe + Cells + to_id(n) < ran
      BY <2>2, <2>4, Sweeps
    <3>2. n # r => peCreditReturn[n] = 0 /\ \A p \in Dir : nxt[n][p] = << >>
      BY <3>1 DEF Swept
    <3>3. QED
      BY <1>1, <2>3, <3>2 DEF RouterTypeOK
  <2>5. \A j \in Pe : ejectNxt'[to_coord(j)] = << >>
    BY <2>2, <2>3, Sweeps DEF Swept
  <2>6. QED
    BY <1>2, <2>2, <2>4, <2>5, Sweeps DEF Swept, to_coord
<1>7. CASE NextCycle
  <2>1. ran = CycleLength /\ ran' = 0 /\ UNCHANGED <<peCreditReturn>>
    BY <1>7 DEF NextCycle, InCycles, routerVars
  <2>2. \A n \in Node : peCreditReturn[n] = 0
    BY <2>1, Sweeps DEF Swept
  <2>3. /\ \A n \in Node : ~(2 * NumPe + Cells + to_id(n) < 0)
        /\ \A j \in Pe : ~(NumPe + Cells + j < 0)
    BY Ids
  <2>4. QED
    BY <1>2, <2>1, <2>2, <2>3 DEF Swept
<1>8. CASE UNCHANGED <<routerVars, ran>>
  BY <1>2, <1>8 DEF Swept, routerVars, to_coord
<1>9. CASE Begin
  BY <1>8, <1>9, BeginParts
<1>10. CASE GiveUp \/ BeginDrain \/ EndTimestep \/ reset_counts \/ Finish
  BY <1>8, <1>10 DEF GiveUp, BeginDrain, EndTimestep, reset_counts, Finish
<1>11. QED
  BY <1>3, <1>4, <1>5, <1>6, <1>7, <1>9, <1>10 DEF Next

-----------------------------------------------------------------------------
(* A sync flit that is held back has a flit before it. *)

LEMMA NotEmptied ==
  ASSUME NEW S, NEW s \in Seq(S), NEW t \in Seq(S), s # << >> \/ t # << >>
  PROVE  s \o t # << >>
<1>1. Len(s \o t) = Len(s) + Len(t) /\ Len(s) \in Nat /\ Len(t) \in Nat
  BY ConcatProperties, LenProperties
<1>2. Len(s) # 0 \/ Len(t) # 0
  BY EmptySeq
<1>3. Len(s \o t) # 0
  BY <1>1, <1>2
<1>4. QED
  BY <1>3, EmptySeq

(* What a router pops goes on. *)
LEMMA ComputeLoaded ==
  ASSUME Basics, Loaded, NEW r \in Node, RouterCompute(r)
  PROVE  Loaded'
<1>1. /\ Compute(r) /\ RouterTypeOK /\ NumPe <= ran'
  <2>1. ran' = NumPe + to_id(r) + 1 /\ NumPe \in Nat /\ to_id(r) \in Nat
    BY Places, Ids
  <2>2. QED
    BY <2>1 DEF Basics, RunnerTypeOK, RouterCompute
<1>2. /\ \A n \in Node, p \in Dir : cur'[n][p] =
           IF n = r /\ p \in Popped(r) THEN Tail(cur[r][p]) ELSE cur[n][p]
      /\ \A n \in Node, p \in Dir : nxt'[n][p] =
           IF Faces(n, p, r) /\ opposite(p) \in Granted(r)
           THEN Append(nxt[n][p], Sent(r, opposite(p))) ELSE nxt[n][p]
      /\ \A n \in Node : ejectNxt'[n] =
           IF n = r /\ Local \in Granted(r) THEN Append(ejectNxt[n], Sent(r, Local))
           ELSE ejectNxt[n]
      /\ eject' = eject
  BY <1>1 DEF Compute, RouterTypeOK
<1>3. \A q, e : q \in Seq(Flit) => Append(q, e) # << >>
  BY AppendProperties
<1>4. CASE \E n \in Node, p \in Dir : cur[n][p] # << >>
  <2>1. PICK n \in Node, p \in Dir : cur[n][p] # << >>
    BY <1>4
  <2>2. CASE n = r /\ p \in Popped(r)
    <3>1. PICK o \in Granted(r) : p = Winner(r, o)
      BY <2>2 DEF Popped
    <3>2. CASE o = Local
      <4>1. ejectNxt'[r] = Append(ejectNxt[r], Sent(r, Local)) /\ ejectNxt[r] \in Seq(Flit)
        BY <1>1, <1>2, <3>1, <3>2 DEF RouterTypeOK
      <4>2. QED
        BY <1>3, <4>1 DEF Loaded
    <3>3. CASE o # Local
      <4> DEFINE m == step(r, o)
                 d == opposite(o)
      <4>1. o \in Cardinal /\ has_neighbor(r, o)
        <5>1. has_neighbor(r, o)
          BY <1>1, <3>1, <3>3, SentIsFlit
        <5>2. QED
          BY <5>1 DEF has_neighbor, Cardinal, East, West, North, South
      <4>2. /\ m \in Node /\ d \in Cardinal /\ opposite(d) = o
            /\ has_neighbor(m, d) /\ step(m, d) = r
        BY <4>1, StepBack
      <4>3. Faces(m, d, r) /\ opposite(d) \in Granted(r) /\ d \in Dir
        BY <3>1, <4>2 DEF Faces, Cardinal, Dir, Local, East, South
      <4> HIDE DEF m, d
      <4>4. nxt'[m][d] = Append(nxt[m][d], Sent(r, opposite(d)))
        BY <1>2, <4>2, <4>3
      <4>5. nxt[m][d] \in Seq(Flit)
        BY <1>1, <4>2, <4>3 DEF RouterTypeOK
      <4>6. nxt'[m][d] # << >>
        BY <1>3, <4>4, <4>5
      <4>7. QED
        BY <4>2, <4>3, <4>6 DEF Loaded
    <3>4. QED
      BY <3>2, <3>3
  <2>3. CASE ~(n = r /\ p \in Popped(r))
    <3>1. cur'[n][p] # << >>
      BY <1>2, <2>1, <2>3
    <3>2. QED
      BY <3>1 DEF Loaded
  <2>4. QED
    BY <2>2, <2>3
<1>5. CASE \E n \in Node, p \in Dir : nxt[n][p] # << >>
  <2>1. PICK n \in Node, p \in Dir : nxt[n][p] # << >>
    BY <1>5
  <2>2. nxt[n][p] \in Seq(Flit)
    BY <1>1 DEF RouterTypeOK
  <2>3. nxt'[n][p] # << >>
    <3> DEFINE e == Sent(r, opposite(p))
    <3>1. nxt'[n][p] = Append(nxt[n][p], e) \/ nxt'[n][p] = nxt[n][p]
      BY <1>2
    <3> HIDE DEF e
    <3>2. Append(nxt[n][p], e) # << >>
      BY <1>3, <2>2
    <3>3. QED
      BY <2>1, <3>1, <3>2
  <2>4. QED
    BY <2>3 DEF Loaded
<1>6. CASE \E n \in Node : ejectNxt[n] # << >>
  <2>1. PICK n \in Node : ejectNxt[n] # << >>
    BY <1>6
  <2>2. ejectNxt[n] \in Seq(Flit)
    BY <1>1 DEF RouterTypeOK
  <2>3. ejectNxt'[n] # << >>
    BY <1>2, <1>3, <2>1, <2>2
  <2>4. QED
    BY <2>3 DEF Loaded
<1>7. CASE \E n \in Node : eject[n] # << >>
  BY <1>1, <1>2, <1>7 DEF Loaded
<1>8. QED
  BY <1>4, <1>5, <1>6, <1>7 DEF Loaded

LEMMA CommitLoaded ==
  ASSUME Basics, Loaded, NEW r \in Node, RouterCommit(r)
  PROVE  Loaded'
<1>1. /\ Commit(r) /\ RouterTypeOK /\ NumPe <= ran'
  <2>1. ran' = 2 * NumPe + Cells + to_id(r) + 1
        /\ NumPe \in Nat /\ Cells \in Nat /\ to_id(r) \in Nat
    BY Places, Ids
  <2>2. QED
    BY <2>1 DEF Basics, RunnerTypeOK, RouterCommit
<1>2. /\ \A n \in Node, p \in Dir :
           /\ n = r => cur'[n][p] = cur[n][p] \o nxt[n][p]
           /\ n # r => cur'[n][p] = cur[n][p] /\ nxt'[n][p] = nxt[n][p]
           /\ cur[n][p] \in Seq(Flit) /\ nxt[n][p] \in Seq(Flit)
      /\ ejectNxt' = ejectNxt /\ eject' = eject
  BY <1>1 DEF Commit, Merge, RouterTypeOK
<1>3. ASSUME NEW n \in Node, NEW p \in Dir, cur[n][p] # << >> \/ nxt[n][p] # << >>
      PROVE  cur'[n][p] # << >> \/ nxt'[n][p] # << >>
  <2>1. cur[n][p] \in Seq(Flit) /\ nxt[n][p] \in Seq(Flit)
    BY <1>2
  <2>2. CASE n = r
    <3>1. cur'[n][p] = cur[n][p] \o nxt[n][p]
      BY <1>2, <2>2
    <3>2. QED
      BY <1>3, <2>1, <3>1, NotEmptied
  <2>3. CASE n # r
    BY <1>2, <1>3, <2>3
  <2>4. QED
    BY <2>2, <2>3
<1>4. QED
  BY <1>1, <1>2, <1>3 DEF Loaded

LEMMA CommitEjectLoaded ==
  ASSUME Basics, Loaded, NEW i \in Pe, PeCommit(i)
  PROVE  Loaded'
<1> DEFINE r == to_coord(i)
<1>1. /\ CommitEject(r) /\ RouterTypeOK /\ NumPe <= ran' /\ r \in Node
  <2>1. ran' = NumPe + Cells + i + 1 /\ NumPe \in Nat /\ Cells \in Nat /\ i \in Nat
        /\ to_coord(i) \in Node
    BY Places, Ids
  <2>2. NumPe <= ran'
    BY <2>1
  <2>3. QED
    BY <2>1, <2>2 DEF Basics, RunnerTypeOK, PeCommit
<1> HIDE DEF r
<1>2. /\ \A n \in Node :
           /\ n = r => eject'[n] = eject[n] \o ejectNxt[n]
           /\ n # r => eject'[n] = eject[n] /\ ejectNxt'[n] = ejectNxt[n]
           /\ eject[n] \in Seq(Flit) /\ ejectNxt[n] \in Seq(Flit)
      /\ cur' = cur /\ nxt' = nxt
  BY <1>1 DEF CommitEject, Merge, RouterTypeOK
<1>3. ASSUME NEW n \in Node, eject[n] # << >> \/ ejectNxt[n] # << >>
      PROVE  eject'[n] # << >> \/ ejectNxt'[n] # << >>
  <2>1. CASE n = r
    BY <1>2, <1>3, <2>1, NotEmptied
  <2>2. CASE n # r
    BY <1>2, <1>3, <2>2
  <2>3. QED
    BY <2>1, <2>2
<1>4. QED
  BY <1>1, <1>2, <1>3 DEF Loaded

(* A PE holds a sync flit back only when its router's Local input is full. *)
LEMMA PeComputeHeldBack ==
  ASSUME Basics, Swept, HeldBack, NEW i \in Pe, PeCompute(i)
  PROVE  HeldBack'
<1> DEFINE sync == Syncing(i)
           spikes == pending_spikes[i]
           r == to_coord(i)
<1>1. RunnerTypeOK /\ RouterTypeOK /\ PeStep(i) /\ Basics' /\ r \in Node
  BY PeComputeBasics, Ids DEF Basics, RunnerTypeOK, PeCompute
<1>2. PICK s \in 0 .. Len(sync), k \in 0 .. Len(spikes) :
        /\ DrainAndInject(r, SubSeq(sync, 1, s) \o SubSeq(spikes, 1, k))
        /\ pending_sync' = [pending_sync EXCEPT ![i] = SubSeq(sync, s + 1, Len(sync))]
        /\ s < Len(sync) => s = injectCredit[r]
  BY <1>1, PeStepParts
<1>3. ran = i /\ ran' = i + 1 /\ i \in Nat /\ NumPe \in Nat /\ i + 1 <= NumPe
  BY Places, Ids, Sweeps
<1>4. sync \in Seq(Flit) /\ spikes \in Seq(Flit)
  BY <1>1, SyncingType DEF RunnerTypeOK
<1> DEFINE fs == SubSeq(sync, 1, s) \o SubSeq(spikes, 1, k)
<1> HIDE DEF sync, spikes, r
<1>5. /\ SubSeq(sync, s + 1, Len(sync)) \in Seq(Flit)
      /\ Len(SubSeq(sync, s + 1, Len(sync))) = Len(sync) - s
      /\ fs \in Seq(Flit) /\ Len(fs) = s + k
  <2>1. /\ SubSeq(sync, 1, s) \in Seq(Flit) /\ Len(SubSeq(sync, 1, s)) = s
        /\ SubSeq(spikes, 1, k) \in Seq(Flit) /\ Len(SubSeq(spikes, 1, k)) = k
        /\ SubSeq(sync, s + 1, Len(sync)) \in Seq(Flit)
        /\ Len(SubSeq(sync, s + 1, Len(sync))) = Len(sync) - s
    BY <1>4, PartsOver
  <2>2. QED
    BY <2>1, ConcatProperties
<1> HIDE DEF fs
<1>6. DrainAndInject(r, fs)
  BY <1>2 DEF fs
<1>7. ASSUME Loaded PROVE Loaded'
  <2>1. cur' = cur /\ ejectNxt' = ejectNxt /\ ~(NumPe <= ran)
    BY <1>3, <1>6 DEF DrainAndInject
  <2>2. ASSUME NEW n \in Node, NEW p \in Dir, nxt[n][p] # << >>
        PROVE  nxt'[n][p] # << >>
    <3>1. nxt'[n][p] = IF n = r /\ p = Local THEN nxt[n][p] \o fs ELSE nxt[n][p]
      BY <1>1, <1>6 DEF DrainAndInject, RouterTypeOK
    <3>2. nxt[n][p] \in Seq(Flit)
      BY <1>1 DEF RouterTypeOK
    <3>3. nxt[n][p] \o fs # << >>
      BY <1>5, <2>2, <3>2, NotEmptied
    <3>4. QED
      BY <2>2, <3>1, <3>3
  <2>3. QED
    BY <1>7, <2>1, <2>2 DEF Loaded
<1>8. ASSUME pending_sync'[i] # << >> PROVE Loaded'
  <2>1. pending_sync'[i] = SubSeq(sync, s + 1, Len(sync))
    BY <1>1, <1>2 DEF RunnerTypeOK
  <2>2. s < Len(sync)
    <3>1. Len(sync) - s # 0
      BY <1>5, <1>8, <2>1, EmptySeq
    <3>2. Len(sync) \in Nat
      BY <1>4, LenProperties
    <3>3. QED
      BY <3>1, <3>2
  <2>3. injectCredit'[r] = 0
    <3>1. /\ injectCredit'[r] = injectCredit[r] - Len(fs) /\ Len(fs) <= injectCredit[r]
          /\ injectCredit[r] \in Nat
      BY <1>1, <1>6 DEF DrainAndInject, RouterTypeOK
    <3>2. s = injectCredit[r] /\ s + k <= injectCredit[r] /\ k \in Nat
      BY <1>2, <1>5, <2>2, <3>1
    <3>3. QED
      BY <1>5, <3>1, <3>2
  <2>4. peCreditReturn'[r] = 0
    BY <1>1, <1>3, <1>6 DEF DrainAndInject, Swept
  <2>5. /\ injectCredit'[r] + peCreditReturn'[r]
             + Len(cur'[r][Local]) + Len(nxt'[r][Local]) = CreditInit
        /\ cur'[r][Local] \in Seq(Flit) /\ nxt'[r][Local] \in Seq(Flit)
    <3>1. InjectCreditsConserved' /\ RouterTypeOK'
      BY <1>1 DEF Basics, CreditInv, RunnerTypeOK
    <3>2. Local \in Dir
      BY DEF Local, Dir, South
    <3>3. QED
      BY <1>1, <3>1, <3>2 DEF InjectCreditsConserved, RouterTypeOK, Node
  <2>6. CreditInit \in Nat /\ CreditInit >= 1
    BY CreditAssumption
  <2>7. ~(cur'[r][Local] = << >> /\ nxt'[r][Local] = << >>)
    <3> SUFFICES ASSUME cur'[r][Local] = << >>, nxt'[r][Local] = << >> PROVE FALSE
      OBVIOUS
    <3>1. Len(cur'[r][Local]) = 0 /\ Len(nxt'[r][Local]) = 0
      OBVIOUS
    <3>2. QED
      BY <2>3, <2>4, <2>5, <2>6, <3>1
  <2>8. Local \in Dir
    BY DEF Local, Dir, South
  <2>9. QED
    BY <1>1, <2>7, <2>8 DEF Loaded
<1>9. ASSUME NEW j \in Pe, j < ran', pending_sync'[j] # << >> PROVE Loaded'
  <2>1. CASE j = i
    BY <1>8, <1>9, <2>1
  <2>2. CASE j # i
    <3>1. pending_sync'[j] = pending_sync[j]
      BY <1>1, <1>2, <2>2 DEF RunnerTypeOK
    <3>2. j < ran
      BY <1>3, <1>9, <2>2, Ids
    <3>3. QED
      BY <1>7, <1>9, <3>1, <3>2 DEF HeldBack
  <2>3. QED
    BY <2>1, <2>2
<1>10. QED
  BY <1>9 DEF HeldBack, Pe

LEMMA HeldBackStep ==
  ASSUME Basics, Swept, HeldBack, Next
  PROVE  HeldBack'
<1>1. CASE \E i \in Pe : PeCompute(i)
  BY <1>1, PeComputeHeldBack
<1>2. ASSUME UNCHANGED pending_sync, \A j \in Pe : j < ran, Loaded => Loaded'
      PROVE  HeldBack'
  BY <1>2 DEF HeldBack, Pe
<1>3. CASE \E r \in Node : RouterCompute(r)
  <2>1. PICK r \in Node : RouterCompute(r)
    BY <1>3
  <2>2. UNCHANGED pending_sync /\ \A j \in Pe : j < ran
    BY <2>1, Places, Sweeps DEF RouterCompute, networkPeVars
  <2>3. QED
    BY <1>2, <2>1, <2>2, ComputeLoaded
<1>4. CASE \E i \in Pe : PeCommit(i)
  <2>1. PICK i \in Pe : PeCommit(i)
    BY <1>4
  <2>2. UNCHANGED pending_sync /\ \A j \in Pe : j < ran
    BY <2>1, Places, Sweeps DEF PeCommit, networkPeVars
  <2>3. QED
    BY <1>2, <2>1, <2>2, CommitEjectLoaded
<1>5. CASE \E r \in Node : RouterCommit(r)
  <2>1. PICK r \in Node : RouterCommit(r)
    BY <1>5
  <2>2. UNCHANGED pending_sync /\ \A j \in Pe : j < ran
    BY <2>1, Places, Sweeps DEF RouterCommit, networkPeVars
  <2>3. QED
    BY <1>2, <2>1, <2>2, CommitLoaded
<1>6. CASE NextCycle
  <2>1. ran' = 0
    BY <1>6 DEF NextCycle
  <2>2. \A j \in Pe : ~(j < 0)
    BY Ids
  <2>3. QED
    BY <2>1, <2>2 DEF HeldBack, Pe
<1>7. ASSUME UNCHANGED <<routerVars, ran, pending_sync>> PROVE HeldBack'
  <2>1. Loaded <=> Loaded'
    BY <1>7 DEF Loaded, routerVars, Node
  <2>2. QED
    BY <1>7, <2>1 DEF HeldBack, Pe
<1>8. CASE Begin
  BY <1>7, <1>8, BeginParts
<1>9. CASE GiveUp \/ BeginDrain \/ EndTimestep \/ reset_counts \/ Finish
  <2>1. Still /\ ran' = ran
    BY <1>9, StillSteps DEF GiveUp, BeginDrain, EndTimestep, reset_counts, Finish
  <2>2. QED
    BY <1>7, <2>1 DEF Still
<1>10. QED
  BY <1>1, <1>3, <1>4, <1>5, <1>6, <1>8, <1>9 DEF Next

-----------------------------------------------------------------------------
(* The end of a timestep. *)

LEMMA EndIsSilent ==
  ASSUME Basics, EjectHome, Swept, HeldBack, EndTimestep
  PROVE  SilentBetween'
<1>1. /\ RunnerTypeOK /\ RouterTypeOK /\ SentAll /\ InjectCreditsConserved
      /\ ran = CycleLength /\ InTimestep /\ LoopOver /\ NoneInFlight /\ Still
  BY StillSteps DEF Basics, RunnerTypeOK, CreditInv, EndTimestep, InCycles, InTimestep
<1>2. all_advancing
  BY <1>1 DEF LoopOver, SentAll, InTimestep
<1>3. \A i \in Pe : pending_spikes[i] = << >>
  BY <1>1, <1>2 DEF all_advancing, ready_to_advance, SentAll, local_done
<1>4. ASSUME NEW n \in Node
      PROVE  /\ eject[n] = << >> /\ ejectNxt[n] = << >> /\ peCreditReturn[n] = 0
             /\ \A p \in Dir : cur[n][p] = << >> /\ nxt[n][p] = << >>
  <2>1. peCreditReturn[n] = 0 /\ \A p \in Dir : nxt[n][p] = << >>
    BY <1>1, Sweeps DEF Swept
  <2>2. \A p \in Dir : cur[n][p] = << >>
    BY <1>1 DEF NoneInFlight
  <2>3. eject[n] = << >> /\ ejectNxt[n] = << >>
    <3>1. CASE to_id(n) \in Pe
      <4>1. to_coord(to_id(n)) = n
        BY Ids
      <4>2. NumPe + Cells + to_id(n) < ran
        BY <1>1, <3>1, Sweeps
      <4>3. ejectNxt[n] = << >>
        BY <3>1, <4>1, <4>2 DEF Swept
      <4>4. eject[n] = << >>
        BY <1>1, <3>1, <4>1 DEF NoneInFlight
      <4>5. QED
        BY <4>3, <4>4
    <3>2. CASE to_id(n) \notin Pe
      BY <3>2 DEF EjectHome
    <3>3. QED
      BY <3>1, <3>2
  <2>4. QED
    BY <2>1, <2>2, <2>3
<1>5. \A i \in Pe : pending_sync[i] = << >>
  <2>1. ~Loaded
    BY <1>4 DEF Loaded
  <2>2. \A i \in Pe : i < ran
    BY <1>1, Sweeps
  <2>3. QED
    BY <2>1, <2>2 DEF HeldBack
<1>6. \A n \in Node : injectCredit[n] + peCreditReturn[n] = CreditInit
  <2> SUFFICES ASSUME NEW n \in Node PROVE injectCredit[n] + peCreditReturn[n] = CreditInit
    OBVIOUS
  <2>1. Local \in Dir
    BY DEF Local, Dir, South
  <2>2. Len(cur[n][Local]) = 0 /\ Len(nxt[n][Local]) = 0
    BY <1>4, <2>1
  <2>3. injectCredit[n] \in Nat /\ peCreditReturn[n] \in Nat
    BY <1>1 DEF RouterTypeOK
  <2>4. injectCredit[n] + peCreditReturn[n]
          + Len(cur[n][Local]) + Len(nxt[n][Local]) = CreditInit
    BY <1>1 DEF InjectCreditsConserved
  <2>5. QED
    BY <2>2, <2>3, <2>4
<1>7. QED
  BY <1>1, <1>3, <1>4, <1>5, <1>6 DEF SilentBetween, Still, routerVars, Node, Pe

LEMMA SilentStep ==
  ASSUME Basics, EjectHome, Swept, HeldBack, SilentBetween, Next
  PROVE  SilentBetween'
<1>1. CASE EndTimestep
  BY <1>1, EndIsSilent
<1>2. CASE reset_counts \/ Finish
  <2>1. Still /\ phase = "between" /\ deadlock' = deadlock
    BY <1>2, StillSteps DEF reset_counts, Finish
  <2>2. QED
    BY <2>1 DEF SilentBetween, Still, routerVars, Node, Pe
<1>3. CASE GiveUp
  BY <1>3 DEF GiveUp, SilentBetween
<1>4. ASSUME InTimestep' PROVE SilentBetween'
  BY <1>4 DEF InTimestep, SilentBetween
<1>5. CASE Begin
  BY <1>4, <1>5, BeginParts DEF InTimestep
<1>6. CASE NextCycle \/ BeginDrain
  BY <1>4, <1>6 DEF NextCycle, BeginDrain, InCycles, InTimestep
<1>7. CASE \/ \E i \in Pe : PeCompute(i) \/ PeCommit(i)
           \/ \E r \in Node : RouterCompute(r) \/ RouterCommit(r)
  <2>1. Cycling
    BY <1>7, CycleSteps DEF Basics
  <2>2. QED
    BY <1>4, <2>1 DEF Cycling, InTimestep
<1>8. QED
  BY <1>1, <1>2, <1>3, <1>5, <1>6, <1>7 DEF Next

-----------------------------------------------------------------------------
(* The invariant of the runner. *)

LEMMA InitRunner == Init => RunnerInv
<1> SUFFICES ASSUME Init PROVE RunnerInv
  OBVIOUS
<1>1. Basics /\ Stamped
  BY InitBasics, InitStamped
<1>2. EjectHome /\ HeldBack /\ SilentBetween
  BY InitEmpty DEF EjectHome, HeldBack, SilentBetween
<1>3. Swept
  BY InitEmpty, Ids DEF Swept
<1>4. QED
  BY <1>1, <1>2, <1>3 DEF Basics, RunnerInv

LEMMA UnchangedRunner ==
  ASSUME RunnerInv, UNCHANGED runnerVars
  PROVE  RunnerInv'
<1>1. Still /\ UNCHANGED <<ran, phase, abs_t, measuring, deadlock, elapsed>>
  BY DEF runnerVars, runVars, Still, networkPeVars, neuronVars
<1>2. /\ RunnerTypeOK /\ Clocks /\ SentAll /\ Stamped
      /\ CreditInv /\ EjectHome /\ Swept /\ HeldBack /\ SilentBetween
  BY DEF RunnerInv
<1>3. Now' = Now /\ CycleLength' = CycleLength
  BY <1>1 DEF Now, InTimestep, CycleLength
<1>4. RunnerTypeOK' /\ CreditInv'
  BY <1>1, <1>2, <1>3, StillMesh DEF RunnerTypeOK, InTimestep
<1>5. Clocks'
  BY <1>1, <1>2, <1>3 DEF Clocks, Still, syncVars, Timestep
<1>6. SentAll'
  BY <1>1, <1>2, StillMesh DEF SentAll
<1>7. Stamped'
  BY <1>1, <1>2, <1>3, StillStamped
<1>8. EjectHome' /\ SilentBetween'
  BY <1>1, <1>2 DEF EjectHome, SilentBetween, Still, routerVars, Node, Pe, to_id
<1>9. Swept'
  BY <1>1, <1>2 DEF Swept, Still, routerVars, Node, Pe, to_id, to_coord, Cells
<1>10. HeldBack'
  <2>1. Loaded <=> Loaded'
    BY <1>1 DEF Loaded, Still, routerVars, Node
  <2>2. QED
    BY <1>1, <1>2, <2>1 DEF HeldBack, Still, Pe
<1>11. QED
  BY <1>4, <1>5, <1>6, <1>7, <1>8, <1>9, <1>10 DEF RunnerInv

LEMMA StepRunner == RunnerInv /\ [Next]_runnerVars => RunnerInv'
<1> SUFFICES ASSUME RunnerInv, Next PROVE RunnerInv'
  BY UnchangedRunner
<1>1. Basics /\ Stamped /\ EjectHome /\ Swept /\ HeldBack /\ SilentBetween
  BY DEF RunnerInv, Basics
<1>2. EjectHome' /\ Swept' /\ HeldBack' /\ SilentBetween'
  BY <1>1, EjectHomeStep, SweptStep, HeldBackStep, SilentStep
<1>3. Basics' /\ Stamped'
  <2>1. CASE \/ \E i \in Pe : PeCompute(i) \/ PeCommit(i)
             \/ \E r \in Node : RouterCompute(r) \/ RouterCommit(r)
    <3>1. Basics'
      BY <1>1, <2>1, PeComputeBasics, PeCommitBasics, RouterComputeBasics, RouterCommitBasics
    <3>2. QED
      BY <1>1, <2>1, <3>1, CycleStamped
  <2>2. CASE GiveUp \/ EndTimestep
    BY <1>1, <2>2, EndBasics, StillSteps, StillStamped
  <2>3. CASE NextCycle \/ BeginDrain
    BY <1>1, <2>3, InsideBasics, StillSteps, StillStamped
  <2>4. CASE reset_counts \/ Finish
    BY <1>1, <2>4, OutsideBasics, StillSteps, StillStamped
  <2>5. CASE Begin
    BY <1>1, <2>5, BeginBasics, BeginStamped
  <2>6. QED
    BY <2>1, <2>2, <2>3, <2>4, <2>5 DEF Next
<1>4. QED
  BY <1>2, <1>3 DEF RunnerInv, Basics

LEMMA RunnerHolds == Spec => []RunnerInv
BY InitRunner, StepRunner, PTL DEF Spec

(* Between two timesteps of a network run nothing is left anywhere, though
   the drain asks only for empty visible halves (network_runner.cpp:94-124):
   a cycle leaves nothing staged, a released PE has sent all its spikes, and a
   sync flit that a PE holds back has a flit of its own router before it. *)
THEOREM NothingBetween == Spec => []SilentBetween
<1>1. RunnerInv => SilentBetween
  BY DEF RunnerInv
<1>2. QED
  BY <1>1, RunnerHolds, PTL

LEMMA StampedIsOfNow ==
  ASSUME RunnerInv
  PROVE  SpikesOfThisTimestep
<1>1. RunnerTypeOK /\ Clocks /\ Stamped
  BY DEF RunnerInv
<1>2. Now \in Timestep /\ \A i \in Pe : cur_t[i] = Now
  BY <1>1 DEF Clocks
<1>3. QueuesOver(FlitsOf(Now))
  BY <1>1, <1>2 DEF Stamped
<1> SUFFICES ASSUME NEW l \in Line, NEW k \in DOMAIN Queue(l), ~is_sync(Queue(l)[k])
             PROVE  Queue(l)[k].timestep = cur_t[to_id(Queue(l)[k].dst)]
  BY DEF SpikesOfThisTimestep
<1> DEFINE q == Queue(l)
<1>4. q \in Seq(FlitsOf(Now))
  <2>1. \/ l[1] \in {"spikes", "sync"} /\ l[2] \in Pe
        \/ l[1] \in {"eject", "ejectNxt"} /\ l[2] \in Node
        \/ l[1] \in {"cur", "nxt"} /\ l[2] \in Node /\ l[3] \in Dir
    BY DEF Line
  <2>2. QED
    BY <1>3, <2>1 DEF Queue, QueuesOver, MeshOver
<1> HIDE DEF q
<1>5. q[k] \in FlitsOf(Now)
  BY <1>4 DEF q
<1>6. q[k] \in Flit /\ q[k].timestep = Now
  BY <1>5 DEF FlitsOf, q
<1>7. to_id(q[k].dst) \in Pe
  BY <1>6, WireAssumption, Ids
<1>8. QED
  BY <1>2, <1>6, <1>7 DEF q

(* Whatever is on its way belongs to the timestep its receiver is in: the
   receiver, which counts the delay from its own timestep
   (network_pe.cpp:46), accumulates it for the timestep its sender
   meant. *)
THEOREM SpikesInTheirTimestep == Spec => []SpikesOfThisTimestep
BY StampedIsOfNow, RunnerHolds, PTL

-----------------------------------------------------------------------------
(* What spikes bring, as sums. *)

(* What a spike brings to a neuron, the spikes without a window, and the
   windows of the others. *)
Brings(image, i, skipped, s, meta, n) ==
  IF n \in skipped THEN 0
  ELSE contribution(image, i, s.dendrite_id, s.go1, s.go2, meta, n)
Plain(spikes) == {s \in spikes : ~is_max(s[2].meta)}
Opened(spikes) == {Window(s[2]) : s \in spikes \ Plain(spikes)}

LEMMA FoldIsTotal ==
  ASSUME NEW S, NEW w, DOMAIN w = S
  PROVE  Sets!MapThenSumSet(LAMBDA x : w[x], S) = Total(w)
<1> DEFINE Q(r) == r = [s \in SUBSET S |-> IF s = {} THEN 0
                          ELSE LET x == CHOOSE x \in s : TRUE IN w[x] + r[s \ {x}]]
<1>1. Sets!MapThenSumSet(LAMBDA x : w[x], S) = (CHOOSE r : Q(r))[S]
  BY DEF Sets!MapThenSumSet, Sets!MapThenFoldSet
<1>2. \A r : Q(r) <=> IsSums(w, r)
  BY DEF IsSums, Pick
<1> HIDE DEF Q
<1>3. (CHOOSE r : Q(r)) = (CHOOSE r : IsSums(w, r))
  BY <1>2
<1>4. QED
  BY <1>1, <1>3 DEF Total, Sums

LEMMA ReceivedIs ==
  ASSUME NEW image, NEW i, NEW skipped, NEW before, NEW spikes
  PROVE  received(image, i, skipped, before, spikes) =
           [current |-> [n \in neurons(image, i) |->
              before.current[n]
                + Total([s \in Plain(spikes) |-> Brings(image, i, skipped, s[2], s[2].meta, n)])
                + Total([x \in Opened(spikes) \ before.windows |->
                           Brings(image, i, skipped, x, 1, n)])],
            windows |-> before.windows \cup Opened(spikes)]
<1> DEFINE brings(s, meta, n) == IF n \in skipped THEN 0
                 ELSE contribution(image, i, s.dendrite_id, s.go1, s.go2, meta, n)
           plain == {s \in spikes : ~is_max(s[2].meta)}
           opened == {Window(s[2]) : s \in spikes \ plain}
           A(n) == Sets!MapThenSumSet(LAMBDA s : brings(s[2], s[2].meta, n), plain)
           B(n) == Sets!MapThenSumSet(LAMBDA x : brings(x, 1, n), opened \ before.windows)
<1>1. received(image, i, skipped, before, spikes) =
        [current |-> [n \in neurons(image, i) |-> before.current[n] + A(n) + B(n)],
         windows |-> before.windows \cup opened]
  BY DEF received
<1>2. plain = Plain(spikes) /\ opened = Opened(spikes)
  BY DEF Plain, Opened
<1>3. \A n : A(n) = Total([s \in Plain(spikes) |-> Brings(image, i, skipped, s[2], s[2].meta, n)])
  <2> SUFFICES ASSUME NEW n
               PROVE A(n) = Total([s \in Plain(spikes) |-> Brings(image, i, skipped, s[2], s[2].meta, n)])
    OBVIOUS
  <2> DEFINE w == [s \in plain |-> brings(s[2], s[2].meta, n)]
             Q(r) == r = [s \in SUBSET plain |-> IF s = {} THEN 0
                          ELSE LET x == CHOOSE x \in s : TRUE IN brings(x[2], x[2].meta, n) + r[s \ {x}]]
  <2>1. A(n) = (CHOOSE r : Q(r))[plain]
    BY DEF Sets!MapThenSumSet, Sets!MapThenFoldSet
  <2>2. \A r : Q(r) <=> IsSums(w, r)
    <3> HIDE DEF brings, plain
    <3>1. QED
      BY DEF IsSums, Pick
  <2> HIDE DEF Q
  <2>3. (CHOOSE r : Q(r)) = (CHOOSE r : IsSums(w, r))
    BY <2>2
  <2>4. A(n) = Total(w)
    <3> HIDE DEF A
    <3>1. DOMAIN w = plain
      OBVIOUS
    <3> HIDE DEF w, plain
    <3>2. QED
      BY <2>1, <2>3, <3>1 DEF Total, Sums
  <2>5. w = [s \in Plain(spikes) |-> Brings(image, i, skipped, s[2], s[2].meta, n)]
    BY <1>2 DEF Brings
  <2>6. QED
    BY <2>4, <2>5
<1>4. \A n : B(n) = Total([x \in Opened(spikes) \ before.windows |->
                            Brings(image, i, skipped, x, 1, n)])
  <2> SUFFICES ASSUME NEW n
               PROVE B(n) = Total([x \in Opened(spikes) \ before.windows |->
                                     Brings(image, i, skipped, x, 1, n)])
    OBVIOUS
  <2> DEFINE new == opened \ before.windows
             w == [x \in new |-> brings(x, 1, n)]
             Q(r) == r = [s \in SUBSET new |-> IF s = {} THEN 0
                          ELSE LET x == CHOOSE x \in s : TRUE IN brings(x, 1, n) + r[s \ {x}]]
  <2>1. B(n) = (CHOOSE r : Q(r))[new]
    BY DEF Sets!MapThenSumSet, Sets!MapThenFoldSet
  <2>2. \A r : Q(r) <=> IsSums(w, r)
    <3> HIDE DEF brings, new
    <3>1. QED
      BY DEF IsSums, Pick
  <2> HIDE DEF Q
  <2>3. (CHOOSE r : Q(r)) = (CHOOSE r : IsSums(w, r))
    BY <2>2
  <2>4. B(n) = Total(w)
    <3> HIDE DEF B
    <3>1. DOMAIN w = new
      OBVIOUS
    <3> HIDE DEF w, new
    <3>2. QED
      BY <2>1, <2>3, <3>1 DEF Total, Sums
  <2>5. w = [x \in Opened(spikes) \ before.windows |-> Brings(image, i, skipped, x, 1, n)]
    BY <1>2 DEF Brings
  <2>6. QED
    BY <2>4, <2>5
<1> HIDE DEF A, B, opened
<1>5. QED
  BY <1>1, <1>2, <1>3, <1>4

LEMMA MaxBrings ==
  ASSUME NEW image, NEW i, NEW skipped, NEW s, NEW n, is_max(s.meta)
  PROVE  /\ Brings(image, i, skipped, s, s.meta, n) = Brings(image, i, skipped, s, 1, n)
         /\ Brings(image, i, skipped, Window(s), 1, n) = Brings(image, i, skipped, s, 1, n)
<1>1. combine(s.meta) = 1 /\ combine(1) = 1
  BY DEF is_max, combine
<1>2. combine(s.meta) # 2 /\ combine(1) # 2
  BY <1>1
<1>3. contribution(image, i, s.dendrite_id, s.go1, s.go2, s.meta, n)
        = contribution(image, i, s.dendrite_id, s.go1, s.go2, 1, n)
  BY <1>2 DEF contribution
<1>4. /\ Window(s).dendrite_id = s.dendrite_id
      /\ Window(s).go1 = s.go1 /\ Window(s).go2 = s.go2
  BY DEF Window
<1>5. QED
  BY <1>3, <1>4 DEF Brings

(* Spikes whose currents are integers, and slots of the ring. *)
SpikesBring(image, i, spikes) ==
  \A s \in spikes : \A n \in neurons(image, i) :
    contribution(image, i, s[2].dendrite_id, s[2].go1, s[2].go2, s[2].meta, n) \in Int
IsSlot(image, i, b) ==
  /\ b = [current |-> b.current, windows |-> b.windows]
  /\ b.current \in [neurons(image, i) -> Int]

LEMMA BringsInt ==
  ASSUME NEW image, NEW i, NEW skipped, NEW spikes, SpikesBring(image, i, spikes),
         NEW n \in neurons(image, i)
  PROVE  /\ \A s \in spikes : Brings(image, i, skipped, s[2], s[2].meta, n) \in Int
         /\ \A x \in Opened(spikes) : Brings(image, i, skipped, x, 1, n) \in Int
<1>1. ASSUME NEW s \in spikes PROVE Brings(image, i, skipped, s[2], s[2].meta, n) \in Int
  BY DEF SpikesBring, Brings
<1>2. ASSUME NEW x \in Opened(spikes) PROVE Brings(image, i, skipped, x, 1, n) \in Int
  <2>1. PICK s \in spikes : is_max(s[2].meta) /\ x = Window(s[2])
    BY DEF Opened, Plain
  <2>2. Brings(image, i, skipped, x, 1, n) = Brings(image, i, skipped, s[2], s[2].meta, n)
    BY <2>1, MaxBrings
  <2>3. QED
    BY <1>1, <2>2
<1>3. QED
  BY <1>1, <1>2

LEMMA OpenedFinite ==
  ASSUME NEW spikes, IsFiniteSet(spikes)
  PROVE  IsFiniteSet(Plain(spikes)) /\ IsFiniteSet(Opened(spikes))
<1> DEFINE M == spikes \ Plain(spikes)
           f == [s \in M |-> Window(s[2])]
<1>1. IsFiniteSet(Plain(spikes)) /\ IsFiniteSet(M)
  BY FS_Subset DEF Plain
<1>2. DOMAIN f = M /\ Opened(spikes) = {f[s] : s \in M}
  BY DEF Opened
<1> HIDE DEF M, f
<1>3. IsFiniteSet({f[s] : s \in M})
  BY <1>1, <1>2, ImageFinite
<1>4. QED
  BY <1>1, <1>2, <1>3

(* What the spikes of S make of a slot, the spikes of T make of it if each
   stands for one of S. *)
LEMMA ReceivedAlike ==
  ASSUME NEW image, NEW i, NEW skipped, NEW before,
         NEW S, IsFiniteSet(S), NEW T, SpikesBring(image, i, T), NEW b, PairsOff(b, S, T),
         \A s \in S : /\ s[2].dendrite_id = b[s][2].dendrite_id /\ s[2].meta = b[s][2].meta
                      /\ s[2].go1 = b[s][2].go1 /\ s[2].go2 = b[s][2].go2
  PROVE  received(image, i, skipped, before, S) = received(image, i, skipped, before, T)
<1>1. /\ b \in [S -> T] /\ \A x, y \in S : b[x] = b[y] => x = y
      /\ \A y \in T : \E x \in S : b[x] = y
  BY DEF PairsOff
<1>2. ASSUME NEW s \in S PROVE Window(s[2]) = Window(b[s][2])
  BY DEF Window
<1>3. \A s \in S : s \in Plain(S) <=> b[s] \in Plain(T)
  BY <1>1 DEF Plain
<1>4. Opened(S) = Opened(T)
  <2>1. ASSUME NEW x \in Opened(S) PROVE x \in Opened(T)
    <3>1. PICK s \in S \ Plain(S) : x = Window(s[2])
      BY DEF Opened
    <3>2. b[s] \in T \ Plain(T) /\ x = Window(b[s][2])
      BY <1>1, <1>2, <1>3, <3>1
    <3>3. QED
      BY <3>2 DEF Opened
  <2>2. ASSUME NEW x \in Opened(T) PROVE x \in Opened(S)
    <3>1. PICK y \in T \ Plain(T) : x = Window(y[2])
      BY DEF Opened
    <3>2. PICK s \in S : b[s] = y
      BY <1>1, <3>1
    <3>3. s \in S \ Plain(S) /\ x = Window(s[2])
      BY <1>2, <1>3, <3>1, <3>2
    <3>4. QED
      BY <3>3 DEF Opened
  <2>3. QED
    BY <2>1, <2>2
<1> DEFINE v(n) == [s \in Plain(S) |-> Brings(image, i, skipped, s[2], s[2].meta, n)]
           w(n) == [s \in Plain(T) |-> Brings(image, i, skipped, s[2], s[2].meta, n)]
           c == [s \in Plain(S) |-> b[s]]
<1>5. PairsOff(c, Plain(S), Plain(T)) /\ IsFiniteSet(Plain(S))
  <2>1. c \in [Plain(S) -> Plain(T)]
    BY <1>3 DEF Plain
  <2>2. \A x, y \in Plain(S) : c[x] = c[y] => x = y
    BY <1>1 DEF Plain
  <2>3. \A y \in Plain(T) : \E x \in Plain(S) : c[x] = y
    <3> SUFFICES ASSUME NEW y \in Plain(T) PROVE \E x \in Plain(S) : c[x] = y
      OBVIOUS
    <3>1. PICK x \in S : b[x] = y
      BY <1>1 DEF Plain
    <3>2. x \in Plain(S) /\ c[x] = y
      BY <1>3, <3>1
    <3>3. QED
      BY <3>2
  <2>4. QED
    BY <2>1, <2>2, <2>3, OpenedFinite DEF PairsOff
<1>6. ASSUME NEW n \in neurons(image, i) PROVE Total(v(n)) = Total(w(n))
  <2>1. w(n) \in [Plain(T) -> Int]
    BY BringsInt DEF Plain
  <2>2. \A s \in Plain(S) : v(n)[s] = w(n)[c[s]]
    <3> SUFFICES ASSUME NEW s \in Plain(S) PROVE v(n)[s] = w(n)[c[s]]
      OBVIOUS
    <3>1. s \in S /\ b[s] \in Plain(T)
      BY <1>3 DEF Plain
    <3>2. Brings(image, i, skipped, s[2], s[2].meta, n)
            = Brings(image, i, skipped, b[s][2], b[s][2].meta, n)
      BY <3>1 DEF Brings
    <3>3. QED
      BY <3>1, <3>2
  <2>3. v(n) \in [Plain(S) -> Int]
    <3>0. \A s \in Plain(S) : c[s] \in Plain(T)
      <4> HIDE DEF c
      <4>1. QED
        BY <1>5 DEF PairsOff
    <3>1. \A s \in Plain(S) : v(n)[s] \in Int
      <4> HIDE DEF v, w, c
      <4>1. QED
        BY <2>1, <2>2, <3>0
    <3>2. QED
      BY <3>1
  <2> HIDE DEF v, w, c
  <2>4. QED
    BY <1>5, <2>1, <2>2, <2>3, TotalCarried
<1>7. received(image, i, skipped, before, S) =
        [current |-> [n \in neurons(image, i) |-> before.current[n] + Total(v(n))
             + Total([x \in Opened(S) \ before.windows |-> Brings(image, i, skipped, x, 1, n)])],
         windows |-> before.windows \cup Opened(S)]
  BY ReceivedIs
<1>8. received(image, i, skipped, before, T) =
        [current |-> [n \in neurons(image, i) |-> before.current[n] + Total(w(n))
             + Total([x \in Opened(T) \ before.windows |-> Brings(image, i, skipped, x, 1, n)])],
         windows |-> before.windows \cup Opened(T)]
  BY ReceivedIs
<1> HIDE DEF v, w
<1>9. QED
  BY <1>4, <1>6, <1>7, <1>8

LEMMA ReceivedNothing ==
  ASSUME NEW image, NEW i, NEW skipped, NEW b, IsSlot(image, i, b)
  PROVE  received(image, i, skipped, b, {}) = b
<1>1. Plain({}) = {} /\ Opened({}) = {}
  BY DEF Plain, Opened
<1>2. IsFiniteSet({})
  BY FS_EmptySet
<1>3. \A w \in [{} -> Int] : Total(w) = 0
  BY <1>2, TotalType
<1>4. ASSUME NEW n
      PROVE  /\ Total([s \in {} |-> Brings(image, i, skipped, s[2], s[2].meta, n)]) = 0
             /\ Total([x \in {} |-> Brings(image, i, skipped, x, 1, n)]) = 0
  <2>1. /\ [s \in {} |-> Brings(image, i, skipped, s[2], s[2].meta, n)] \in [{} -> Int]
        /\ [x \in {} |-> Brings(image, i, skipped, x, 1, n)] \in [{} -> Int]
    OBVIOUS
  <2>2. QED
    BY <1>3, <2>1
<1>5. received(image, i, skipped, b, {}) =
        [current |-> [n \in neurons(image, i) |-> b.current[n]
           + Total([s \in {} |-> Brings(image, i, skipped, s[2], s[2].meta, n)])
           + Total([x \in {} \ b.windows |-> Brings(image, i, skipped, x, 1, n)])],
         windows |-> b.windows \cup {}]
  BY <1>1, ReceivedIs
<1>6. {} \ b.windows = {} /\ b.windows \cup {} = b.windows
  OBVIOUS
<1>7. received(image, i, skipped, b, {}) =
        [current |-> [n \in neurons(image, i) |-> b.current[n] + 0 + 0],
         windows |-> b.windows]
  BY <1>4, <1>5, <1>6
<1>8. [n \in neurons(image, i) |-> b.current[n] + 0 + 0] = b.current
  BY DEF IsSlot
<1>9. QED
  BY <1>7, <1>8 DEF IsSlot

(* A slot after the spike f has been accumulated. *)
Absorbed(image, i, skipped, b, f) ==
  IF is_max(f.meta) /\ Window(f) \in b.windows THEN b
  ELSE [current |-> [n \in neurons(image, i) |->
                       b.current[n] + Brings(image, i, skipped, f, f.meta, n)],
        windows |-> IF is_max(f.meta) THEN b.windows \cup {Window(f)} ELSE b.windows]

(* Accumulating one of the spikes first makes no difference. *)
LEMMA ReceivedOne ==
  ASSUME NEW image, NEW i, NEW skipped, NEW b, IsSlot(image, i, b),
         NEW S, IsFiniteSet(S), SpikesBring(image, i, S), NEW s \in S
  PROVE  /\ received(image, i, skipped, Absorbed(image, i, skipped, b, s[2]), S \ {s})
              = received(image, i, skipped, b, S)
         /\ IsSlot(image, i, Absorbed(image, i, skipped, b, s[2]))
<1> DEFINE f == s[2]
           R == S \ {s}
           a == Absorbed(image, i, skipped, b, f)
           new == Opened(S) \ b.windows
           rest == Opened(R) \ a.windows
           P(n) == [x \in Plain(S) |-> Brings(image, i, skipped, x[2], x[2].meta, n)]
           Q(n) == [x \in Plain(R) |-> Brings(image, i, skipped, x[2], x[2].meta, n)]
           V(n) == [x \in new |-> Brings(image, i, skipped, x, 1, n)]
           U(n) == [x \in rest |-> Brings(image, i, skipped, x, 1, n)]
           N == neurons(image, i)
<1> SUFFICES /\ received(image, i, skipped, a, R) = received(image, i, skipped, b, S)
             /\ IsSlot(image, i, a)
  OBVIOUS
<1>1. received(image, i, skipped, b, S) =
        [current |-> [n \in N |-> b.current[n] + Total(P(n)) + Total(V(n))],
         windows |-> b.windows \cup Opened(S)]
  BY ReceivedIs
<1>2. received(image, i, skipped, a, R) =
        [current |-> [n \in N |-> a.current[n] + Total(Q(n)) + Total(U(n))],
         windows |-> a.windows \cup Opened(R)]
  <2> HIDE DEF a, R
  <2>1. QED
    BY ReceivedIs
<1>3. IsFiniteSet(Plain(S)) /\ IsFiniteSet(new) /\ IsFiniteSet(Opened(S))
      /\ IsFiniteSet(Plain(R)) /\ IsFiniteSet(rest)
  <2>1. IsFiniteSet(R)
    BY FS_RemoveElement
  <2> HIDE DEF R
  <2>2. IsFiniteSet(Opened(S)) /\ IsFiniteSet(Opened(R)) /\ IsFiniteSet(Plain(S))
        /\ IsFiniteSet(Plain(R))
    BY <2>1, OpenedFinite
  <2> HIDE DEF a
  <2>3. IsFiniteSet(new) /\ IsFiniteSet(rest)
    BY <2>2, FS_Subset
  <2>4. QED
    BY <2>2, <2>3
<1>4. ASSUME NEW n \in N
      PROVE  /\ P(n) \in [Plain(S) -> Int] /\ V(n) \in [new -> Int]
             /\ Brings(image, i, skipped, f, f.meta, n) \in Int
  BY BringsInt DEF Plain
<1>5. \A n \in N : b.current[n] \in Int
  BY DEF IsSlot
<1>6. /\ \A n \in N : Total(P(n)) \in Int /\ Total(V(n)) \in Int
  <2> HIDE DEF P, V, N, new
  <2>1. QED
    BY <1>3, <1>4, TotalType
<1>7. \A x : x \in Opened(S) <=> x \in Opened(R) \/ (is_max(f.meta) /\ x = Window(f))
  BY DEF Opened, Plain
<1>8. CASE ~is_max(f.meta)
  <2>1. /\ a.current = [n \in N |-> b.current[n] + Brings(image, i, skipped, f, f.meta, n)]
        /\ a.windows = b.windows
        /\ a = [current |-> a.current, windows |-> a.windows]
    BY <1>8 DEF Absorbed
  <2>2. Opened(R) = Opened(S)
    BY <1>7, <1>8
  <2>3. rest = new
    <3> HIDE DEF a, R
    <3>1. QED
      BY <2>1, <2>2
  <2>4. s \in Plain(S) /\ Plain(R) = Plain(S) \ {s}
    BY <1>8 DEF Plain
  <2>5. ASSUME NEW n \in N
        PROVE  Total(P(n)) = Brings(image, i, skipped, f, f.meta, n) + Total(Q(n))
    <3>1. P(n) \in [Plain(S) -> Int] /\ P(n)[s] = Brings(image, i, skipped, f, f.meta, n)
      BY <1>4, <2>4
    <3>2. Q(n) \in [Plain(S) \ {s} -> Int]
      <4> HIDE DEF R
      <4>1. QED
        BY <1>4, <2>4 DEF Plain
    <3>3. \A y \in Plain(S) \ {s} : Q(n)[y] = P(n)[y]
      <4> HIDE DEF R
      <4>1. QED
        BY <2>4
    <3> HIDE DEF P, Q, R
    <3>4. QED
      BY <1>3, <2>4, <3>1, <3>2, <3>3, TotalWithout
  <2>6. ASSUME NEW n \in N
        PROVE  a.current[n] + Total(Q(n)) + Total(U(n))
                 = b.current[n] + Total(P(n)) + Total(V(n))
    <3>1. a.current[n] = b.current[n] + Brings(image, i, skipped, f, f.meta, n)
      BY <2>1
    <3>2. U(n) = V(n)
      BY <2>3
    <3>3. Total(Q(n)) \in Int
      <4>1. Q(n) \in [Plain(R) -> Int]
        <5> HIDE DEF R
        <5>1. QED
          BY <1>4, <2>4 DEF Plain
      <4> HIDE DEF Q, R
      <4>2. QED
        BY <1>3, <4>1, TotalType
    <3> HIDE DEF a, P, Q, U, V
    <3>4. QED
      BY <1>4, <1>5, <1>6, <2>5, <3>1, <3>2, <3>3
  <2>7. a.windows \cup Opened(R) = b.windows \cup Opened(S)
    BY <2>1, <2>2
  <2>8. IsSlot(image, i, a)
    <3>1. a.current \in [N -> Int]
      <4> HIDE DEF a
      <4>1. QED
        BY <1>4, <1>5, <2>1
    <3> HIDE DEF a
    <3>2. QED
      BY <2>1, <3>1 DEF IsSlot
  <2> HIDE DEF a, P, Q, U, V, R
  <2>9. QED
    BY <1>1, <1>2, <2>6, <2>7, <2>8
<1>9. CASE is_max(f.meta) /\ Window(f) \in b.windows
  <2>1. a = b
    BY <1>9 DEF Absorbed
  <2>2. Plain(R) = Plain(S)
    BY <1>9 DEF Plain
  <2>3. rest = new /\ a.windows \cup Opened(R) = b.windows \cup Opened(S)
    <3> HIDE DEF a, R
    <3>1. QED
      BY <1>7, <1>9, <2>1
  <2>4. \A n : P(n) = Q(n) /\ U(n) = V(n)
    BY <2>2, <2>3
  <2> HIDE DEF a, P, Q, U, V, R
  <2>5. QED
    BY <1>1, <1>2, <2>1, <2>3, <2>4
<1>10. CASE is_max(f.meta) /\ Window(f) \notin b.windows
  <2>1. /\ a.current = [n \in N |-> b.current[n] + Brings(image, i, skipped, f, f.meta, n)]
        /\ a.windows = b.windows \cup {Window(f)}
        /\ a = [current |-> a.current, windows |-> a.windows]
    BY <1>10 DEF Absorbed
  <2>2. Plain(R) = Plain(S)
    BY <1>10 DEF Plain
  <2>3. Window(f) \in new /\ rest = new \ {Window(f)}
        /\ a.windows \cup Opened(R) = b.windows \cup Opened(S)
    <3> HIDE DEF a, R
    <3>1. QED
      BY <1>7, <1>10, <2>1
  <2>4. ASSUME NEW n \in N
        PROVE  Total(V(n)) = Brings(image, i, skipped, f, f.meta, n) + Total(U(n))
               /\ Total(U(n)) \in Int
    <3>1. V(n) \in [new -> Int] /\ V(n)[Window(f)] = Brings(image, i, skipped, f, f.meta, n)
      <4>1. V(n)[Window(f)] = Brings(image, i, skipped, Window(f), 1, n)
        BY <2>3
      <4>2. QED
        BY <1>4, <1>10, <4>1, MaxBrings
    <3>2. U(n) \in [new \ {Window(f)} -> Int] /\ \A x \in new \ {Window(f)} : U(n)[x] = V(n)[x]
      <4>1. \A x \in rest : U(n)[x] = V(n)[x]
        BY <2>3
      <4>2. \A x \in rest : U(n)[x] \in Int
        BY <2>3, <3>1, <4>1
      <4>3. U(n) \in [rest -> Int]
        BY <4>2
      <4> HIDE DEF U, V, rest, new
      <4>4. QED
        BY <2>3, <4>1, <4>3
    <3>3. Total(U(n)) \in Int
      <4> HIDE DEF U, rest, new
      <4>1. QED
        BY <1>3, <2>3, <3>2, TotalType
    <3> HIDE DEF U, V, rest, new
    <3>4. Total(V(n)) = V(n)[Window(f)] + Total(U(n))
      BY <1>3, <2>3, <3>1, <3>2, TotalWithout
    <3>5. QED
      BY <3>1, <3>3, <3>4
  <2>5. ASSUME NEW n \in N
        PROVE  a.current[n] + Total(Q(n)) + Total(U(n))
                 = b.current[n] + Total(P(n)) + Total(V(n))
    <3>1. a.current[n] = b.current[n] + Brings(image, i, skipped, f, f.meta, n)
      BY <2>1
    <3>2. P(n) = Q(n)
      BY <2>2
    <3> HIDE DEF a, P, Q, U, V
    <3>3. QED
      BY <1>4, <1>5, <1>6, <2>4, <3>1, <3>2
  <2>6. IsSlot(image, i, a)
    <3>1. a.current \in [N -> Int]
      <4> HIDE DEF a
      <4>1. QED
        BY <1>4, <1>5, <2>1
    <3> HIDE DEF a
    <3>2. QED
      BY <2>1, <3>1 DEF IsSlot
  <2> HIDE DEF a, P, Q, U, V, R
  <2>7. QED
    BY <1>1, <1>2, <2>3, <2>5, <2>6
<1>11. QED
  BY <1>8, <1>9, <1>10

-----------------------------------------------------------------------------
(* The refinement of the synchronous network.  RunnerInv, strengthened. *)

(* A PE is handed at most one flit in a cycle, which is for it, and drains it
   before it is handed the next. *)
OneFor(n, q) == q = << >> \/ \E f \in Flit : q = <<f>> /\ f.dst = n

Handed ==
  \A n \in Node :
    /\ OneFor(n, eject[n]) /\ OneFor(n, ejectNxt[n])
    /\ to_id(n) \in Pe /\ to_id(n) < ran /\ ran <= NumPe + Cells + to_id(n) => eject[n] = << >>
    /\ ran <= NumPe + to_id(n) => ejectNxt[n] = << >>

(* The rings hold slots, and the one to be used next but max_delay is blank. *)
Slotted ==
  /\ ring = [i \in Pe |-> [s \in RingSlot |-> ring[i][s]]]
  /\ \A i \in Pe : \A s \in RingSlot : IsSlot(Image, i, ring[i][s])
  /\ \A i \in Pe : ring[i][(Begun + max_delay) % ring_size] = Blank(i)

(* What attention block c may compute. *)
Outputs(c) == {attention(Image, Coprocs[c], fired) : fired \in [Pe -> SUBSET Nat]}

(* The inputs are given once and for all, a queue never holds more than its
   delay, and until it does the PEs behind it are given nothing. *)
Fed ==
  /\ input_seq \in InputSeqs
  /\ is_input = [i \in Pe |-> i \in DOMAIN input_seq \cup ProjectionPes]
  /\ DOMAIN buf = DOMAIN Coprocs
  /\ \A c \in DOMAIN Coprocs :
       /\ buf[c] \in Seq(Outputs(c)) /\ Len(buf[c]) <= Coprocs[c].delay
       /\ ~filled(c) => \A i \in Coprocs[c].proj_pes :
                          input_current[i] = [n \in Neurons(i) |-> 0]

(* Only neurons of a PE fire in it, and are counted. *)
Firing ==
  /\ soma = [i \in Pe |-> soma[i]]
  /\ \A i \in Pe : /\ soma[i].fired \subseteq Neurons(i)
                   /\ UseDnp => held(soma[i]) \subseteq Neurons(i)
  /\ fire_counts = [i \in Pe |-> [n \in Neurons(i) |-> fire_counts[i][n]]]

LineInv == RunnerInv /\ Handed /\ Slotted /\ Fed /\ Firing

-----------------------------------------------------------------------------
(* The operators of the synchronous network are the mesh's. *)

LEMMA SameCard ==
  \A S : /\ Synchronous!Cardinality(S) = Cardinality(S)
         /\ Synchronous!Sets!Cardinality(S) = Sets!Cardinality(S)
BY DEF Synchronous!Cardinality, Cardinality, Synchronous!Sets!Cardinality, Sets!Cardinality

LEMMA SameSmall ==
  /\ Synchronous!EmptyStore = EmptyStore
  /\ \A s : Synchronous!DenseStore(s) = DenseStore(s)
  /\ \A s, n : Synchronous!pruned(s, n) = pruned(s, n)
  /\ \A d : Synchronous!due_in(d) = due_in(d)
  /\ \A u : Synchronous!NoAttention(u) = NoAttention(u)
  /\ \A u : Synchronous!projection_pes(u) = projection_pes(u)
  /\ \A image, i : Synchronous!neurons(image, i) = neurons(image, i)
  /\ \A meta : Synchronous!is_max(meta) = is_max(meta)
  /\ \A s : Synchronous!Window(s) = Window(s)
BY DEF Synchronous!EmptyStore, EmptyStore, Synchronous!DenseStore, DenseStore,
       Synchronous!pruned, pruned, Synchronous!held, held, Synchronous!due_in, due_in,
       Synchronous!NoAttention, NoAttention, Synchronous!projection_pes, projection_pes,
       Synchronous!neurons, neurons, Synchronous!is_max, is_max, Synchronous!combine, combine,
       Synchronous!Window, Window, Synchronous!term, term

LEMMA SameContribution ==
  ASSUME NEW image, NEW i, NEW id, NEW go1, NEW go2, NEW meta, NEW n
  PROVE  Synchronous!contribution(image, i, id, go1, go2, meta, n)
           = contribution(image, i, id, go1, go2, meta, n)
BY DEF Synchronous!contribution, contribution, Synchronous!decompress, decompress,
       Synchronous!combine, combine, Synchronous!avg_n, avg_n,
       Sets!MapThenSumSet, Sets!MapThenFoldSet,
       Synchronous!Sets!MapThenSumSet, Synchronous!Sets!MapThenFoldSet

LEMMA SameReceived ==
  ASSUME NEW image, NEW i, NEW skipped, NEW before, NEW spikes
  PROVE  Synchronous!received(image, i, skipped, before, spikes)
           = received(image, i, skipped, before, spikes)
<1> DEFINE b1(s, meta, n) == IF n \in skipped THEN 0
             ELSE Synchronous!contribution(image, i, s.dendrite_id, s.go1, s.go2, meta, n)
           b2(s, meta, n) == IF n \in skipped THEN 0
             ELSE contribution(image, i, s.dendrite_id, s.go1, s.go2, meta, n)
           p1 == {s \in spikes : ~Synchronous!is_max(s[2].meta)}
           p2 == {s \in spikes : ~is_max(s[2].meta)}
           o1 == {Synchronous!Window(s[2]) : s \in spikes \ p1}
           o2 == {Window(s[2]) : s \in spikes \ p2}
           A1(n) == Synchronous!Sets!MapThenSumSet(LAMBDA s : b1(s[2], s[2].meta, n), p1)
           A2(n) == Sets!MapThenSumSet(LAMBDA s : b2(s[2], s[2].meta, n), p2)
           B1(n) == Synchronous!Sets!MapThenSumSet(LAMBDA x : b1(x, 1, n), o1 \ before.windows)
           B2(n) == Sets!MapThenSumSet(LAMBDA x : b2(x, 1, n), o2 \ before.windows)
<1>1. /\ Synchronous!received(image, i, skipped, before, spikes) =
           [current |-> [n \in Synchronous!neurons(image, i) |-> before.current[n] + A1(n) + B1(n)],
            windows |-> before.windows \cup o1]
      /\ received(image, i, skipped, before, spikes) =
           [current |-> [n \in neurons(image, i) |-> before.current[n] + A2(n) + B2(n)],
            windows |-> before.windows \cup o2]
  BY DEF Synchronous!received, received
<1>2. p1 = p2
  BY SameSmall
<1>3. o1 = o2
  BY <1>2, SameSmall
<1>4. \A s, meta, n : b1(s, meta, n) = b2(s, meta, n)
  BY SameContribution
<1> HIDE DEF b1, b2, p1, p2, o1, o2
<1>5. ASSUME NEW n PROVE A1(n) = A2(n)
  BY <1>2, <1>4 DEF Sets!MapThenSumSet, Sets!MapThenFoldSet,
                    Synchronous!Sets!MapThenSumSet, Synchronous!Sets!MapThenFoldSet
<1>6. ASSUME NEW n PROVE B1(n) = B2(n)
  BY <1>3, <1>4 DEF Sets!MapThenSumSet, Sets!MapThenFoldSet,
                    Synchronous!Sets!MapThenSumSet, Synchronous!Sets!MapThenFoldSet
<1>7. Synchronous!neurons(image, i) = neurons(image, i)
  BY SameSmall
<1> HIDE DEF A1, A2, B1, B2
<1>8. QED
  BY <1>1, <1>3, <1>5, <1>6, <1>7

LEMMA SameAttention ==
  ASSUME NEW image, NEW u, NEW fired
  PROVE  Synchronous!attention(image, u, fired) = attention(image, u, fired)
<1>1. \A pes : Synchronous!set_qkv(image, u, pes, fired) = set_qkv(image, u, pes, fired)
  BY DEF Synchronous!set_qkv, set_qkv, Synchronous!width, width, Synchronous!first_dim, first_dim
<1>2. ASSUME NEW q, NEW k, NEW v PROVE Synchronous!ssa_out(u, q, k, v) = ssa_out(u, q, k, v)
  <2> DEFINE heads(e) == {d \in 0 .. u.embed - 1 : d \div (u.embed \div u.heads)
                                                    = e \div (u.embed \div u.heads)}
             s1(i, j, e) == u.scale * Synchronous!Sets!Cardinality(
                              {d \in heads(e) : <<i, d>> \in q /\ <<j, d>> \in k})
             s2(i, j, e) == u.scale * Sets!Cardinality({d \in heads(e) : <<i, d>> \in q /\ <<j, d>> \in k})
             T1(x) == Synchronous!Sets!MapThenSumSet(LAMBDA j : s1(x[1], j, x[2]),
                           {j \in 0 .. u.n_tok - 1 : <<j, x[2]>> \in v})
             T2(x) == Sets!MapThenSumSet(LAMBDA j : s2(x[1], j, x[2]),
                           {j \in 0 .. u.n_tok - 1 : <<j, x[2]>> \in v})
  <2>1. \A i, j, e : s1(i, j, e) = s2(i, j, e)
    BY SameCard
  <2>2. Synchronous!ssa_out(u, q, k, v)
          = [x \in (0 .. u.n_tok - 1) \X (0 .. u.embed - 1) |-> T1(x)]
    BY DEF Synchronous!ssa_out
  <2>3. ssa_out(u, q, k, v) = [x \in (0 .. u.n_tok - 1) \X (0 .. u.embed - 1) |-> T2(x)]
    BY DEF ssa_out
  <2> HIDE DEF s1, s2
  <2>4. ASSUME NEW x PROVE T1(x) = T2(x)
    BY <2>1 DEF Sets!MapThenSumSet, Sets!MapThenFoldSet,
                Synchronous!Sets!MapThenSumSet, Synchronous!Sets!MapThenFoldSet
  <2> HIDE DEF T1, T2
  <2>5. QED
    BY <2>2, <2>3, <2>4
<1>3. QED
  BY <1>1, <1>2 DEF Synchronous!attention, attention

LEMMA SameProjection ==
  ASSUME NEW image, NEW i, NEW u, NEW out
  PROVE  Synchronous!projection(image, i, u, out) = projection(image, i, u, out)
BY DEF Synchronous!projection, projection, Synchronous!width, width, Synchronous!neurons, neurons,
       Sets!MapThenSumSet, Sets!MapThenFoldSet,
       Synchronous!Sets!MapThenSumSet, Synchronous!Sets!MapThenFoldSet

LEMMA SameStoreStep ==
  ASSUME NEW s, NEW current, NEW nPhys
  PROVE  Synchronous!StoreStep(s, current, nPhys) = StoreStep(s, current, nPhys)
<1>1. Synchronous!held(s) = held(s)
  BY DEF Synchronous!held, held
<1>2. Synchronous!Entering(s, current, nPhys) = Entering(s, current, nPhys)
  <2> DEFINE ask1 == {n \in DOMAIN current : current[n] # 0} \ Synchronous!held(s)
             ask2 == {n \in DOMAIN current : current[n] # 0} \ held(s)
  <2>1. Synchronous!Entering(s, current, nPhys) =
          {n \in ask1 : Synchronous!Cardinality({m \in ask1 : m < n})
                          < nPhys - Synchronous!Cardinality(Synchronous!held(s))}
    BY DEF Synchronous!Entering
  <2>2. Entering(s, current, nPhys) =
          {n \in ask2 : Cardinality({m \in ask2 : m < n}) < nPhys - Cardinality(held(s))}
    BY DEF Entering
  <2>3. ask1 = ask2
    BY <1>1
  <2> HIDE DEF ask1, ask2
  <2>4. QED
    BY <1>1, <2>1, <2>2, <2>3, SameCard
<1>3. \A v, in : Synchronous!Fires(v, in) = Fires(v, in)
  BY DEF Synchronous!Fires, Fires, Synchronous!Integrated, Integrated
<1>4. \A v, in : Synchronous!lif_step(v, in) = lif_step(v, in)
  BY <1>3 DEF Synchronous!lif_step, lif_step, Synchronous!Integrated, Integrated
<1>5. QED
  BY <1>1, <1>2, <1>3, <1>4, Zenon DEF Synchronous!StoreStep, StoreStep

LEMMA SameDenseStep ==
  ASSUME NEW s, NEW current
  PROVE  Synchronous!DenseStep(s, current) = DenseStep(s, current)
BY DEF Synchronous!DenseStep, DenseStep, Synchronous!Fires, Fires,
       Synchronous!lif_step, lif_step, Synchronous!Integrated, Integrated

-----------------------------------------------------------------------------
(* The steps of the synchronous network in the terms of the mesh. *)

Ssa == [c \in DOMAIN Coprocs |->
          [k \in 1 .. Coprocs[c].delay - Len(buf[c]) |-> NoAttention(Coprocs[c])] \o buf[c]]

(* What drives PE i. *)
LineDrive(i) ==
  IF i \in ProjectionPes
  THEN LET c == CHOOSE c \in DOMAIN Coprocs : i \in Coprocs[c].proj_pes
       IN  projection(Image, i, Coprocs[c], Head(Ssa[c]))
  ELSE IF i \in DOMAIN input_seq
  THEN input_seq[i][(Begun % Len(input_seq[i])) + 1]
  ELSE Due[i][1].current

(* The spikes of the neurons that have fired, and those for PE i with delay d. *)
SpikingIn(after) ==
  UNION {UNION {{<<i, n, k>> : k \in DOMAIN Targets[i][n]} : n \in after[i].fired} : i \in Pe}
TargetOf(s) == Targets[s[1]][s[2]][s[3]]
Arriving(after, i, d) ==
  {<<s, TargetOf(s)>> :
     s \in {x \in SpikingIn(after) : TargetOf(x).dst_pe = i /\ due_in(TargetOf(x).delay) = d}}
SkippedIn(after, i) == {n \in Neurons(i) : UseDnp /\ SkipPruned /\ pruned(after[i], n)}

SentOn(after) ==
  [i \in Pe |-> [d \in 1 .. max_delay |->
     received(Image, i, SkippedIn(after, i), IF d = max_delay THEN Blank(i) ELSE Due[i][d + 1],
              Arriving(after, i, d))]]

Chip == network(Image, Coprocs, Inert, Slots)

LEMMA ChipIs ==
  /\ Chip.image = Image /\ DOMAIN Chip.image = Pe
  /\ Chip.to = Targets /\ Chip.delays = max_delay
  /\ Chip.coprocs = Coprocs /\ Chip.inert = Inert /\ Chip.slots = Slots
BY ImageSizeAssumption DEF Chip, network, Targets, max_delay

LEMMA DriveIs ==
  ASSUME NEW i \in Pe
  PROVE  Synchronous!Drive(Chip, i) = LineDrive(i)
<1> DEFINE c == CHOOSE c \in DOMAIN Coprocs : i \in Coprocs[c].proj_pes
<1>1. Synchronous!projection_pes(Chip.coprocs) = ProjectionPes
  BY SameSmall, ChipIs DEF ProjectionPes
<1>2. Chip.coprocs = Coprocs /\ Chip.image = Image
  BY ChipIs
<1> HIDE DEF Chip
<1>3. CASE i \in ProjectionPes
  <2>1. Synchronous!Drive(Chip, i) = Synchronous!projection(Image, i, Coprocs[c], Head(Ssa[c]))
    BY <1>1, <1>2, <1>3 DEF Synchronous!Drive, Ssa
  <2>2. LineDrive(i) = projection(Image, i, Coprocs[c], Head(Ssa[c]))
    BY <1>3 DEF LineDrive
  <2>3. QED
    BY <2>1, <2>2, SameProjection
<1>4. CASE i \notin ProjectionPes
  BY <1>1, <1>4 DEF Synchronous!Drive, LineDrive
<1>5. QED
  BY <1>3, <1>4

LEMMA FiredIs ==
  ASSUME NEW i \in Pe
  PROVE  Synchronous!Fired(Chip, i) = Soma(i, LineDrive(i))
<1> HIDE DEF Chip
<1>1. QED
  BY DriveIs, ChipIs, SameStoreStep, SameDenseStep DEF Synchronous!Fired, Soma

LEMMA SentIs ==
  ASSUME NEW after
  PROVE  Synchronous!Sent(Chip, after) = SentOn(after)
<1> DEFINE spikes == UNION {UNION {{<<i, n, k>> : k \in DOMAIN Chip.to[i][n]} : n \in after[i].fired} :
                            i \in DOMAIN Chip.image}
           target(s) == Chip.to[s[1]][s[2]][s[3]]
           skipped(i) == {n \in Synchronous!neurons(Chip.image, i) :
                            UseDnp /\ SkipPruned /\ Synchronous!pruned(after[i], n)}
           arriving(i, d) ==
             {<<s, target(s)>> :
                s \in {x \in spikes : target(x).dst_pe = i /\ Synchronous!due_in(target(x).delay) = d}}
<1>1. Synchronous!Sent(Chip, after) =
        [i \in DOMAIN Chip.image |-> [d \in 1 .. Chip.delays |->
           Synchronous!received(Chip.image, i, skipped(i),
             IF d = Chip.delays THEN Synchronous!Blank(Chip, i) ELSE Due[i][d + 1], arriving(i, d))]]
  BY DEF Synchronous!Sent
<1>2. spikes = SpikingIn(after)
  BY ChipIs DEF SpikingIn
<1>3. \A s : target(s) = TargetOf(s)
  BY ChipIs DEF TargetOf
<1>4. \A i : skipped(i) = SkippedIn(after, i)
  BY ChipIs, SameSmall DEF SkippedIn, Neurons
<1> HIDE DEF spikes, target, skipped
<1>5. ASSUME NEW i, NEW d PROVE arriving(i, d) = Arriving(after, i, d)
  BY <1>2, <1>3, SameSmall DEF Arriving
<1> HIDE DEF arriving
<1>6. \A i : Synchronous!Blank(Chip, i) = Blank(i)
  BY ChipIs, SameSmall DEF Synchronous!Blank, Synchronous!NoCurrent, Blank, Neurons
<1> HIDE DEF Chip
<1>7. QED
  BY <1>1, <1>4, <1>5, <1>6, SameReceived, ChipIs DEF SentOn

LEMMA StepIs ==
  ASSUME Begun' = Begun + 1, input_seq' = input_seq,
         soma' = [i \in Pe |-> Soma(i, LineDrive(i))],
         fire_counts' = [i \in DOMAIN fire_counts |-> [n \in DOMAIN fire_counts[i] |->
                           fire_counts[i][n] + IF n \in soma'[i].fired THEN 1 ELSE 0]],
         Due' = SentOn(soma'),
         \A c \in DOMAIN Coprocs :
           Ssa'[c] = Append(Tail(Ssa[c]),
                            attention(Image, Coprocs[c], [i \in Pe |-> soma'[i].fired]))
  PROVE  Synchronous!Step
<1> DEFINE after == [i \in DOMAIN Chip.image |-> Synchronous!Fired(Chip, i)]
<1>1. after = soma'
  BY FiredIs, ChipIs
<1>2. Due' = Synchronous!Sent(Chip, after)
  <2>1. Due' = Synchronous!Sent(Chip, soma')
    BY SentIs
  <2> HIDE DEF after
  <2>2. QED
    BY <1>1, <2>1
<1>3. Ssa' = [c \in DOMAIN Ssa |->
                Append(Tail(Ssa[c]),
                       Synchronous!attention(Chip.image, Chip.coprocs[c],
                                             [i \in DOMAIN after |-> after[i].fired]))]
  <2> DEFINE fired == [i \in Pe |-> soma'[i].fired]
  <2>1. DOMAIN after = Pe /\ [i \in DOMAIN after |-> after[i].fired] = fired
    BY <1>1, ChipIs
  <2>2. \A c : Synchronous!attention(Chip.image, Chip.coprocs[c], fired)
                 = attention(Image, Coprocs[c], fired)
    BY SameAttention, ChipIs
  <2>3. DOMAIN Ssa = DOMAIN Coprocs /\ Ssa' = [c \in DOMAIN Coprocs |-> Ssa'[c]]
    BY DEF Ssa
  <2> HIDE DEF fired, after, Chip
  <2>4. \A c \in DOMAIN Coprocs : Ssa'[c] = Append(Tail(Ssa[c]), attention(Image, Coprocs[c], fired))
    BY DEF fired
  <2>5. QED
    BY <2>1, <2>2, <2>3, <2>4
<1>4. /\ Begun' = Begun + 1 /\ soma' = after
      /\ fire_counts' = [i \in DOMAIN fire_counts |-> [n \in DOMAIN fire_counts[i] |->
                           fire_counts[i][n] + IF n \in after[i].fired THEN 1 ELSE 0]]
      /\ input_seq' = input_seq
  BY <1>1
<1>5. Synchronous!StepOf(Chip)
  BY <1>2, <1>3, <1>4 DEF Synchronous!StepOf, Ssa
<1>6. QED
  BY <1>5 DEF Synchronous!Step, Chip

LEMMA ResetIs ==
  ASSUME fire_counts' = [i \in Pe |-> [n \in Neurons(i) |-> 0]],
         UNCHANGED <<input_seq, Begun, soma, Due, Ssa>>
  PROVE  Synchronous!ResetCounts
<1>1. Synchronous!NoCounts(Chip) = [i \in Pe |-> [n \in Neurons(i) |-> 0]]
  BY ChipIs, SameSmall DEF Synchronous!NoCounts, Synchronous!NoCurrent, Neurons
<1>2. Synchronous!ResetCountsOf(Chip)
  BY <1>1 DEF Synchronous!ResetCountsOf, Ssa
<1>3. QED
  BY <1>2 DEF Synchronous!ResetCounts, Chip

LEMMA LineInitIs ==
  ASSUME input_seq \in InputSeqs, Begun = 0,
         soma = [i \in Pe |-> IF UseDnp THEN EmptyStore ELSE DenseStore(Neurons(i))],
         fire_counts = [i \in Pe |-> [n \in Neurons(i) |-> 0]],
         Due = [i \in Pe |-> [d \in 1 .. max_delay |-> Blank(i)]],
         Ssa = [c \in DOMAIN Coprocs |->
                  [d \in 1 .. Coprocs[c].delay |-> NoAttention(Coprocs[c])]]
  PROVE  Synchronous!LineInit
<1>1. Synchronous!NoCounts(Chip) = [i \in Pe |-> [n \in Neurons(i) |-> 0]]
  BY ChipIs, SameSmall DEF Synchronous!NoCounts, Synchronous!NoCurrent, Neurons
<1>2. Synchronous!FirstSoma(Chip) = [i \in Pe |-> IF UseDnp THEN EmptyStore ELSE DenseStore(Neurons(i))]
  BY ChipIs, SameSmall DEF Synchronous!FirstSoma, Neurons
<1>3. \A i : Synchronous!Blank(Chip, i) = Blank(i)
  BY ChipIs, SameSmall DEF Synchronous!Blank, Synchronous!NoCurrent, Blank, Neurons
<1>4. Synchronous!NothingDue(Chip) = [i \in Pe |-> [d \in 1 .. max_delay |-> Blank(i)]]
  BY <1>3, ChipIs DEF Synchronous!NothingDue
<1>5. Synchronous!FirstSsa(Chip) = [c \in DOMAIN Coprocs |->
        [d \in 1 .. Coprocs[c].delay |-> NoAttention(Coprocs[c])]]
  BY ChipIs, SameSmall DEF Synchronous!FirstSsa
<1>6. QED
  BY <1>1, <1>2, <1>4, <1>5 DEF Synchronous!LineInit, Chip, Ssa

LEMMA LineStutters ==
  ASSUME UNCHANGED <<input_seq, Begun, soma, fire_counts, Due, Ssa>>
  PROVE  UNCHANGED Synchronous!lineVars
BY DEF Synchronous!lineVars, Ssa

-----------------------------------------------------------------------------
(* The queues of the mesh, as a family. *)

Mesh == [l \in Line |-> Queue(l)]
Spikes == {f \in Flit : ~is_sync(f)}

(* The spikes for PE i that take effect d timesteps after they were sent. *)
BoundFor(i, d) == {f \in Spikes : f.dst = to_coord(i) /\ due_in(f.delay) = d}

LEMMA LineFinite == IsFiniteSet(Line)
<1>1. IsFiniteSet(Pe)
  <2>1. NumPe \in Nat /\ Pe = 0 .. NumPe - 1
    BY Ids
  <2>2. QED
    BY <2>1, FS_Interval
<1>2. IsFiniteSet(Node)
  <2> DEFINE f == [k \in 0 .. Cells - 1 |-> to_coord(k)]
  <2>1. Cells \in Nat /\ \A n \in Node : to_id(n) \in 0 .. Cells - 1 /\ to_coord(to_id(n)) = n
    BY Ids
  <2> HIDE DEF Cells
  <2>2. IsFiniteSet(0 .. Cells - 1) /\ DOMAIN f = 0 .. Cells - 1
    BY <2>1, FS_Interval
  <2>3. IsFiniteSet({f[k] : k \in 0 .. Cells - 1})
    <3> HIDE DEF f
    <3>1. QED
      BY <2>2, ImageFinite
  <2>4. Node \subseteq {f[k] : k \in 0 .. Cells - 1}
    BY <2>1
  <2>5. QED
    BY <2>3, <2>4, FS_Subset
<1>3. IsFiniteSet(Dir) /\ IsFiniteSet({Local})
  <2>1. Dir = 0 .. 4
    BY DEF Dir, Local, South
  <2>2. IsFiniteSet(0 .. 4)
    <3>1. 0 \in Int /\ 4 \in Int
      OBVIOUS
    <3>2. QED
      BY <3>1, FS_Interval
  <2>3. QED
    BY <2>1, <2>2, FS_Singleton
<1>4. /\ IsFiniteSet({"spikes", "sync"}) /\ IsFiniteSet({"eject", "ejectNxt"})
      /\ IsFiniteSet({"cur", "nxt"})
  <2>1. \A a, b : {a, b} = {a} \cup {b}
    OBVIOUS
  <2>2. \A a : IsFiniteSet({a})
    BY FS_Singleton
  <2>3. ASSUME NEW a, NEW b PROVE IsFiniteSet({a} \cup {b})
    BY <2>2, FS_Union
  <2>4. IsFiniteSet({"spikes"} \cup {"sync"}) /\ IsFiniteSet({"eject"} \cup {"ejectNxt"})
        /\ IsFiniteSet({"cur"} \cup {"nxt"})
    BY <2>3
  <2>5. QED
    BY <2>1, <2>4, Zenon
<1>5. /\ IsFiniteSet({"spikes", "sync"} \X Pe \X {Local})
      /\ IsFiniteSet({"eject", "ejectNxt"} \X Node \X {Local})
      /\ IsFiniteSet({"cur", "nxt"} \X Node \X Dir)
  BY <1>1, <1>2, <1>3, <1>4, TriplesFinite
<1>6. QED
  BY <1>5, FS_Union DEF Line

LEMMA OnLine ==
  /\ MeshLine \subseteq Line
  /\ \A i \in Pe : /\ <<"spikes", i, Local>> \in Line \ MeshLine
                   /\ <<"sync", i, Local>> \in Line \ MeshLine
  /\ \A l \in Line \ MeshLine : \E i \in Pe : l \in {<<"spikes", i, Local>>, <<"sync", i, Local>>}
BY DEF Line, MeshLine

LEMMA MeshQueues ==
  RunnerTypeOK =>
    /\ Mesh \in Queues(Line, Flit)
    /\ Carries(Mesh, Line, cur, nxt, eject, ejectNxt)
    /\ \A i \in Pe : /\ Mesh[<<"spikes", i, Local>>] = pending_spikes[i]
                     /\ Mesh[<<"sync", i, Local>>] = pending_sync[i]
<1> SUFFICES ASSUME RunnerTypeOK
             PROVE  /\ Mesh \in Queues(Line, Flit)
                    /\ Carries(Mesh, Line, cur, nxt, eject, ejectNxt)
                    /\ \A i \in Pe : /\ Mesh[<<"spikes", i, Local>>] = pending_spikes[i]
                                     /\ Mesh[<<"sync", i, Local>>] = pending_sync[i]
  OBVIOUS
<1>1. \A i \in Pe : /\ Mesh[<<"spikes", i, Local>>] = pending_spikes[i]
                    /\ Mesh[<<"sync", i, Local>>] = pending_sync[i]
  BY OnLine DEF Mesh, Queue
<1>2. \A n \in Node :
        /\ Mesh[<<"eject", n, Local>>] = eject[n]
        /\ Mesh[<<"ejectNxt", n, Local>>] = ejectNxt[n]
        /\ \A p \in Dir : /\ Mesh[<<"cur", n, p>>] = cur[n][p]
                          /\ Mesh[<<"nxt", n, p>>] = nxt[n][p]
  BY OnLine, InMeshLine DEF Mesh, Queue
<1>3. ASSUME NEW l \in Line PROVE Queue(l) \in Seq(Flit)
  BY DEF Line, Queue, RunnerTypeOK, RouterTypeOK
<1>4. Mesh \in Queues(Line, Flit)
  BY <1>3 DEF Mesh, Queues
<1>5. QED
  BY <1>1, <1>2, <1>4, OnLine DEF Carries

LEMMA FlyingIs ==
  RunnerTypeOK => /\ Flying = Flights(Mesh, Spikes)
                  /\ Flying \in SUBSET ((Line \X Nat) \X Flit)
                  /\ IsFiniteSet(Flying)
<1> SUFFICES ASSUME RunnerTypeOK
             PROVE  /\ Flying = Flights(Mesh, Spikes)
                    /\ Flying \in SUBSET ((Line \X Nat) \X Flit)
                    /\ IsFiniteSet(Flying)
  OBVIOUS
<1>1. Mesh \in Queues(Line, Flit)
  BY MeshQueues
<1>2. /\ DOMAIN Mesh = Line
      /\ \A l \in Line : Mesh[l] = Queue(l) /\ Queue(l) \in Seq(Flit)
      /\ \A l \in Line : \A k \in DOMAIN Queue(l) : k \in Nat /\ Queue(l)[k] \in Flit
  <2>1. DOMAIN Mesh = Line /\ \A l \in Line : Mesh[l] = Queue(l) /\ Queue(l) \in Seq(Flit)
    BY <1>1 DEF Mesh, Queues
  <2>2. QED
    BY <2>1, LenProperties
<1>3. \A x : x \in Flying <=> \E l \in Line : \E k \in DOMAIN Queue(l) :
                                ~is_sync(Queue(l)[k]) /\ x = <<<<l, k>>, Queue(l)[k]>>
  <2> DEFINE part(l) == {<<<<l, k>>, Queue(l)[k]>> : k \in {j \in DOMAIN Queue(l) : ~is_sync(Queue(l)[j])}}
  <2>1. \A l, x : x \in part(l) <=> \E k \in DOMAIN Queue(l) :
                                ~is_sync(Queue(l)[k]) /\ x = <<<<l, k>>, Queue(l)[k]>>
    BY Zenon
  <2>2. Flying = UNION {part(l) : l \in Line}
    BY DEF Flying
  <2> HIDE DEF part
  <2>3. \A x : x \in Flying <=> \E l \in Line : x \in part(l)
    BY <2>2
  <2>4. QED
    BY <2>1, <2>3
<1>4. \A x : x \in Flights(Mesh, Spikes) <=> \E l \in Line : \E k \in DOMAIN Queue(l) :
                                ~is_sync(Queue(l)[k]) /\ x = <<<<l, k>>, Queue(l)[k]>>
  <2>1. \A s : s \in Spots(Mesh, Spikes) <=> \E l \in Line : \E k \in DOMAIN Queue(l) :
                                Queue(l)[k] \in Spikes /\ s = <<l, k>>
    BY <1>2, SpotsUnfold
  <2>2. \A x : x \in Flights(Mesh, Spikes) <=>
          \E s \in Spots(Mesh, Spikes) : x = <<s, Mesh[s[1]][s[2]]>>
    BY DEF Flights, Standing
  <2>3. \A l \in Line : \A k \in DOMAIN Queue(l) : Queue(l)[k] \in Spikes <=> ~is_sync(Queue(l)[k])
    BY <1>2 DEF Spikes
  <2>4. QED
    BY <1>2, <2>1, <2>2, <2>3
<1>5. Flying = Flights(Mesh, Spikes)
  BY <1>3, <1>4
<1>6. Flying \in SUBSET ((Line \X Nat) \X Flit)
  BY <1>2, <1>3
<1>7. IsFiniteSet(Flights(Mesh, Spikes))
  BY <1>1, LineFinite, FlightsFinite
<1>8. QED
  BY <1>5, <1>6, <1>7

-----------------------------------------------------------------------------
(* What is due. *)

Coming(i, d) == Flights(Mesh, BoundFor(i, d))
Skipped(i) == {n \in Neurons(i) : should_skip(i, n)}
SlotFor(d) == (Begun + d - 1) % ring_size

LEMMA DueIs ==
  RunnerTypeOK =>
    Due = [i \in Pe |-> [d \in 1 .. max_delay |->
             received(Image, i, Skipped(i), ring[i][SlotFor(d)], Coming(i, d))]]
<1> SUFFICES ASSUME RunnerTypeOK
             PROVE  Due = [i \in Pe |-> [d \in 1 .. max_delay |->
                      received(Image, i, Skipped(i), ring[i][SlotFor(d)], Coming(i, d))]]
  OBVIOUS
<1> DEFINE of(flying, i, d) == {s \in flying : s[2].dst = to_coord(i) /\ due_in(s[2].delay) = d}
           at(flying) == [i \in Pe |-> [d \in 1 .. max_delay |->
             received(Image, i, {n \in Neurons(i) : should_skip(i, n)},
                      ring[i][(Begun + d - 1) % ring_size], of(flying, i, d))]]
           due == [flying \in SUBSET ((Line \X Nat) \X Flit) |-> at(flying)]
<1>1. Due = due[Flying]
  BY DEF Due
<1>2. Due = at(Flying)
  <2> HIDE DEF at
  <2>1. QED
    BY <1>1, FlyingIs
<1>3. ASSUME NEW i \in Pe, NEW d PROVE of(Flying, i, d) = Coming(i, d)
  <2>1. \A A : \A x : x \in Flights(Mesh, A) <=>
          \E s \in Spots(Mesh, A) : x = <<s, Standing(Mesh, s)>>
    BY DEF Flights
  <2>2. \A A, s : s \in Spots(Mesh, A) <=>
          \E l \in DOMAIN Mesh : \E k \in DOMAIN Mesh[l] : Mesh[l][k] \in A /\ s = <<l, k>>
    BY SpotsUnfold
  <2>3. \A A : \A x : x \in Flights(Mesh, A) <=>
          \E l \in DOMAIN Mesh : \E k \in DOMAIN Mesh[l] :
            Mesh[l][k] \in A /\ x = <<<<l, k>>, Mesh[l][k]>>
    BY <2>1, <2>2 DEF Standing
  <2>4. \A f : f \in BoundFor(i, d) <=> f \in Spikes /\ f.dst = to_coord(i) /\ due_in(f.delay) = d
    BY DEF BoundFor
  <2>5. QED
    BY <2>3, <2>4, FlyingIs DEF Coming
<1> HIDE DEF of
<1>4. QED
  BY <1>2, <1>3 DEF Skipped, SlotFor

LEMMA ComingBrings ==
  RunnerTypeOK =>
    \A i \in Pe, d \in 1 .. max_delay :
      /\ IsFiniteSet(Coming(i, d)) /\ SpikesBring(Image, i, Coming(i, d))
      /\ BoundFor(i, d) \subseteq Flit
<1> SUFFICES ASSUME RunnerTypeOK, NEW i \in Pe, NEW d \in 1 .. max_delay
             PROVE  /\ IsFiniteSet(Coming(i, d)) /\ SpikesBring(Image, i, Coming(i, d))
                    /\ BoundFor(i, d) \subseteq Flit
  OBVIOUS
<1>1. IsFiniteSet(Coming(i, d))
  BY MeshQueues, LineFinite, FlightsFinite DEF Coming
<1>2. \A x \in Coming(i, d) : x[2] \in BoundFor(i, d)
  <2> SUFFICES ASSUME NEW x \in Coming(i, d) PROVE x[2] \in BoundFor(i, d)
    OBVIOUS
  <2>1. PICK s \in Spots(Mesh, BoundFor(i, d)) : x = <<s, Standing(Mesh, s)>>
    BY DEF Coming, Flights
  <2>2. PICK l \in DOMAIN Mesh :
          \E k \in DOMAIN Mesh[l] : Mesh[l][k] \in BoundFor(i, d) /\ s = <<l, k>>
    BY SpotsUnfold
  <2>3. PICK k \in DOMAIN Mesh[l] : Mesh[l][k] \in BoundFor(i, d) /\ s = <<l, k>>
    BY <2>2
  <2>4. QED
    BY <2>1, <2>3 DEF Standing
<1>3. \A f \in BoundFor(i, d) : f \in Flit /\ ~is_sync(f) /\ f.dst = to_coord(i)
  BY DEF BoundFor, Spikes
<1>4. SpikesBring(Image, i, Coming(i, d))
  BY <1>2, <1>3, SpikeAssumption DEF SpikesBring, Neurons
<1>5. QED
  BY <1>1, <1>3, <1>4

LEMMA DueNext ==
  ASSUME RunnerTypeOK'
  PROVE  Due' = [i \in Pe |-> [d \in 1 .. max_delay |->
           received(Image, i, Skipped(i)', ring'[i][SlotFor(d)'],
                    Flights(Mesh', BoundFor(i, d)))]]
<1>1. (RunnerTypeOK =>
        Due = [i \in Pe |-> [d \in 1 .. max_delay |->
                received(Image, i, Skipped(i), ring[i][SlotFor(d)], Coming(i, d))]])'
  BY DueIs, PTL
<1>2. QED
  BY <1>1 DEF Coming

LEMMA MeshNext ==
  ASSUME RunnerTypeOK'
  PROVE  /\ Mesh' \in Queues(Line, Flit)
         /\ Carries(Mesh', Line, cur', nxt', eject', ejectNxt')
         /\ \A i \in Pe : /\ Mesh'[<<"spikes", i, Local>>] = pending_spikes'[i]
                          /\ Mesh'[<<"sync", i, Local>>] = pending_sync'[i]
<1>1. (RunnerTypeOK =>
        /\ Mesh \in Queues(Line, Flit)
        /\ Carries(Mesh, Line, cur, nxt, eject, ejectNxt)
        /\ \A i \in Pe : /\ Mesh[<<"spikes", i, Local>>] = pending_spikes[i]
                         /\ Mesh[<<"sync", i, Local>>] = pending_sync[i])'
  BY MeshQueues, PTL
<1>2. QED
  BY <1>1

(* Spikes that have only moved are still due when they were. *)
LEMMA ComingMoved ==
  ASSUME NEW c \in Queues(Line, Flit), NEW e \in Queues(Line, Flit),
         SameCounts(c, e, Spikes), NEW i \in Pe, NEW d, SpikesBring(Image, i, Flights(c, BoundFor(i, d))),
         NEW skipped, NEW b
  PROVE  received(Image, i, skipped, b, Flights(e, BoundFor(i, d)))
           = received(Image, i, skipped, b, Flights(c, BoundFor(i, d)))
<1>1. SameCounts(e, c, BoundFor(i, d))
  BY DEF BoundFor, SameCounts
<1>2. /\ IsFiniteSet(Flights(e, BoundFor(i, d)))
      /\ \E p : PairsOff(p, Flights(e, BoundFor(i, d)), Flights(c, BoundFor(i, d)))
                  /\ \A x \in Flights(e, BoundFor(i, d)) : p[x][2] = x[2]
  BY <1>1, LineFinite, SameCountsPairOff
<1>3. PICK p : PairsOff(p, Flights(e, BoundFor(i, d)), Flights(c, BoundFor(i, d)))
                 /\ \A x \in Flights(e, BoundFor(i, d)) : p[x][2] = x[2]
  BY <1>2
<1>4. QED
  BY <1>2, <1>3, ReceivedAlike

LEMMA DueCarried ==
  ASSUME RunnerTypeOK, RunnerTypeOK', Begun' = Begun, UNCHANGED <<soma, ring>>,
         \A f \in Spikes : Cardinality(Spots(Mesh', {f})) = Cardinality(Spots(Mesh, {f}))
  PROVE  Due' = Due
<1>1. Mesh \in Queues(Line, Flit) /\ Mesh' \in Queues(Line, Flit)
  BY MeshQueues, MeshNext
<1>2. SameCounts(Mesh, Mesh', Spikes)
  BY DEF SameCounts
<1>3. ASSUME NEW i \in Pe, NEW d \in 1 .. max_delay
      PROVE  received(Image, i, Skipped(i)', ring'[i][SlotFor(d)'], Flights(Mesh', BoundFor(i, d)))
               = received(Image, i, Skipped(i), ring[i][SlotFor(d)], Coming(i, d))
  <2>1. Skipped(i)' = Skipped(i) /\ SlotFor(d)' = SlotFor(d)
    BY DEF Skipped, should_skip, SlotFor
  <2>2. SpikesBring(Image, i, Flights(Mesh, BoundFor(i, d)))
    BY ComingBrings DEF Coming
  <2>3. received(Image, i, Skipped(i), ring[i][SlotFor(d)], Flights(Mesh', BoundFor(i, d)))
          = received(Image, i, Skipped(i), ring[i][SlotFor(d)], Flights(Mesh, BoundFor(i, d)))
    BY <1>1, <1>2, <2>2, ComingMoved
  <2>4. QED
    BY <2>1, <2>3 DEF Coming
<1>4. QED
  BY <1>3, DueIs, DueNext

(* What is not of the mesh is what PEs hold back. *)
LEMMA HeldSame ==
  ASSUME RunnerTypeOK, RunnerTypeOK', NEW K,
         \A i \in Pe : /\ pending_spikes'[i] = pending_spikes[i] \/ <<"spikes", i, Local>> \in K
                       /\ pending_sync'[i] = pending_sync[i] \/ <<"sync", i, Local>> \in K
  PROVE  SameOff(MeshLine \cup K, Mesh, Mesh')
<1>1. DOMAIN Mesh = Line
  BY DEF Mesh
<1>2. ASSUME NEW l \in Line \ (MeshLine \cup K) PROVE Mesh'[l] = Mesh[l]
  <2>1. PICK i \in Pe : l \in {<<"spikes", i, Local>>, <<"sync", i, Local>>}
    BY <1>2, OnLine
  <2>2. CASE l = <<"spikes", i, Local>>
    BY <1>2, <2>2, MeshQueues, MeshNext
  <2>3. CASE l = <<"sync", i, Local>>
    BY <1>2, <2>3, MeshQueues, MeshNext
  <2>4. QED
    BY <2>1, <2>2, <2>3
<1>3. QED
  BY <1>1, <1>2 DEF SameOff

(* The steps of the routers and the commits of the PEs are invisible. *)
LEMMA RouterStepsLine ==
  ASSUME RunnerTypeOK, RunnerTypeOK', NEW r \in Node,
         \/ RouterCompute(r) \/ RouterCommit(r)
         \/ \E i \in Pe : PeCommit(i)
  PROVE  UNCHANGED Synchronous!lineVars
<1>1. UNCHANGED <<networkPeVars, input_seq, buf, abs_t, phase>>
  BY DEF RouterCompute, RouterCommit, PeCommit, Take
<1>2. UNCHANGED <<soma, ring, fire_counts, pending_spikes, pending_sync, input_seq, Begun, Ssa>>
  BY <1>1 DEF networkPeVars, neuronVars, Begun, Ssa
<1>3. \A i \in Pe : pending_spikes'[i] = pending_spikes[i] /\ pending_sync'[i] = pending_sync[i]
  BY <1>2
<1>4. SameOff(MeshLine \cup {}, Mesh, Mesh')
  BY <1>3, HeldSame
<1>5. SameOff(MeshLine, Mesh, Mesh')
  <2>1. MeshLine \cup {} = MeshLine
    OBVIOUS
  <2>2. QED
    BY <1>4, <2>1
<1>6. ASSUME NEW f \in Spikes
      PROVE  Cardinality(Spots(Mesh', {f})) = Cardinality(Spots(Mesh, {f}))
  <2>1. /\ Carries(Mesh, Line, cur, nxt, eject, ejectNxt)
        /\ Carries(Mesh', Line, cur', nxt', eject', ejectNxt')
        /\ RouterTypeOK
    BY MeshQueues, MeshNext DEF RunnerTypeOK
  <2>2. CASE RouterCompute(r)
    <3>1. Compute(r)
      BY <2>2 DEF RouterCompute
    <3>2. QED
      BY <1>5, <2>1, <3>1, LineFinite, ComputeMovesFlits
  <2>3. CASE RouterCommit(r)
    <3>1. Commit(r)
      BY <2>3 DEF RouterCommit
    <3>2. QED
      BY <1>5, <2>1, <3>1, LineFinite, CommitMovesFlits
  <2>4. CASE \E i \in Pe : PeCommit(i)
    <3>1. PICK i \in Pe : CommitEject(to_coord(i))
      BY <2>4 DEF PeCommit
    <3>2. to_coord(i) \in Node
      BY Ids
    <3>3. QED
      BY <1>5, <2>1, <3>1, <3>2, LineFinite, CommitEjectMovesFlits
  <2>5. QED
    BY <2>2, <2>3, <2>4
<1>7. Due' = Due
  BY <1>2, <1>6, DueCarried
<1>8. QED
  BY <1>2, <1>7, LineStutters

-----------------------------------------------------------------------------
(* A PE's compute: the spike it is handed turns into current that is due. *)

LEMMA Wired ==
  ASSUME RunnerTypeOK, NEW i \in Pe, NEW f \in Spikes
  PROVE  /\ Wires(i, eject[to_coord(i)], local_done(i)) \in Seq(Flit)
         /\ Count(Wires(i, eject[to_coord(i)], local_done(i)), {f}) = 0
<1> DEFINE w == Wires(i, eject[to_coord(i)], local_done(i))
<1>1. SyncTypeOK /\ local_done(i) \in BOOLEAN
  BY DEF local_done, RunnerTypeOK
<1>2. w \in Seq(FlitsOf(0)) /\ w \in Seq(FlitsOf(1))
  BY <1>1, WiresType
<1> HIDE DEF w
<1>3. \A k \in DOMAIN w : w[k] \in FlitsOf(0) /\ w[k] \in FlitsOf(1)
  BY <1>2, LenProperties, ElementOfSeq
<1>4. \A k \in DOMAIN w : w[k] \in Flit /\ is_sync(w[k])
  BY <1>3 DEF FlitsOf
<1>5. w \in Seq(Flit)
  BY <1>2, <1>4, SeqOver
<1>6. \A k \in DOMAIN w : w[k] \notin {f}
  BY <1>4 DEF Spikes
<1>7. Count(w, {f}) = 0
  BY <1>5, <1>6, CountIsNat
<1>8. QED
  BY <1>5, <1>7 DEF w

LEMMA PeStepMoves ==
  ASSUME RunnerTypeOK, RunnerTypeOK', NEW i \in Pe, PeStep(i), NEW f \in Spikes
  PROVE  Cardinality(Spots(Mesh', {f})) + Count(eject[to_coord(i)], {f})
           = Cardinality(Spots(Mesh, {f}))
<1> DEFINE n == to_coord(i)
           I == <<"spikes", i, Local>>
           J == <<"sync", i, Local>>
           wires == Wires(i, eject[n], local_done(i))
<1>1. PICK s \in 0 .. Len(Syncing(i)), k \in 0 .. Len(pending_spikes[i]) :
        /\ DrainAndInject(n, SubSeq(Syncing(i), 1, s) \o SubSeq(pending_spikes[i], 1, k))
        /\ pending_sync' = [pending_sync EXCEPT ![i] =
             SubSeq(Syncing(i), s + 1, Len(Syncing(i)))]
        /\ pending_spikes' = [pending_spikes EXCEPT ![i] =
             SubSeq(pending_spikes[i], k + 1, Len(pending_spikes[i]))]
  BY PeStepParts
<1>2. wires \in Seq(Flit) /\ Count(wires, {f}) = 0
  BY Wired
<1>3. /\ Mesh[I] = pending_spikes[i] /\ Mesh[J] = pending_sync[i]
      /\ Mesh'[I] = pending_spikes'[i] /\ Mesh'[J] = pending_sync'[i]
  BY MeshQueues, MeshNext
<1>4. /\ pending_spikes \in [Pe -> Seq(Flit)] /\ pending_sync \in [Pe -> Seq(Flit)]
      /\ eject \in [Node -> Seq(Flit)] /\ n \in Node /\ RouterTypeOK
  BY Ids DEF RunnerTypeOK, RouterTypeOK
<1>5. /\ I \in Line /\ I \notin MeshLine /\ J \in Line /\ J \notin MeshLine /\ I # J
      /\ Carries(Mesh, Line, cur, nxt, eject, ejectNxt)
      /\ Carries(Mesh', Line, cur', nxt', eject', ejectNxt')
  BY OnLine, MeshQueues, MeshNext
<1>6. SameOff(MeshLine \cup {I, J}, Mesh, Mesh')
  <2>1. \A j \in Pe : j # i => pending_spikes'[j] = pending_spikes[j] /\ pending_sync'[j] = pending_sync[j]
    BY <1>1, <1>4
  <2>2. \A j \in Pe : /\ pending_spikes'[j] = pending_spikes[j] \/ <<"spikes", j, Local>> \in {I, J}
                      /\ pending_sync'[j] = pending_sync[j] \/ <<"sync", j, Local>> \in {I, J}
    BY <2>1
  <2>3. QED
    BY <2>2, HeldSame
<1>7. Injects(n, Mesh[J], wires, Mesh[I], << >>, Mesh'[J], Mesh'[I])
  <2>1. Mesh[J] \o wires = Syncing(i) /\ Mesh[I] \o << >> = pending_spikes[i]
    <3>1. \A q \in Seq(Flit) : q \o << >> = q
      BY ConcatEmptySeq
    <3>2. QED
      BY <1>3, <1>4, <3>1 DEF Syncing
  <2>2. /\ Mesh'[J] = SubSeq(Syncing(i), s + 1, Len(Syncing(i)))
        /\ Mesh'[I] = SubSeq(pending_spikes[i], k + 1, Len(pending_spikes[i]))
    BY <1>1, <1>3, <1>4
  <2> HIDE DEF wires, I, J
  <2>3. QED
    BY <1>1, <2>1, <2>2 DEF Injects
<1>8. << >> \in Seq(Flit) /\ Count(<< >>, {f}) = 0
  <2>1. << >> \in Seq(Flit)
    OBVIOUS
  <2>2. QED
    BY <2>1, CountIsNat
<1> DEFINE none == << >>
           A == {f}
<1>12. none \in Seq(Flit) /\ Count(none, A) = 0 /\ Count(wires, A) = 0
       /\ Injects(n, Mesh[J], wires, Mesh[I], none, Mesh'[J], Mesh'[I])
  BY <1>2, <1>7, <1>8
<1>13. RouterTypeOK /\ n \in Node
  BY <1>4
<1> HIDE DEF wires, I, J, n, none, A
<1>9. Cardinality(Spots(Mesh', A)) + Count(eject[n], A)
           = Cardinality(Spots(Mesh, A)) + Count(wires, A) + Count(none, A)
  BY <1>2, <1>5, <1>6, <1>12, <1>13, LineFinite, InjectMovesFlits
<1>10. Cardinality(Spots(Mesh, A)) \in Nat
  BY <1>5, LineFinite, SpotsFinite DEF Carries
<1>11. QED
  BY <1>9, <1>10, <1>12 DEF A, n

(* At most one flit is handed over. *)
LEMMA HandedOne ==
  ASSUME RunnerTypeOK, Handed, NEW n \in Node
  PROVE  eject[n] = << >> \/ \E f \in Flit : eject[n] = <<f>> /\ f.dst = n
BY DEF Handed, OneFor

LEMMA AccumulatedIs ==
  ASSUME NEW i
  PROVE  /\ Accumulated(i, << >>) = ring[i]
         /\ \A f : Accumulated(i, <<f>>) = IF is_sync(f) THEN ring[i] ELSE Accumulate(i, ring[i], f)
<1>1. Accumulated(i, << >>) = ring[i]
  <2> DEFINE Q(g) == g = [k \in 0 .. Len(<< >>) |->
                IF k = 0 THEN ring[i]
                ELSE IF is_sync(<< >>[k]) THEN g[k - 1] ELSE Accumulate(i, g[k - 1], << >>[k])]
             w == [k \in 0 .. 0 |-> ring[i]]
  <2>1. Len(<< >>) = 0
    OBVIOUS
  <2>2. Q(w)
    BY <2>1
  <2>3. \A g : Q(g) => g[0] = ring[i]
    BY <2>1
  <2>4. Accumulated(i, << >>) = (CHOOSE g : Q(g))[Len(<< >>)]
    BY DEF Accumulated
  <2> HIDE DEF Q, w
  <2>5. QED
    BY <2>1, <2>2, <2>3, <2>4
<1>2. ASSUME NEW f
      PROVE  Accumulated(i, <<f>>) = IF is_sync(f) THEN ring[i] ELSE Accumulate(i, ring[i], f)
  <2> DEFINE Q(g) == g = [k \in 0 .. Len(<<f>>) |->
                IF k = 0 THEN ring[i]
                ELSE IF is_sync(<<f>>[k]) THEN g[k - 1] ELSE Accumulate(i, g[k - 1], <<f>>[k])]
             one == IF is_sync(f) THEN ring[i] ELSE Accumulate(i, ring[i], f)
             w == [k \in 0 .. 1 |-> IF k = 0 THEN ring[i] ELSE one]
  <2>1. Len(<<f>>) = 1 /\ <<f>>[1] = f /\ 0 .. 1 = {0, 1}
    OBVIOUS
  <2>4. Accumulated(i, <<f>>) = (CHOOSE g : Q(g))[Len(<<f>>)]
    BY DEF Accumulated
  <2>2. Q(w)
    <3> HIDE DEF one
    <3>1. w[0] = ring[i] /\ w[1] = one
      OBVIOUS
    <3> DEFINE h == [k \in 0 .. Len(<<f>>) |->
                IF k = 0 THEN ring[i]
                ELSE IF is_sync(<<f>>[k]) THEN w[k - 1] ELSE Accumulate(i, w[k - 1], <<f>>[k])]
    <3>2. DOMAIN h = 0 .. 1 /\ DOMAIN w = 0 .. 1
      BY <2>1
    <3>3. h[0] = ring[i]
      BY <2>1
    <3>4. h[1] = IF is_sync(f) THEN w[0] ELSE Accumulate(i, w[0], f)
      <4> HIDE DEF w
      <4>1. 1 - 1 = 0 /\ 1 # 0 /\ 1 \in 0 .. 1
        OBVIOUS
      <4>2. QED
        BY <2>1, <4>1
    <3>5. h[1] = one
      BY <3>1, <3>4 DEF one
    <3>6. h = [k \in 0 .. 1 |-> h[k]] /\ w = [k \in 0 .. 1 |-> w[k]]
      BY <3>2
    <3>7. h = w
      <4> HIDE DEF h, w
      <4>1. QED
        BY <2>1, <3>1, <3>3, <3>5, <3>6
    <3>8. QED
      BY <3>7
  <2>3. \A g : Q(g) => g[1] = one
    <3> SUFFICES ASSUME NEW g, Q(g) PROVE g[1] = one
      OBVIOUS
    <3>1. g[0] = ring[i]
      BY <2>1
    <3>2. g[1] = IF is_sync(f) THEN g[0] ELSE Accumulate(i, g[0], f)
      <4>1. 1 - 1 = 0 /\ 1 # 0 /\ 1 \in 0 .. 1
        OBVIOUS
      <4>2. QED
        BY <2>1, <4>1
    <3>3. QED
      BY <3>1, <3>2
  <2> HIDE DEF Q, w
  <2>5. QED
    BY <2>1, <2>2, <2>3, <2>4
<1>3. QED
  BY <1>1, <1>2

LEMMA MaxOfNats ==
  ASSUME NEW B \in Nat, NEW D \in SUBSET (0 .. B), NEW e \in D
  PROVE  /\ Sets!Max(D) \in D /\ \A y \in D : Sets!Max(D) >= y
<1> DEFINE T == {B - x : x \in D}
<1>1. T \in SUBSET Nat /\ T # {}
  OBVIOUS
<1> HIDE DEF T
<1>2. PICK k \in T : \A j \in T : k <= j
  BY <1>1, LeastNat
<1>3. PICK x \in D : k = B - x
  BY <1>2 DEF T
<1>4. \A y \in D : x >= y
  <2> SUFFICES ASSUME NEW y \in D PROVE x >= y
    OBVIOUS
  <2>1. B - x <= B - y
    BY <1>2, <1>3 DEF T
  <2>2. x \in Int /\ y \in Int
    OBVIOUS
  <2>3. QED
    BY <2>1, <2>2
<1>5. QED
  BY <1>3, <1>4 DEF Sets!Max

LEMMA MaxDelay == max_delay \in Nat \ {0}
<1> DEFINE D == {1} \cup {g.delay : g \in all_groups(Image)}
           B == 15
<1>1. max_delay = Sets!Max(D)
  BY DEF max_delay, longest_delay
<1>2. \A g \in all_groups(Image) : g.delay \in 0 .. B
  BY DelayAssumption
<1>3. B \in Nat /\ B >= 1
  OBVIOUS
<1> HIDE DEF B
<1>4. D \in SUBSET (0 .. B) /\ 1 \in D
  BY <1>2, <1>3
<1> HIDE DEF D
<1>5. max_delay \in D /\ max_delay >= 1
  BY <1>1, <1>3, <1>4, MaxOfNats
<1>6. QED
  BY <1>3, <1>4, <1>5

(* Slots that are less than the ring's size apart are different. *)
LEMMA ModuloApart ==
  ASSUME NEW m \in Nat \ {0}, NEW a \in Nat, NEW b \in Nat, a % m = b % m,
         a - b < m, b - a < m
  PROVE  a = b
<1> DEFINE p == a \div m
           q == b \div m
           r == a % m
<1>1. a = m * p + r /\ b = m * q + r /\ p \in Int /\ q \in Int /\ r \in 0 .. m - 1
  OBVIOUS
<1> HIDE DEF p, q, r
<1>2. m * (p - q) = a - b
  BY <1>1
<1>3. ~(p - q >= 1)
  <2>1. SUFFICES ASSUME p - q >= 1 PROVE FALSE
    OBVIOUS
  <2>2. m * (p - q) >= m * 1
    BY <1>1, <2>1
  <2>3. QED
    BY <1>1, <1>2, <2>2
<1>4. ~(p - q <= -1)
  <2>1. SUFFICES ASSUME p - q <= -1 PROVE FALSE
    OBVIOUS
  <2>2. m * (p - q) <= m * (-1)
    BY <1>1, <2>1
  <2>3. QED
    BY <1>1, <1>2, <2>2
<1>5. p = q
  BY <1>1, <1>3, <1>4
<1>6. QED
  BY <1>1, <1>5

LEMMA RingSlots ==
  /\ ring_size \in Nat \ {0} /\ RingSlot = 0 .. ring_size - 1 /\ ring_size = max_delay + 1
  /\ \A a \in Nat : a % ring_size \in RingSlot
  /\ \A a \in Nat, d, e \in 1 .. max_delay :
       (a + d) % ring_size = (a + e) % ring_size => d = e
<1>1. max_delay \in Nat \ {0}
  BY MaxDelay
<1>2. ring_size \in Nat \ {0} /\ RingSlot = 0 .. ring_size - 1 /\ ring_size = max_delay + 1
  BY <1>1 DEF ring_size, RingSlot
<1>3. \A a \in Nat : a % ring_size \in RingSlot
  BY <1>2
<1>4. ASSUME NEW a \in Nat, NEW d \in 1 .. max_delay, NEW e \in 1 .. max_delay,
             (a + d) % ring_size = (a + e) % ring_size
      PROVE  d = e
  <2> DEFINE x == a + d
             y == a + e
  <2>1. x \in Nat /\ y \in Nat /\ x - y < ring_size /\ y - x < ring_size
    BY <1>1, <1>2
  <2>2. x % ring_size = y % ring_size
    BY <1>4
  <2> HIDE DEF x, y
  <2>3. x = y
    BY <1>2, <2>1, <2>2, ModuloApart
  <2>4. QED
    BY <1>1, <2>3 DEF x, y
<1>5. QED
  BY <1>2, <1>3, <1>4

(* The ring of a PE after a spike. *)
LEMMA AccumulateIs ==
  ASSUME Slotted, NEW i \in Pe, NEW f
  PROVE  Accumulate(i, ring[i], f)
           = [s \in RingSlot |->
                IF s = (cur_t[i] + due_in(f.delay)) % ring_size
                THEN Absorbed(Image, i, Skipped(i), ring[i][s], f) ELSE ring[i][s]]
<1> DEFINE slot == (cur_t[i] + due_in(f.delay)) % ring_size
           b == ring[i]
<1>1. /\ DOMAIN b = RingSlot
      /\ \A s \in RingSlot : b[s] = [current |-> b[s].current, windows |-> b[s].windows]
  BY DEF Slotted, IsSlot
<1>2. window_key(f) = Window(f)
  BY DEF window_key
<1>3. \A n \in Neurons(i) : n \in Skipped(i) <=> should_skip(i, n)
  BY DEF Skipped
<1>4. ASSUME is_max(f.meta), Window(f) \in b[slot].windows
      PROVE  Accumulate(i, b, f)
           = [s \in RingSlot |-> IF s = slot THEN Absorbed(Image, i, Skipped(i), b[s], f) ELSE b[s]]
  <2>1. Accumulate(i, b, f) = b
    BY <1>2, <1>4 DEF Accumulate
  <2>2. Absorbed(Image, i, Skipped(i), b[slot], f) = b[slot]
    BY <1>4 DEF Absorbed
  <2>3. b = [s \in RingSlot |-> b[s]]
    BY <1>1 DEF Slotted
  <2> HIDE DEF b, slot
  <2>4. QED
    BY <2>1, <2>2, <2>3
<1>5. ASSUME ~(is_max(f.meta) /\ Window(f) \in b[slot].windows)
      PROVE  Accumulate(i, b, f)
           = [s \in RingSlot |-> IF s = slot THEN Absorbed(Image, i, Skipped(i), b[s], f) ELSE b[s]]
  <2> DEFINE gets == [n \in Neurons(i) |-> b[slot].current[n] +
                        IF should_skip(i, n) THEN 0
                        ELSE contribution(Image, i, f.dendrite_id, f.go1, f.go2, f.meta, n)]
             wins == IF is_max(f.meta) THEN b[slot].windows \cup {Window(f)} ELSE b[slot].windows
  <2>1. Accumulate(i, b, f) = [b EXCEPT ![slot].current =
               [n \in Neurons(i) |-> @[n] +
                  IF should_skip(i, n) THEN 0
                  ELSE contribution(Image, i, f.dendrite_id, f.go1, f.go2, f.meta, n)],
             ![slot].windows = IF is_max(f.meta) THEN @ \cup {Window(f)} ELSE @]
    BY <1>2, <1>5 DEF Accumulate
  <2>2. Absorbed(Image, i, Skipped(i), b[slot], f) = [current |-> gets, windows |-> wins]
    <3>1. gets = [n \in Neurons(i) |-> b[slot].current[n] + Brings(Image, i, Skipped(i), f, f.meta, n)]
      BY <1>3 DEF Brings
    <3>2. Neurons(i) = neurons(Image, i)
      BY DEF Neurons
    <3>3. QED
      BY <1>5, <3>1, <3>2 DEF Absorbed
  <2>3. Accumulate(i, b, f) = [b EXCEPT ![slot].current = gets, ![slot].windows = wins]
    BY <2>1
  <2> HIDE DEF b, slot, gets, wins
  <2> DEFINE x == [b EXCEPT ![slot].current = gets, ![slot].windows = wins]
  <2>4. x = [s \in RingSlot |-> x[s]]
    BY <1>1
  <2>5. \A s \in RingSlot : s # slot => x[s] = b[s]
    BY <1>1
  <2>6. slot \in RingSlot => x[slot] = [current |-> gets, windows |-> wins]
    <3> SUFFICES ASSUME slot \in RingSlot PROVE x[slot] = [current |-> gets, windows |-> wins]
      OBVIOUS
    <3> DEFINE c == b[slot].current
               v == b[slot].windows
    <3>1. b[slot] = [current |-> c, windows |-> v]
      BY <1>1
    <3>2. x[slot] = [[b[slot] EXCEPT !.current = gets] EXCEPT !.windows = wins]
      BY <1>1
    <3> HIDE DEF x, c, v
    <3>3. x[slot] = [[[current |-> c, windows |-> v] EXCEPT !.current = gets] EXCEPT !.windows = wins]
      BY <3>1, <3>2
    <3>4. QED
      BY <3>3
  <2>7. Accumulate(i, b, f) = x
    BY <2>3
  <2> HIDE DEF x
  <2>8. QED
    BY <2>2, <2>4, <2>5, <2>6, <2>7
<1>6. QED
  BY <1>4, <1>5

LEMMA FlightsUnfold ==
  ASSUME NEW c, NEW A
  PROVE  \A x : x \in Flights(c, A) <=>
           \E l \in DOMAIN c : \E k \in DOMAIN c[l] : c[l][k] \in A /\ x = <<<<l, k>>, c[l][k]>>
<1>1. \A x : x \in Flights(c, A) <=> \E s \in Spots(c, A) : x = <<s, Standing(c, s)>>
  BY DEF Flights
<1>2. \A s : s \in Spots(c, A) <=>
        \E l \in DOMAIN c : \E k \in DOMAIN c[l] : c[l][k] \in A /\ s = <<l, k>>
  BY SpotsUnfold
<1>3. QED
  BY <1>1, <1>2 DEF Standing

(* A family without what stands in one of its queues. *)
Without(c, l) == [c EXCEPT ![l] = << >>]

LEMMA FlightsWithout ==
  ASSUME NEW c \in Queues(Line, Flit), NEW E \in Line, NEW A
  PROVE  /\ (\A k \in DOMAIN c[E] : c[E][k] \notin A) => Flights(Without(c, E), A) = Flights(c, A)
         /\ \A f \in A : c[E] = <<f>> =>
              /\ <<<<E, 1>>, f>> \in Flights(c, A)
              /\ Flights(Without(c, E), A) = Flights(c, A) \ {<<<<E, 1>>, f>>}
<1> DEFINE e == [c EXCEPT ![E] = << >>]
<1>1. DOMAIN c = Line /\ DOMAIN e = Line
  BY DEF Queues
<1>2. e[E] = << >> /\ DOMAIN e[E] = {}
  BY <1>1
<1>3. \A l \in Line : l # E => e[l] = c[l]
  BY <1>1
<1> HIDE DEF e
<1>6. \A x : x \in Flights(c, A) <=>
           \E l \in Line : \E k \in DOMAIN c[l] : c[l][k] \in A /\ x = <<<<l, k>>, c[l][k]>>
  BY <1>1, FlightsUnfold
<1>7. \A x : x \in Flights(e, A) <=>
           \E l \in Line : l # E /\ \E k \in DOMAIN c[l] : c[l][k] \in A /\ x = <<<<l, k>>, c[l][k]>>
  <2>1. \A x : x \in Flights(e, A) <=>
           \E l \in Line : \E k \in DOMAIN e[l] : e[l][k] \in A /\ x = <<<<l, k>>, e[l][k]>>
    BY <1>1, FlightsUnfold
  <2>2. QED
    BY <1>2, <1>3, <2>1
<1>8. ASSUME \A k \in DOMAIN c[E] : c[E][k] \notin A PROVE Flights(e, A) = Flights(c, A)
  BY <1>6, <1>7, <1>8
<1>9. ASSUME NEW f \in A, c[E] = <<f>>
      PROVE  /\ <<<<E, 1>>, f>> \in Flights(c, A)
             /\ Flights(e, A) = Flights(c, A) \ {<<<<E, 1>>, f>>}
  <2>1. \A k : k \in DOMAIN c[E] <=> k = 1
    BY <1>9
  <2>2. c[E][1] = f
    BY <1>9
  <2>3. \A x : x = <<<<E, 1>>, f>> <=>
           \E k \in DOMAIN c[E] : c[E][k] \in A /\ x = <<<<E, k>>, c[E][k]>>
    BY <2>1, <2>2
  <2>4. \A x : x \in Flights(c, A) <=> x \in Flights(e, A) \/ x = <<<<E, 1>>, f>>
    BY <1>6, <1>7, <2>3
  <2>5. <<<<E, 1>>, f>> \notin Flights(e, A)
    BY <1>7
  <2>6. QED
    BY <2>4, <2>5
<1>10. QED
  BY <1>8, <1>9 DEF e, Without

LEMMA OneLineQueue ==
  ASSUME NEW c \in Queues(Line, Flit), NEW d \in Queues(Line, Flit), NEW l \in Line,
         SameOff({l}, c, d), NEW A
  PROVE  Cardinality(Spots(d, A)) + Count(c[l], A) = Cardinality(Spots(c, A)) + Count(d[l], A)
BY LineFinite, OneQueue

(* What is drained has been accumulated: nothing that is due has changed. *)
LEMMA PeComputeDue ==
  ASSUME RunnerTypeOK, RunnerTypeOK', Clocks, Handed, Slotted, InTimestep,
         UNCHANGED <<abs_t, phase>>, NEW i \in Pe, PeStep(i)
  PROVE  Due' = Due
<1> DEFINE n == to_coord(i)
           E == <<"eject", n, Local>>
           e == Without(Mesh, E)
<1>1. /\ n \in Node /\ E \in Line /\ Mesh[E] = eject[n]
      /\ Mesh \in Queues(Line, Flit) /\ Mesh' \in Queues(Line, Flit)
  <2>1. n \in Node /\ E \in MeshLine
    BY Ids, InMeshLine
  <2>2. QED
    BY <2>1, MeshQueues, MeshNext, OnLine DEF Carries
<1>2. e \in Queues(Line, Flit) /\ e[E] = << >> /\ SameOff({E}, Mesh, e)
  BY <1>1 DEF Queues, SameOff, Without
<1>8. ASSUME NEW A
      PROVE  /\ (\A k \in DOMAIN eject[n] : eject[n][k] \notin A) => Flights(e, A) = Flights(Mesh, A)
             /\ \A f \in A : eject[n] = <<f>> =>
                  /\ <<<<E, 1>>, f>> \in Flights(Mesh, A)
                  /\ Flights(e, A) = Flights(Mesh, A) \ {<<<<E, 1>>, f>>}
  <2> HIDE DEF E
  <2>1. QED
    BY <1>1, FlightsWithout
<1> HIDE DEF e
<1>3. ASSUME NEW f \in Spikes
      PROVE  Cardinality(Spots(e, {f})) = Cardinality(Spots(Mesh', {f}))
  <2> DEFINE A == {f}
             x == Cardinality(Spots(e, A))
             y == Cardinality(Spots(Mesh, A))
             z == Cardinality(Spots(Mesh', A))
             a == Count(eject[n], A)
  <2>1. z + a = y
    BY PeStepMoves
  <2> HIDE DEF A, E
  <2>2. x \in Nat /\ y \in Nat /\ z \in Nat
    BY <1>1, <1>2, LineFinite, SpotsFinite
  <2>3. x + a = y + Count(e[E], A)
    <3>1. Cardinality(Spots(e, A)) + Count(Mesh[E], A) = Cardinality(Spots(Mesh, A)) + Count(e[E], A)
      BY <1>1, <1>2, OneLineQueue
    <3>2. QED
      BY <1>1, <3>1
  <2>4. Count(e[E], A) = 0 /\ a \in Nat
    <3>1. << >> \in Seq(Flit) /\ eject[n] \in Seq(Flit)
      BY <1>1 DEF RunnerTypeOK, RouterTypeOK
    <3>2. QED
      BY <1>2, <3>1, CountIsNat
  <2> HIDE DEF x, y, z, a
  <2>5. x = z
    BY <2>1, <2>2, <2>3, <2>4
  <2>6. QED
    BY <2>5 DEF x, z, A
<1>4. Begun = abs_t + 1 /\ Begun' = Begun /\ abs_t \in Nat /\ cur_t[i] = abs_t
      /\ \A j : Skipped(j)' = Skipped(j)
  <2>1. UNCHANGED neuronVars
    BY PeStepParts
  <2>2. Begun = abs_t + 1 /\ Begun' = Begun /\ Now = abs_t
    BY DEF InTimestep, Begun, Now
  <2>3. abs_t \in Nat
    <3>1. NumTimesteps \in Nat
      BY NumTimestepsAssumption
    <3>2. QED
      BY <3>1 DEF RunnerTypeOK
  <2>4. QED
    BY <2>1, <2>2, <2>3 DEF Clocks, neuronVars, Skipped, should_skip
<1>5. ring' = [ring EXCEPT ![i] = Accumulated(i, eject[n])] /\ DOMAIN ring = Pe
  BY DEF PeStep, Slotted
<1>6. ASSUME NEW j \in Pe, NEW d \in 1 .. max_delay
      PROVE  received(Image, j, Skipped(j), ring'[j][SlotFor(d)], Flights(Mesh', BoundFor(j, d)))
               = received(Image, j, Skipped(j), ring[j][SlotFor(d)], Coming(j, d))
  <2> DEFINE B == BoundFor(j, d)
             x(f) == <<<<E, 1>>, f>>
             s == SlotFor(d)
  <2>1. s \in RingSlot /\ s = (abs_t + d) % ring_size
    <3>1. Begun + d - 1 = abs_t + d /\ abs_t + d \in Nat
      BY <1>4
    <3>2. QED
      BY <3>1, RingSlots DEF SlotFor
  <2>2. \A b : received(Image, j, Skipped(j), b, Flights(Mesh', B))
                = received(Image, j, Skipped(j), b, Flights(e, B))
    <3>1. SpikesBring(Image, j, Flights(e, B))
      <4> HIDE DEF B, E
      <4>1. Flights(e, B) \subseteq Flights(Mesh, B)
        <5>1. CASE \A k \in DOMAIN eject[n] : eject[n][k] \notin B
          BY <1>8, <5>1
        <5>2. CASE \E k \in DOMAIN eject[n] : eject[n][k] \in B
          <6>1. PICK f : eject[n] = <<f>>
            BY <1>1, <5>2, HandedOne
          <6>2. f \in B
            BY <5>2, <6>1
          <6>3. Flights(e, B) = Flights(Mesh, B) \ {<<<<E, 1>>, f>>}
            BY <1>8, <6>1, <6>2
          <6>4. QED
            BY <6>3
        <5>3. QED
          BY <5>1, <5>2
      <4>2. SpikesBring(Image, j, Flights(Mesh, B))
        BY ComingBrings DEF Coming, B
      <4>3. QED
        BY <4>1, <4>2 DEF SpikesBring
    <3> HIDE DEF E
    <3>2. \A f \in Spikes : Cardinality(Spots(e, {f})) = Cardinality(Spots(Mesh', {f}))
      BY <1>3
    <3>3. ASSUME NEW b
          PROVE  received(Image, j, Skipped(j), b, Flights(Mesh', BoundFor(j, d)))
                   = received(Image, j, Skipped(j), b, Flights(e, BoundFor(j, d)))
      <4> DEFINE m == Mesh'
                 k == Skipped(j)
      <4>1. m \in Queues(Line, Flit) /\ e \in Queues(Line, Flit)
        BY <1>1, <1>2
      <4>2. SameCounts(e, m, Spikes)
        BY <3>2 DEF SameCounts
      <4> HIDE DEF m, k
      <4>3. received(Image, j, k, b, Flights(m, BoundFor(j, d)))
                   = received(Image, j, k, b, Flights(e, BoundFor(j, d)))
        BY <3>1, <4>1, <4>2, ComingMoved
      <4>4. QED
        BY <4>3 DEF m, k
    <3>4. QED
      BY <3>3
  <2> HIDE DEF B, s
  <2>3. CASE \A k \in DOMAIN eject[n] : eject[n][k] \notin B
    <3>1. ring'[j][s] = ring[j][s]
      <4>1. CASE eject[n] = << >>
        <5>1. ring'[i] = ring[i]
          BY <1>5, <4>1, AccumulatedIs
        <5>2. QED
          BY <1>5, <5>1
      <4>2. ASSUME NEW f \in Flit, eject[n] = <<f>>, f.dst = n
            PROVE  ring'[j][s] = ring[j][s]
        <5>1. CASE is_sync(f)
          <6>1. ring'[i] = ring[i]
            BY <1>5, <4>2, <5>1, AccumulatedIs
          <6>2. QED
            BY <1>5, <6>1
        <5>2. CASE j # i
          BY <1>5, <5>2
        <5>3. CASE ~is_sync(f) /\ j = i
          <6>1. ring'[i] = Accumulate(i, ring[i], f)
            BY <1>5, <4>2, <5>3, AccumulatedIs
          <6>2. due_in(f.delay) \in 1 .. max_delay
            BY <4>2, <5>3, SpikeAssumption
          <6>3. due_in(f.delay) # d
            <7>1. f \notin B
              BY <2>3, <4>2
            <7>2. f \in Spikes /\ f.dst = to_coord(j)
              BY <4>2, <5>3 DEF Spikes
            <7>3. QED
              BY <7>1, <7>2 DEF B, BoundFor
          <6>4. (abs_t + due_in(f.delay)) % ring_size # (abs_t + d) % ring_size
            <7> DEFINE u == due_in(f.delay)
            <7> HIDE DEF u
            <7>1. u \in 1 .. max_delay /\ u # d
              BY <6>2, <6>3 DEF u
            <7>2. (abs_t + u) % ring_size # (abs_t + d) % ring_size
              BY <1>4, <7>1, RingSlots
            <7>3. QED
              BY <7>2 DEF u
          <6>5. s # (cur_t[i] + due_in(f.delay)) % ring_size
            BY <1>4, <2>1, <6>4
          <6>6. Accumulate(i, ring[i], f)
                  = [z \in RingSlot |->
                       IF z = (cur_t[i] + due_in(f.delay)) % ring_size
                       THEN Absorbed(Image, i, Skipped(i), ring[i][z], f) ELSE ring[i][z]]
            BY AccumulateIs
          <6>7. QED
            BY <2>1, <5>3, <6>1, <6>5, <6>6
        <5>4. QED
          BY <5>1, <5>2, <5>3
      <4>3. QED
        BY <1>1, <4>1, <4>2, HandedOne
    <3>2. QED
      BY <1>8, <2>2, <2>3, <3>1 DEF B, s, Coming
  <2>4. CASE \E k \in DOMAIN eject[n] : eject[n][k] \in B
    <3>1. PICK f \in Flit : eject[n] = <<f>> /\ f.dst = n
      BY <1>1, <2>4, HandedOne
    <3>2. f \in B
      BY <2>4, <3>1
    <3>3. f \in Spikes /\ f.dst = to_coord(j) /\ due_in(f.delay) = d
      BY <3>2 DEF B, BoundFor
    <3>4. i = j
      BY <3>1, <3>3, Ids
    <3>5. ring'[j][s] = Absorbed(Image, j, Skipped(j), ring[j][s], f)
      <4>1. ring'[i] = Accumulate(i, ring[i], f)
        BY <1>5, <3>1, <3>3, AccumulatedIs DEF Spikes
      <4>2. s = (cur_t[i] + due_in(f.delay)) % ring_size
        BY <1>4, <2>1, <3>3
      <4>3. Accumulate(i, ring[i], f)
              = [z \in RingSlot |->
                   IF z = s THEN Absorbed(Image, i, Skipped(i), ring[i][z], f) ELSE ring[i][z]]
        BY <4>2, AccumulateIs
      <4>4. QED
        BY <2>1, <3>4, <4>1, <4>3
    <3>6. x(f) \in Flights(Mesh, B) /\ Flights(e, B) = Flights(Mesh, B) \ {x(f)}
      BY <1>8, <3>1, <3>2
    <3>7. IsSlot(Image, j, ring[j][s])
      BY <2>1 DEF Slotted
    <3>8. IsFiniteSet(Flights(Mesh, B)) /\ SpikesBring(Image, j, Flights(Mesh, B))
      BY ComingBrings DEF Coming, B
    <3>9. received(Image, j, Skipped(j), Absorbed(Image, j, Skipped(j), ring[j][s], x(f)[2]),
                   Flights(Mesh, B) \ {x(f)})
            = received(Image, j, Skipped(j), ring[j][s], Flights(Mesh, B))
      <4> HIDE DEF x
      <4>1. QED
        BY <3>6, <3>7, <3>8, ReceivedOne
    <3>10. x(f)[2] = f
      OBVIOUS
    <3> HIDE DEF x
    <3>11. QED
      BY <2>2, <3>5, <3>6, <3>9, <3>10 DEF B, s, Coming
  <2>5. QED
    BY <2>3, <2>4
<1>7. ASSUME NEW j \in Pe, NEW d \in 1 .. max_delay
      PROVE  received(Image, j, Skipped(j)', ring'[j][SlotFor(d)'], Flights(Mesh', BoundFor(j, d)))
               = received(Image, j, Skipped(j), ring[j][SlotFor(d)], Coming(j, d))
  <2>1. Skipped(j)' = Skipped(j) /\ SlotFor(d)' = SlotFor(d)
    BY <1>4 DEF SlotFor
  <2>2. QED
    BY <1>6, <2>1
<1>9. QED
  BY <1>7, DueIs, DueNext

LEMMA PeComputeLine ==
  ASSUME RunnerTypeOK, RunnerTypeOK', Clocks, Handed, Slotted, NEW i \in Pe, PeCompute(i)
  PROVE  UNCHANGED Synchronous!lineVars
<1>1. Cycling
  BY CycleSteps
<1>2. PeStep(i) /\ UNCHANGED <<input_seq, buf, abs_t, phase>> /\ InTimestep
  BY <1>1 DEF PeCompute, Take, Cycling
<1>3. Due' = Due
  BY <1>2, PeComputeDue
<1>4. UNCHANGED <<soma, fire_counts, input_seq, Begun, Ssa>>
  BY <1>2, PeStepParts DEF neuronVars, Begun, Ssa
<1>5. QED
  BY <1>3, <1>4, LineStutters

-----------------------------------------------------------------------------
(* The steps between cycles and between timesteps. *)

LEMMA MeshStill ==
  ASSUME UNCHANGED <<routerVars, pending_spikes, pending_sync>>
  PROVE  Mesh' = Mesh
<1>1. UNCHANGED <<cur, nxt, eject, ejectNxt, pending_spikes, pending_sync>>
  BY DEF routerVars
<1>2. \A l : Queue(l)' = Queue(l)
  BY <1>1 DEF Queue
<1>3. QED
  BY <1>2 DEF Mesh

LEMMA DueStill ==
  ASSUME RunnerTypeOK, RunnerTypeOK', Begun' = Begun,
         UNCHANGED <<routerVars, soma, ring, pending_spikes, pending_sync>>
  PROVE  Due' = Due
<1>1. Mesh' = Mesh
  BY MeshStill
<1>2. QED
  BY <1>1, DueCarried

LEMMA StillLine ==
  ASSUME RunnerTypeOK, RunnerTypeOK',
         GiveUp \/ NextCycle \/ BeginDrain \/ EndTimestep \/ Finish
  PROVE  UNCHANGED Synchronous!lineVars
<1>1. UNCHANGED <<routerVars, networkPeVars, input_seq, buf>>
  BY DEF GiveUp, NextCycle, BeginDrain, EndTimestep, Finish
<1>2. Begun' = Begun
  BY DEF GiveUp, NextCycle, BeginDrain, EndTimestep, Finish, InCycles, Begun
<1>3. UNCHANGED <<soma, ring, fire_counts, pending_spikes, pending_sync, input_seq, Ssa>>
  BY <1>1 DEF networkPeVars, neuronVars, Ssa
<1>4. Due' = Due
  BY <1>1, <1>2, <1>3, DueStill
<1>5. QED
  BY <1>2, <1>3, <1>4, LineStutters

LEMMA ResetLine ==
  ASSUME RunnerTypeOK, RunnerTypeOK', reset_counts
  PROVE  Synchronous!ResetCounts
<1>1. /\ UNCHANGED <<routerVars, input_seq, buf, abs_t, phase, ring, soma, pending_spikes, pending_sync>>
      /\ fire_counts' = [i \in Pe |-> [n \in Neurons(i) |-> 0]]
  BY DEF reset_counts, ResetFireCounts
<1>2. UNCHANGED <<Begun, Ssa>>
  BY <1>1 DEF Begun, Ssa
<1>3. Due' = Due
  BY <1>1, <1>2, DueStill
<1>4. QED
  BY <1>1, <1>2, <1>3, ResetIs

-----------------------------------------------------------------------------
(* Where the elements of a flattened sequence come from. *)

(* The places in the first m of the sequences in e. *)
Pieces(e, m) == {x \in (1 .. m) \X Nat : x[2] \in DOMAIN e[x[1]]}

(* h tells of every element of q which of e it is. *)
Origins(h, q, e, m) ==
  /\ PairsOff(h, DOMAIN q, Pieces(e, m))
  /\ \A x \in DOMAIN q : q[x] = e[h[x][1]][h[x][2]]

LEMMA OriginsAppend ==
  ASSUME NEW S, NEW e \in Seq(Seq(S)), NEW m \in Nat \ {0}, m + 1 <= Len(e),
         NEW q \in Seq(S), NEW h, Origins(h, q, e, m)
  PROVE  \E z : Origins(z, q \o e[m + 1], e, m + 1)
<1> DEFINE v == e[m + 1]
           a == Len(q)
           b == Len(v)
           z == [x \in 1 .. a + b |-> IF x <= a THEN h[x] ELSE <<m + 1, x - a>>]
<1>1. v \in Seq(S) /\ a \in Nat /\ b \in Nat /\ DOMAIN q = 1 .. a /\ DOMAIN v = 1 .. b
  <2>1. v \in Seq(S)
    BY LenProperties, ElementOfSeq
  <2>2. QED
    BY <2>1, LenProperties
<1>2. /\ DOMAIN (q \o v) = 1 .. a + b
      /\ \A x \in 1 .. a + b : (q \o v)[x] = IF x <= a THEN q[x] ELSE v[x - a]
  <2>1. q \o v \in Seq(S) /\ Len(q \o v) = a + b
    BY <1>1, ConcatProperties
  <2>2. QED
    BY <1>1, <2>1, LenProperties, ConcatProperties
<1>3. /\ h \in [1 .. a -> Pieces(e, m)]
      /\ \A x, y \in 1 .. a : h[x] = h[y] => x = y
      /\ \A y \in Pieces(e, m) : \E x \in 1 .. a : h[x] = y
      /\ \A x \in 1 .. a : q[x] = e[h[x][1]][h[x][2]]
  BY <1>1 DEF Origins, PairsOff
<1>4. /\ \A y \in Pieces(e, m) : y \in Pieces(e, m + 1) /\ y[1] # m + 1
      /\ \A k \in 1 .. b : <<m + 1, k>> \in Pieces(e, m + 1)
      /\ \A y \in Pieces(e, m + 1) :
           y \in Pieces(e, m) \/ \E k \in 1 .. b : y = <<m + 1, k>>
  <2>1. 1 .. m + 1 = (1 .. m) \cup {m + 1} /\ m + 1 \notin 1 .. m
    OBVIOUS
  <2> DEFINE r == m + 1
  <2>2. r \in 1 .. r /\ DOMAIN e[r] = 1 .. b /\ \A k \in 1 .. b : k \in Nat
    BY <1>1
  <2> HIDE DEF b
  <2>3. ASSUME NEW y \in Pieces(e, m) PROVE y \in Pieces(e, m + 1) /\ y[1] # m + 1
    BY <2>1 DEF Pieces
  <2>4. ASSUME NEW k \in 1 .. b PROVE <<m + 1, k>> \in Pieces(e, m + 1)
    BY <2>1, <2>2 DEF Pieces
  <2>5. ASSUME NEW y \in Pieces(e, m + 1), y \notin Pieces(e, m)
        PROVE  \E k \in 1 .. b : y = <<m + 1, k>>
    <3>1. /\ y \in (1 .. m + 1) \X Nat /\ y[2] \in DOMAIN e[y[1]]
          /\ ~(y \in (1 .. m) \X Nat)
      BY <2>5 DEF Pieces
    <3>2. y = <<y[1], y[2]>> /\ y[1] \in 1 .. m + 1 /\ y[2] \in Nat
      BY <3>1
    <3>3. ~(y[1] \in 1 .. m)
      BY <3>1, <3>2
    <3>4. y[1] = m + 1
      BY <2>1, <3>2, <3>3
    <3>5. QED
      BY <2>2, <3>1, <3>2, <3>4
  <2>6. QED
    BY <2>3, <2>4, <2>5
<1> HIDE DEF v, a, b
<1>5. \A x \in 1 .. a + b : IF x <= a THEN x \in 1 .. a ELSE x - a \in 1 .. b
  BY <1>1
<1>6. z \in [1 .. a + b -> Pieces(e, m + 1)]
  BY <1>3, <1>4, <1>5
<1>7. ASSUME NEW x \in 1 .. a + b, NEW y \in 1 .. a + b, z[x] = z[y] PROVE x = y
  <2>1. CASE x <= a /\ y <= a
    BY <1>3, <1>5, <1>7, <2>1
  <2>2. CASE ~(x <= a) /\ ~(y <= a)
    BY <1>1, <1>5, <1>7, <2>2
  <2>3. CASE x <= a /\ ~(y <= a)
    <3>1. z[x] \in Pieces(e, m) /\ z[y] = <<m + 1, y - a>>
      BY <1>3, <1>5, <2>3
    <3>2. QED
      BY <1>4, <1>7, <3>1
  <2>4. CASE ~(x <= a) /\ y <= a
    <3>1. z[y] \in Pieces(e, m) /\ z[x] = <<m + 1, x - a>>
      BY <1>3, <1>5, <2>4
    <3>2. QED
      BY <1>4, <1>7, <3>1
  <2>5. QED
    BY <2>1, <2>2, <2>3, <2>4
<1>8. ASSUME NEW y \in Pieces(e, m + 1) PROVE \E x \in 1 .. a + b : z[x] = y
  <2>1. CASE y \in Pieces(e, m)
    <3>1. PICK x \in 1 .. a : h[x] = y
      BY <1>3, <2>1
    <3>2. x \in 1 .. a + b /\ x <= a
      BY <1>1
    <3>3. QED
      BY <3>1, <3>2
  <2>2. CASE \E k \in 1 .. b : y = <<m + 1, k>>
    <3>1. PICK k \in 1 .. b : y = <<m + 1, k>>
      BY <2>2
    <3>2. k + a \in 1 .. a + b /\ ~(k + a <= a) /\ (k + a) - a = k
      BY <1>1
    <3>3. QED
      BY <3>1, <3>2
  <2>3. QED
    BY <1>4, <2>1, <2>2
<1>9. ASSUME NEW x \in 1 .. a + b PROVE (q \o v)[x] = e[z[x][1]][z[x][2]]
  BY <1>2, <1>3, <1>5 DEF v
<1> HIDE DEF z
<1>10. Origins(z, q \o v, e, m + 1)
  BY <1>2, <1>6, <1>7, <1>8, <1>9 DEF Origins, PairsOff
<1>11. QED
  BY <1>10 DEF v

LEMMA FlattenPlaces ==
  ASSUME NEW S, NEW e \in Seq(Seq(S))
  PROVE  \E h : Origins(h, Seqs!FlattenSeq(e), e, Len(e))
<1> DEFINE N == Len(e)
<1>1. N \in Nat /\ DOMAIN e = 1 .. N /\ \A i \in 1 .. N : e[i] \in Seq(S)
  BY LenProperties
<1>2. CASE N = 0
  <2>1. Seqs!FlattenSeq(e) = << >>
    BY <1>2, EmptySeq DEF Seqs!FlattenSeq
  <2>2. Pieces(e, 0) = {} /\ DOMAIN << >> = {}
    BY DEF Pieces
  <2>3. PairsOff(<< >>, {}, {})
    BY DEF PairsOff
  <2>4. Origins(<< >>, << >>, e, 0)
    BY <2>2, <2>3 DEF Origins
  <2>5. QED
    BY <1>2, <2>1, <2>4
<1>3. CASE N # 0
  <2>1. PICK g \in [1 .. N -> Seq(S)] :
           /\ Seqs!FlattenSeq(e) = g[N]
           /\ \A i \in 1 .. N : g[i] = IF i = 1 THEN e[i] ELSE g[i - 1] \o e[i]
    BY <1>3, FlattenUnfold
  <2> DEFINE Traced(m) == \E h : Origins(h, g[m], e, m)
  <2>2. Traced(1)
    <3> DEFINE h == [x \in DOMAIN e[1] |-> <<1, x>>]
    <3>1. g[1] = e[1] /\ e[1] \in Seq(S)
      BY <1>1, <1>3, <2>1
    <3>2. \A x \in DOMAIN e[1] : x \in Nat
      BY <3>1, LenProperties
    <3>3. \A y : y \in Pieces(e, 1) <=> \E x \in DOMAIN e[1] : y = <<1, x>>
      BY <3>2 DEF Pieces
    <3>4. PairsOff(h, DOMAIN e[1], Pieces(e, 1))
      BY <3>3 DEF PairsOff
    <3>5. Origins(h, e[1], e, 1)
      BY <3>4 DEF Origins
    <3> HIDE DEF h
    <3>6. QED
      BY <3>1, <3>5
  <2>3. ASSUME NEW m \in 1 .. N, m # N, Traced(m) PROVE Traced(m + 1)
    <3>1. PICK h : Origins(h, g[m], e, m)
      BY <2>3
    <3> HIDE DEF N
    <3>2. m \in Nat \ {0} /\ m + 1 <= N /\ m + 1 \in 1 .. N /\ (m + 1) - 1 = m /\ m + 1 # 1
      BY <1>1, <2>3
    <3>3. g[m] \in Seq(S) /\ g[m + 1] = g[m] \o e[m + 1]
      BY <2>1, <3>2
    <3>4. m + 1 <= Len(e)
      BY <3>2 DEF N
    <3>5. QED
      BY <3>1, <3>2, <3>3, <3>4, OriginsAppend
  <2>4. ASSUME NEW m \in 1 .. N PROVE Traced(m)
    <3> DEFINE T == {k \in 1 .. N : ~Traced(k)}
    <3>1. SUFFICES ASSUME T # {} PROVE FALSE
      OBVIOUS
    <3> HIDE DEF Traced
    <3>2. T \in SUBSET Nat
      BY <1>1
    <3> HIDE DEF T
    <3>3. PICK k \in T : \A j \in T : k <= j
      BY <3>1, <3>2, LeastNat
    <3> USE DEF T
    <3>4. k \in 1 .. N /\ ~Traced(k) /\ k # 1
      BY <2>2, <3>3
    <3>5. k - 1 \in 1 .. N /\ k - 1 # N /\ (k - 1) + 1 = k /\ ~(k <= k - 1)
      BY <1>1, <3>4
    <3>6. Traced(k - 1)
      BY <3>3, <3>5
    <3>7. Traced((k - 1) + 1)
      BY <2>3, <3>5, <3>6
    <3>8. QED
      BY <3>4, <3>5, <3>7
  <2>5. N \in 1 .. N
    BY <1>1, <1>3
  <2>6. Traced(N)
    BY <2>4, <2>5
  <2>7. QED
    BY <2>1, <2>6
<1>4. QED
  BY <1>2, <1>3

(* A PE's packets are the spikes of the neurons that fired, each once. *)
SpikesBy(i, fired) == UNION {{<<i, n, k>> : k \in DOMAIN Targets[i][n]} : n \in fired}

LEMMA PacketsFrom ==
  ASSUME NEW i \in Pe, NEW ts \in Timestep, NEW fired, fired \subseteq Neurons(i)
  PROVE  \E z : /\ PairsOff(z, DOMAIN Packets(i, fired, ts), SpikesBy(i, fired))
                /\ \A y \in DOMAIN Packets(i, fired, ts) :
                     Packets(i, fired, ts)[y] = SpikeFlit(i, TargetOf(z[y]), ts)
<1> DEFINE N == Image[i].neuron_count
           part(k) == IF k - 1 \in fired THEN SpikesOf(i, k - 1, ts) ELSE << >>
           parts == [k \in 1 .. N |-> part(k)]
           q == Packets(i, fired, ts)
<1>1. N \in Nat /\ Neurons(i) = 0 .. N - 1
  BY ImageSizeAssumption DEF Neurons, neurons
<1>2. \A n \in Neurons(i) : /\ SpikesOf(i, n, ts) \in Seq(Flit)
                            /\ DOMAIN SpikesOf(i, n, ts) = DOMAIN Targets[i][n]
                            /\ \A k \in DOMAIN Targets[i][n] : k \in Nat
  <2>1. ASSUME NEW n \in Neurons(i)
        PROVE  /\ SpikesOf(i, n, ts) \in Seq(Flit)
               /\ DOMAIN SpikesOf(i, n, ts) = DOMAIN Targets[i][n]
    BY WireAssumption DEF SpikesOf
  <2>2. ASSUME NEW n \in Neurons(i) PROVE \A k \in DOMAIN Targets[i][n] : k \in Nat
    <3> DEFINE v == SpikesOf(i, n, ts)
    <3>1. v \in Seq(Flit) /\ DOMAIN v = DOMAIN Targets[i][n]
      BY <2>1
    <3> HIDE DEF v
    <3>2. DOMAIN v = 1 .. Len(v) /\ Len(v) \in Nat
      BY <3>1, LenProperties
    <3>3. QED
      BY <3>1, <3>2
  <2>3. QED
    BY <2>1, <2>2
<1>3. ASSUME NEW k \in 1 .. N PROVE part(k) \in Seq(Flit)
  <2>1. k - 1 \in Neurons(i)
    BY <1>1
  <2>2. << >> \in Seq(Flit)
    OBVIOUS
  <2>3. QED
    BY <1>2, <2>1, <2>2
<1>4. parts \in Seq(Seq(Flit)) /\ Len(parts) = N /\ \A k \in 1 .. N : parts[k] = part(k)
  <2>1. parts \in [1 .. N -> Seq(Flit)] /\ DOMAIN parts = 1 .. N /\ \A k \in 1 .. N : parts[k] = part(k)
    BY <1>3
  <2> HIDE DEF parts, N
  <2>2. parts \in Seq(Seq(Flit))
    BY <1>1, <2>1, SeqDef
  <2>3. Len(parts) = N
    BY <1>1, <2>1, <2>2, LenProperties
  <2>4. QED
    BY <2>1, <2>2, <2>3
<1>5. q = Seqs!FlattenSeq(parts)
  BY DEF Packets
<1> HIDE DEF parts, q
<1>6. PICK h : Origins(h, q, parts, N)
  BY <1>4, <1>5, FlattenPlaces
<1>7. /\ h \in [DOMAIN q -> Pieces(parts, N)]
      /\ \A x, y \in DOMAIN q : h[x] = h[y] => x = y
      /\ \A y \in Pieces(parts, N) : \E x \in DOMAIN q : h[x] = y
      /\ \A x \in DOMAIN q : q[x] = parts[h[x][1]][h[x][2]]
  BY <1>6 DEF Origins, PairsOff
<1>8. ASSUME NEW x \in Pieces(parts, N)
      PROVE  /\ x[1] \in 1 .. N /\ x = <<x[1], x[2]>> /\ x[1] - 1 \in fired
             /\ x[2] \in DOMAIN Targets[i][x[1] - 1]
             /\ parts[x[1]][x[2]] = SpikeFlit(i, TargetOf(<<i, x[1] - 1, x[2]>>), ts)
  <2> HIDE DEF N
  <2>1. x[1] \in 1 .. N /\ x = <<x[1], x[2]>> /\ x[2] \in DOMAIN parts[x[1]]
    BY DEF Pieces
  <2>2. parts[x[1]] = part(x[1])
    BY <1>4, <2>1
  <2>3. x[1] - 1 \in fired
    BY <2>1, <2>2
  <2>4. parts[x[1]] = SpikesOf(i, x[1] - 1, ts) /\ x[1] - 1 \in Neurons(i)
    BY <2>2, <2>3
  <2>5. x[2] \in DOMAIN Targets[i][x[1] - 1]
    BY <1>2, <2>1, <2>4
  <2>6. SpikesOf(i, x[1] - 1, ts)[x[2]] = SpikeFlit(i, Targets[i][x[1] - 1][x[2]], ts)
    BY <2>5 DEF SpikesOf
  <2>7. TargetOf(<<i, x[1] - 1, x[2]>>) = Targets[i][x[1] - 1][x[2]]
    BY DEF TargetOf
  <2>8. QED
    BY <2>1, <2>3, <2>4, <2>5, <2>6, <2>7
<1>9. ASSUME NEW n \in fired, NEW k \in DOMAIN Targets[i][n]
      PROVE  <<n + 1, k>> \in Pieces(parts, N) /\ (n + 1) - 1 = n
  <2>1. n \in Neurons(i) /\ n + 1 \in 1 .. N /\ (n + 1) - 1 = n
    BY <1>1
  <2> HIDE DEF N
  <2>2. parts[n + 1] = SpikesOf(i, n, ts)
    BY <1>4, <2>1
  <2>3. k \in DOMAIN parts[n + 1] /\ k \in Nat
    BY <1>2, <2>1, <2>2
  <2>4. QED
    BY <2>1, <2>3 DEF Pieces
<1> DEFINE spike(x) == <<i, x[1] - 1, x[2]>>
           z == [y \in DOMAIN q |-> spike(h[y])]
<1> HIDE DEF N
<1>10. \A s : s \in SpikesBy(i, fired) <=>
         \E n \in fired : \E k \in DOMAIN Targets[i][n] : s = <<i, n, k>>
  BY DEF SpikesBy
<1>11. ASSUME NEW x \in Pieces(parts, N) PROVE spike(x) \in SpikesBy(i, fired)
  BY <1>8, <1>10
<1>12. z \in [DOMAIN q -> SpikesBy(i, fired)]
  BY <1>7, <1>11
<1>13. ASSUME NEW x \in DOMAIN q, NEW y \in DOMAIN q, z[x] = z[y] PROVE x = y
  <2>1. h[x] \in Pieces(parts, N) /\ h[y] \in Pieces(parts, N)
    BY <1>7
  <2>2. h[x][1] - 1 = h[y][1] - 1 /\ h[x][2] = h[y][2]
    BY <1>13
  <2>3. h[x][1] = h[y][1]
    <3> DEFINE a == h[x][1]
               b == h[y][1]
    <3>1. a \in 1 .. N /\ b \in 1 .. N
      BY <1>8, <2>1
    <3>2. a - 1 = b - 1
      BY <2>2
    <3> HIDE DEF a, b
    <3>3. a = b
      BY <1>1, <3>1, <3>2
    <3>4. QED
      BY <3>3 DEF a, b
  <2>4. h[x] = h[y]
    BY <1>8, <2>1, <2>2, <2>3
  <2>5. QED
    BY <1>7, <2>4
<1>14. ASSUME NEW s \in SpikesBy(i, fired) PROVE \E x \in DOMAIN q : z[x] = s
  <2>0. PICK n \in fired : \E k \in DOMAIN Targets[i][n] : s = <<i, n, k>>
    BY <1>10
  <2>1. PICK k \in DOMAIN Targets[i][n] : s = <<i, n, k>>
    BY <2>0
  <2>2. <<n + 1, k>> \in Pieces(parts, N) /\ (n + 1) - 1 = n
    BY <1>9
  <2>3. PICK x \in DOMAIN q : h[x] = <<n + 1, k>>
    BY <1>7, <2>2
  <2>4. z[x] = s
    BY <2>1, <2>2, <2>3
  <2>5. QED
    BY <2>4
<1>15. ASSUME NEW y \in DOMAIN q PROVE q[y] = SpikeFlit(i, TargetOf(z[y]), ts)
  BY <1>7, <1>8
<1> HIDE DEF z
<1>16. PairsOff(z, DOMAIN q, SpikesBy(i, fired))
  BY <1>12, <1>13, <1>14 DEF PairsOff
<1>17. QED
  BY <1>15, <1>16 DEF q

(* All that is on its way are the packets of the neurons that fired. *)
OnlyPackets(c, after, ts) ==
  /\ \A l \in Line : c[l] = << >> \/ \E j \in Pe : l = <<"spikes", j, Local>>
  /\ \A j \in Pe : c[<<"spikes", j, Local>>] = Packets(j, after[j].fired, ts)

SameFields(x, y) ==
  /\ x.dendrite_id = y.dendrite_id /\ x.meta = y.meta
  /\ x.go1 = y.go1 /\ x.go2 = y.go2

LEMMA SpikeFlitIs ==
  ASSUME NEW j \in Pe, NEW n \in Neurons(j), NEW k \in DOMAIN Targets[j][n], NEW ts
  PROVE  LET target == Targets[j][n][k]
             f == SpikeFlit(j, target, ts)
         IN  /\ target.dst_pe \in Pe /\ f.dst = to_coord(target.dst_pe)
             /\ SameFields(f, target) /\ f.delay = target.delay /\ ~is_sync(f)
<1> DEFINE target == Targets[j][n][k]
           f == SpikeFlit(j, target, ts)
<1>1. target.dst_pe \in Pe /\ target.go1 % 65536 = target.go1 /\ target.go2 % 65536 = target.go2
  BY SpikeAssumption
<1>2. /\ f.dst = to_coord(target.dst_pe) /\ f.delay = target.delay
      /\ f.dendrite_id = target.dendrite_id /\ f.meta = target.meta
      /\ f.go1 = target.go1 % 65536 /\ f.go2 = target.go2 % 65536
      /\ f.type = "Spike"
  <2> HIDE DEF target
  <2>1. QED
    BY DEF SpikeFlit
<1>3. QED
  BY <1>1, <1>2 DEF SameFields, is_sync

LEMMA ArrivingPaired ==
  ASSUME NEW c \in Queues(Line, Flit), NEW ts \in Timestep, NEW after,
         \A j \in Pe : after[j].fired \subseteq Neurons(j),
         OnlyPackets(c, after, ts), NEW i \in Pe, NEW d
  PROVE  \E b : /\ PairsOff(b, Flights(c, BoundFor(i, d)), Arriving(after, i, d))
                /\ \A x \in Flights(c, BoundFor(i, d)) : SameFields(x[2], b[x][2])
<1> DEFINE line(j) == <<"spikes", j, Local>>
           q(j) == Packets(j, after[j].fired, ts)
           from(j) == CHOOSE z : /\ PairsOff(z, DOMAIN q(j), SpikesBy(j, after[j].fired))
                                 /\ \A y \in DOMAIN q(j) :
                                      q(j)[y] = SpikeFlit(j, TargetOf(z[y]), ts)
           S == Flights(c, BoundFor(i, d))
           T == Arriving(after, i, d)
<1>1. \A j \in Pe : line(j) \in Line /\ c[line(j)] = q(j) /\ q(j) \in Seq(Flit)
  BY OnLine DEF OnlyPackets, Queues
<1>2. ASSUME NEW j \in Pe
      PROVE  /\ PairsOff(from(j), DOMAIN q(j), SpikesBy(j, after[j].fired))
             /\ \A y \in DOMAIN q(j) : q(j)[y] = SpikeFlit(j, TargetOf(from(j)[y]), ts)
  <2>1. \E z : /\ PairsOff(z, DOMAIN q(j), SpikesBy(j, after[j].fired))
               /\ \A y \in DOMAIN q(j) : q(j)[y] = SpikeFlit(j, TargetOf(z[y]), ts)
    BY PacketsFrom
  <2> HIDE DEF q
  <2>2. QED
    BY <2>1
<1> HIDE DEF from
<1>3. \A s : s \in SpikingIn(after) <=> \E j \in Pe : s \in SpikesBy(j, after[j].fired)
  BY DEF SpikingIn, SpikesBy
<1>4. ASSUME NEW j \in Pe, NEW s \in SpikesBy(j, after[j].fired)
      PROVE  LET f == SpikeFlit(j, TargetOf(s), ts)
             IN  /\ s[1] = j
                 /\ TargetOf(s).dst_pe \in Pe /\ f.dst = to_coord(TargetOf(s).dst_pe)
                 /\ SameFields(f, TargetOf(s)) /\ f.delay = TargetOf(s).delay /\ ~is_sync(f)
  <2>1. PICK n \in after[j].fired : \E k \in DOMAIN Targets[j][n] : s = <<j, n, k>>
    BY DEF SpikesBy
  <2>2. PICK k \in DOMAIN Targets[j][n] : s = <<j, n, k>>
    BY <2>1
  <2>3. n \in Neurons(j) /\ TargetOf(s) = Targets[j][n][k] /\ s[1] = j
    BY <2>2 DEF TargetOf
  <2>4. QED
    BY <2>3, SpikeFlitIs
<1>5. \A j \in Pe : to_coord(j) = to_coord(i) => j = i
  BY Ids
<1>6. \A s : s \in T <=> \E j \in Pe : \E p \in SpikesBy(j, after[j].fired) :
                /\ TargetOf(p).dst_pe = i /\ due_in(TargetOf(p).delay) = d
                /\ s = <<p, TargetOf(p)>>
  BY <1>3 DEF Arriving
<1>7. \A x : x \in S <=> \E j \in Pe : \E k \in DOMAIN q(j) :
                q(j)[k] \in BoundFor(i, d) /\ x = <<<<line(j), k>>, q(j)[k]>>
  <2>1. DOMAIN c = Line
    BY DEF Queues
  <2>2. \A x : x \in S <=> \E l \in Line : \E k \in DOMAIN c[l] :
                c[l][k] \in BoundFor(i, d) /\ x = <<<<l, k>>, c[l][k]>>
    BY <2>1, FlightsUnfold
  <2>3. \A l \in Line : \A k \in DOMAIN c[l] : \E j \in Pe : l = line(j)
    BY DEF OnlyPackets
  <2> HIDE DEF line, q, S
  <2>4. QED
    BY <1>1, <2>2, <2>3
<1>8. ASSUME NEW j \in Pe, NEW k \in DOMAIN q(j)
      PROVE  LET p == from(j)[k]
             IN  /\ p \in SpikesBy(j, after[j].fired)
                 /\ p[1] = j
                 /\ SameFields(q(j)[k], TargetOf(p))
                 /\ q(j)[k] \in BoundFor(i, d) <=>
                      TargetOf(p).dst_pe = i /\ due_in(TargetOf(p).delay) = d
  <2> DEFINE p == from(j)[k]
             f == SpikeFlit(j, TargetOf(p), ts)
  <2>1. p \in SpikesBy(j, after[j].fired) /\ q(j)[k] = f
    BY <1>2 DEF PairsOff
  <2>2. f \in Flit
    <3> HIDE DEF q, f
    <3>1. q(j) \in Seq(Flit)
      BY <1>1
    <3>2. q(j)[k] \in Flit
      BY <3>1
    <3>3. QED
      BY <2>1, <3>2
  <2>3. /\ p[1] = j
        /\ TargetOf(p).dst_pe \in Pe /\ f.dst = to_coord(TargetOf(p).dst_pe)
        /\ SameFields(f, TargetOf(p)) /\ f.delay = TargetOf(p).delay /\ ~is_sync(f)
    BY <1>4, <2>1
  <2> HIDE DEF p, f, q
  <2>4. QED
    BY <1>5, <2>1, <2>2, <2>3 DEF p, BoundFor, Spikes
<1> DEFINE spike(x) == from(x[1][1][2])[x[1][2]]
           b == [x \in S |-> <<spike(x), TargetOf(spike(x))>>]
<1>9. ASSUME NEW x \in S
      PROVE  \E j \in Pe : \E k \in DOMAIN q(j) :
               /\ x = <<<<line(j), k>>, q(j)[k]>> /\ q(j)[k] \in BoundFor(i, d)
               /\ spike(x) = from(j)[k]
  <2>1. PICK j \in Pe : \E k \in DOMAIN q(j) :
                q(j)[k] \in BoundFor(i, d) /\ x = <<<<line(j), k>>, q(j)[k]>>
    BY <1>7
  <2> HIDE DEF q
  <2>2. QED
    BY <2>1
<1> HIDE DEF S, T, q, spike
<1>10. b \in [S -> T]
  <2>1. ASSUME NEW x \in S PROVE <<spike(x), TargetOf(spike(x))>> \in T
    BY <1>6, <1>8, <1>9
  <2>2. QED
    BY <2>1
<1>11. ASSUME NEW x \in S, NEW y \in S, b[x] = b[y] PROVE x = y
  <2>1. spike(x) = spike(y)
    BY <1>11
  <2>2. PICK j \in Pe : \E k \in DOMAIN q(j) :
               x = <<<<line(j), k>>, q(j)[k]>> /\ spike(x) = from(j)[k]
    BY <1>9
  <2>3. PICK k \in DOMAIN q(j) : x = <<<<line(j), k>>, q(j)[k]>> /\ spike(x) = from(j)[k]
    BY <2>2
  <2>4. PICK m \in Pe : \E h \in DOMAIN q(m) :
               y = <<<<line(m), h>>, q(m)[h]>> /\ spike(y) = from(m)[h]
    BY <1>9
  <2>5. PICK h \in DOMAIN q(m) : y = <<<<line(m), h>>, q(m)[h]>> /\ spike(y) = from(m)[h]
    BY <2>4
  <2>6. j = m
    BY <1>8, <2>1, <2>3, <2>5
  <2>7. k = h
    BY <1>2, <2>1, <2>3, <2>5, <2>6 DEF PairsOff
  <2>8. QED
    BY <2>3, <2>5, <2>6, <2>7
<1>12. ASSUME NEW y \in T PROVE \E x \in S : b[x] = y
  <2>1. PICK j \in Pe : \E p \in SpikesBy(j, after[j].fired) :
                /\ TargetOf(p).dst_pe = i /\ due_in(TargetOf(p).delay) = d
                /\ y = <<p, TargetOf(p)>>
    BY <1>6
  <2>2. PICK p \in SpikesBy(j, after[j].fired) :
                /\ TargetOf(p).dst_pe = i /\ due_in(TargetOf(p).delay) = d
                /\ y = <<p, TargetOf(p)>>
    BY <2>1
  <2>3. PICK k \in DOMAIN q(j) : from(j)[k] = p
    BY <1>2 DEF PairsOff
  <2> DEFINE x == <<<<line(j), k>>, q(j)[k]>>
  <2>4. x \in S
    BY <1>7, <1>8, <2>2, <2>3
  <2>5. spike(x) = p
    BY <2>3 DEF spike
  <2> HIDE DEF x
  <2>6. b[x] = y
    BY <2>2, <2>4, <2>5
  <2>7. QED
    BY <2>4, <2>6
<1>13. ASSUME NEW x \in S PROVE SameFields(x[2], b[x][2])
  <2>1. b[x][2] = TargetOf(spike(x))
    OBVIOUS
  <2>2. SameFields(x[2], TargetOf(spike(x)))
    BY <1>8, <1>9
  <2>3. QED
    BY <2>1, <2>2
<1> HIDE DEF b
<1>14. PairsOff(b, S, T)
  BY <1>10, <1>11, <1>12 DEF PairsOff
<1>15. QED
  BY <1>13, <1>14 DEF S, T

LEMMA PacketsArrive ==
  ASSUME NEW c \in Queues(Line, Flit), NEW ts \in Timestep, NEW after,
         \A j \in Pe : after[j].fired \subseteq Neurons(j),
         OnlyPackets(c, after, ts), NEW i \in Pe, NEW d \in 1 .. max_delay, NEW skipped, NEW b
  PROVE  received(Image, i, skipped, b, Flights(c, BoundFor(i, d)))
           = received(Image, i, skipped, b, Arriving(after, i, d))
<1> DEFINE S == Flights(c, BoundFor(i, d))
           T == Arriving(after, i, d)
<1>1. IsFiniteSet(S)
  BY LineFinite, FlightsFinite
<1>2. PICK h : PairsOff(h, S, T) /\ \A x \in S : SameFields(x[2], h[x][2])
  BY ArrivingPaired
<1>3. \A x \in S : x[2] \in BoundFor(i, d)
  <2> SUFFICES ASSUME NEW x \in S PROVE x[2] \in BoundFor(i, d)
    OBVIOUS
  <2>1. \E l \in DOMAIN c : \E k \in DOMAIN c[l] :
           c[l][k] \in BoundFor(i, d) /\ x = <<<<l, k>>, c[l][k]>>
    BY FlightsUnfold
  <2>2. QED
    BY <2>1
<1>4. \A f \in BoundFor(i, d) : f \in Flit /\ ~is_sync(f) /\ f.dst = to_coord(i)
  BY DEF BoundFor, Spikes
<1>5. \A x \in S : \A n \in Neurons(i) :
        contribution(Image, i, x[2].dendrite_id, x[2].go1, x[2].go2, x[2].meta, n) \in Int
  BY <1>3, <1>4, SpikeAssumption
<1> HIDE DEF S, T
<1>6. ASSUME NEW s \in T, NEW n \in Neurons(i)
      PROVE  contribution(Image, i, s[2].dendrite_id, s[2].go1, s[2].go2, s[2].meta, n) \in Int
  <2>1. PICK x \in S : h[x] = s
    BY <1>2 DEF PairsOff
  <2>2. SameFields(x[2], s[2])
    BY <1>2, <2>1
  <2>3. QED
    BY <1>5, <2>2 DEF SameFields
<1>7. SpikesBring(Image, i, T)
  BY <1>6 DEF SpikesBring, Neurons
<1>8. /\ PairsOff(h, S, T)
      /\ \A s \in S : /\ s[2].dendrite_id = h[s][2].dendrite_id /\ s[2].meta = h[s][2].meta
                      /\ s[2].go1 = h[s][2].go1 /\ s[2].go2 = h[s][2].go2
  BY <1>2 DEF SameFields
<1>9. received(Image, i, skipped, b, S) = received(Image, i, skipped, b, T)
  BY <1>1, <1>7, <1>8, ReceivedAlike
<1>10. QED
  BY <1>9 DEF S, T

(* Between timesteps nothing is on its way, and what is due is in the ring. *)
LEMMA DueBetween ==
  ASSUME RunnerTypeOK, SilentBetween, Slotted, phase = "between", ~deadlock
  PROVE  Due = [i \in Pe |-> [d \in 1 .. max_delay |-> ring[i][SlotFor(d)]]]
<1>1. \A l \in Line : Mesh[l] = << >>
  <2> SUFFICES ASSUME NEW l \in Line PROVE Queue(l) = << >>
    BY DEF Mesh
  <2>1. /\ \A i \in Pe : pending_spikes[i] = << >> /\ pending_sync[i] = << >>
        /\ \A n \in Node :
             /\ eject[n] = << >> /\ ejectNxt[n] = << >>
             /\ \A p \in Dir : cur[n][p] = << >> /\ nxt[n][p] = << >>
    BY DEF SilentBetween
  <2>2. CASE l \in ({"spikes", "sync"} \X Pe \X {Local})
    BY <2>1, <2>2 DEF Queue
  <2>3. CASE l \in ({"eject", "ejectNxt"} \X Node \X {Local})
    BY <2>1, <2>3 DEF Queue
  <2>4. CASE l \in ({"cur", "nxt"} \X Node \X Dir)
    BY <2>1, <2>4 DEF Queue
  <2>5. QED
    BY <2>2, <2>3, <2>4 DEF Line
<1>2. DOMAIN Mesh = Line
  BY DEF Mesh
<1>3. \A i \in Pe, d \in 1 .. max_delay : Coming(i, d) = {}
  <2> SUFFICES ASSUME NEW i \in Pe, NEW d \in 1 .. max_delay, NEW x \in Coming(i, d) PROVE FALSE
    OBVIOUS
  <2>1. \E l \in DOMAIN Mesh : \E k \in DOMAIN Mesh[l] : x = <<<<l, k>>, Mesh[l][k]>>
    BY FlightsUnfold DEF Coming
  <2>2. QED
    BY <1>1, <1>2, <2>1
<1>4. ASSUME NEW i \in Pe, NEW d \in 1 .. max_delay
      PROVE  received(Image, i, Skipped(i), ring[i][SlotFor(d)], Coming(i, d)) = ring[i][SlotFor(d)]
  <2>1. Begun + d - 1 \in Nat
    BY MaxDelay DEF Begun, RunnerTypeOK
  <2>2. SlotFor(d) \in RingSlot
    BY <2>1, RingSlots DEF SlotFor
  <2>3. IsSlot(Image, i, ring[i][SlotFor(d)])
    BY <2>2 DEF Slotted
  <2>4. QED
    BY <1>3, <2>3, ReceivedNothing
<1>5. QED
  BY <1>4, DueIs

(* What begin_timestep does, in the words of the timesteps that are promised. *)
LEMMA BeginIs ==
  ASSUME Basics, Begin
  PROVE  /\ abs_t \in Timestep /\ phase = "between" /\ ~deadlock
         /\ Begun = abs_t /\ Begun' = abs_t + 1
         /\ UNCHANGED <<cur, nxt, eject, ejectNxt, pending_sync, input_seq, is_input>>
         /\ ring' = [i \in Pe |-> ClearedSlot(i, abs_t % ring_size)]
         /\ pending_spikes' = [i \in Pe |-> Packets(i, soma'[i].fired, abs_t)]
         /\ fire_counts' = [i \in Pe |-> [n \in Neurons(i) |->
              fire_counts[i][n] + IF n \in soma'[i].fired THEN 1 ELSE 0]]
         /\ input_current' = [i \in Pe |-> FedCurrent(i)]
         /\ soma' = [i \in Pe |-> Soma(i, IF is_input[i] THEN FedCurrent(i)
                                          ELSE ring[i][abs_t % ring_size].current)]
         /\ buf' = [c \in DOMAIN Coprocs |->
              coproc_read(c, IF filled(c) THEN Tail(buf[c]) ELSE buf[c])]
<1>1. /\ abs_t \in Timestep /\ phase = "between" /\ ~deadlock
      /\ phase' = "barrier" /\ abs_t' = abs_t /\ UNCHANGED <<routerVars, pending_sync>>
  BY BeginParts
<1>2. Begun = abs_t /\ Begun' = abs_t + 1
  BY <1>1 DEF Begun
<1>3. BeginTimestep(abs_t, [i \in Pe |-> FedCurrent(i)]) /\ UNCHANGED input_seq
  BY DEF Begin, AbsoluteIndex
<1>4. buf' = [c \in DOMAIN Coprocs |->
              coproc_read(c, IF filled(c) THEN Tail(buf[c]) ELSE buf[c])]
  BY DEF Begin
<1>5. /\ ring' = [i \in Pe |-> ClearedSlot(i, abs_t % ring_size)]
      /\ pending_spikes' = [i \in Pe |-> Packets(i, soma'[i].fired, abs_t)]
      /\ fire_counts' = [i \in Pe |-> [n \in Neurons(i) |->
              fire_counts[i][n] + IF n \in soma'[i].fired THEN 1 ELSE 0]]
      /\ input_current' = [i \in Pe |-> FedCurrent(i)]
      /\ is_input' = is_input
  BY <1>3 DEF BeginTimestep
<1>6. soma' = [i \in Pe |-> Soma(i, IF is_input[i] THEN FedCurrent(i)
                                          ELSE ring[i][abs_t % ring_size].current)]
  <2> DEFINE F == [i \in Pe |-> FedCurrent(i)]
  <2>1. soma' = [i \in Pe |-> Soma(i, IF is_input[i] THEN F[i]
                                          ELSE ring[i][abs_t % ring_size].current)]
    <3> HIDE DEF F
    <3>1. QED
      BY <1>3 DEF BeginTimestep, F
  <2>2. \A i \in Pe : F[i] = FedCurrent(i)
    OBVIOUS
  <2> HIDE DEF F
  <2>3. QED
    BY <2>1, <2>2
<1>7. UNCHANGED <<cur, nxt, eject, ejectNxt>>
  BY <1>1 DEF routerVars
<1>8. QED
  BY <1>1, <1>2, <1>3, <1>4, <1>5, <1>6, <1>7

LEMMA BeginPackets ==
  ASSUME Basics, SilentBetween, Begin
  PROVE  OnlyPackets(Mesh', soma', abs_t)
<1>1. /\ phase = "between" /\ ~deadlock
      /\ UNCHANGED <<cur, nxt, eject, ejectNxt, pending_sync>>
      /\ pending_spikes' = [i \in Pe |-> Packets(i, soma'[i].fired, abs_t)]
  BY BeginIs
<1>2. /\ \A i \in Pe : pending_sync'[i] = << >>
      /\ \A n \in Node :
           /\ eject'[n] = << >> /\ ejectNxt'[n] = << >>
           /\ \A p \in Dir : cur'[n][p] = << >> /\ nxt'[n][p] = << >>
  BY <1>1 DEF SilentBetween
<1>3. \A l \in Line : Mesh'[l] = Queue(l)'
  BY DEF Mesh
<1>4. ASSUME NEW l \in Line PROVE Queue(l)' = << >> \/ \E j \in Pe : l = <<"spikes", j, Local>>
  <2>1. CASE l \in ({"spikes", "sync"} \X Pe \X {Local})
    BY <1>2, <2>1 DEF Queue
  <2>2. CASE l \in ({"eject", "ejectNxt"} \X Node \X {Local})
    BY <1>2, <2>2 DEF Queue
  <2>3. CASE l \in ({"cur", "nxt"} \X Node \X Dir)
    BY <1>2, <2>3 DEF Queue
  <2>4. QED
    BY <2>1, <2>2, <2>3 DEF Line
<1>5. ASSUME NEW j \in Pe PROVE Queue(<<"spikes", j, Local>>)' = Packets(j, soma'[j].fired, abs_t)
  BY <1>1 DEF Queue
<1>6. \A j \in Pe : <<"spikes", j, Local>> \in Line
  BY OnLine
<1>7. QED
  BY <1>3, <1>4, <1>5, <1>6 DEF OnlyPackets

LEMMA BeginDue ==
  ASSUME Basics, RunnerTypeOK', SilentBetween, Slotted, Begin,
         \A j \in Pe : soma'[j].fired \subseteq Neurons(j)
  PROVE  Due' = SentOn(soma')
<1>1. /\ abs_t \in Timestep /\ phase = "between" /\ ~deadlock
      /\ Begun = abs_t /\ Begun' = abs_t + 1
      /\ ring' = [i \in Pe |-> ClearedSlot(i, abs_t % ring_size)]
  BY BeginIs
<1>2. Mesh' \in Queues(Line, Flit) /\ OnlyPackets(Mesh', soma', abs_t)
  BY MeshNext, BeginPackets
<1>3. RunnerTypeOK /\ abs_t \in Nat
  BY DEF Basics, RunnerTypeOK
<1>4. ASSUME NEW i \in Pe, NEW d \in 1 .. max_delay
      PROVE  /\ Skipped(i)' = SkippedIn(soma', i)
             /\ ring'[i][SlotFor(d)'] = IF d = max_delay THEN Blank(i) ELSE Due[i][d + 1]
  <2>1. Skipped(i)' = SkippedIn(soma', i)
    BY DEF Skipped, SkippedIn, should_skip
  <2>2. SlotFor(d)' = (abs_t + d) % ring_size
    BY <1>1, <1>3 DEF SlotFor
  <2>3. (abs_t + d) % ring_size \in RingSlot /\ (abs_t + d) % ring_size # abs_t % ring_size
    <3>1. d \in Nat \ {0} /\ d < ring_size
      BY MaxDelay, RingSlots
    <3> DEFINE a == abs_t + d
    <3>2. a \in Nat /\ a - abs_t < ring_size /\ abs_t - a < ring_size /\ a # abs_t
      BY <1>3, <3>1, RingSlots
    <3> HIDE DEF a
    <3>3. a % ring_size # abs_t % ring_size
      BY <1>3, <3>2, RingSlots, ModuloApart
    <3>4. a % ring_size \in RingSlot
      BY <3>2, RingSlots
    <3>5. QED
      BY <3>3, <3>4 DEF a
  <2>4. ring'[i][SlotFor(d)'] = ring[i][(abs_t + d) % ring_size]
    <3>1. ring[i] = [s \in RingSlot |-> ring[i][s]]
      BY DEF Slotted
    <3>2. ring'[i] = [ring[i] EXCEPT ![abs_t % ring_size] = Blank(i)]
      BY <1>1 DEF ClearedSlot
    <3> DEFINE s == (abs_t + d) % ring_size
    <3> HIDE DEF s
    <3>3. s \in RingSlot /\ s # abs_t % ring_size
      BY <2>3 DEF s
    <3>4. s \in DOMAIN ring[i]
      BY <3>1, <3>3
    <3>5. ring'[i][s] = ring[i][s]
      BY <3>2, <3>3, <3>4
    <3>6. QED
      BY <2>2, <3>5 DEF s
  <2>5. CASE d = max_delay
    BY <1>1, <2>1, <2>4, <2>5 DEF Slotted
  <2>6. CASE d # max_delay
    <3>1. d + 1 \in 1 .. max_delay /\ abs_t + (d + 1) - 1 = abs_t + d
      BY <1>3, <2>6, MaxDelay
    <3>2. SlotFor(d + 1) = (abs_t + d) % ring_size
      BY <1>1, <3>1 DEF SlotFor
    <3>3. Due[i][d + 1] = ring[i][SlotFor(d + 1)]
      <4> DEFINE e == d + 1
      <4>1. e \in 1 .. max_delay
        BY <3>1
      <4> HIDE DEF e
      <4>2. Due = [j \in Pe |-> [k \in 1 .. max_delay |-> ring[j][SlotFor(k)]]]
        BY <1>1, <1>3, DueBetween
      <4>3. Due[i][e] = ring[i][SlotFor(e)]
        BY <4>1, <4>2
      <4>4. QED
        BY <4>3 DEF e
    <3>4. QED
      BY <2>1, <2>4, <2>6, <3>2, <3>3
  <2>7. QED
    BY <2>1, <2>5, <2>6
<1>5. ASSUME NEW i \in Pe, NEW d \in 1 .. max_delay
      PROVE  received(Image, i, Skipped(i)', ring'[i][SlotFor(d)'], Flights(Mesh', BoundFor(i, d)))
               = received(Image, i, SkippedIn(soma', i),
                          IF d = max_delay THEN Blank(i) ELSE Due[i][d + 1],
                          Arriving(soma', i, d))
  <2> DEFINE before == IF d = max_delay THEN Blank(i) ELSE Due[i][d + 1]
  <2>1. Skipped(i)' = SkippedIn(soma', i) /\ ring'[i][SlotFor(d)'] = before
    BY <1>4
  <2> HIDE DEF before
  <2>2. received(Image, i, SkippedIn(soma', i), before, Flights(Mesh', BoundFor(i, d)))
          = received(Image, i, SkippedIn(soma', i), before, Arriving(soma', i, d))
    BY <1>1, <1>2, PacketsArrive
  <2>3. QED
    BY <2>1, <2>2 DEF before
<1>6. QED
  BY <1>5, DueNext DEF SentOn

-----------------------------------------------------------------------------
(* The attention block's queue, filled up in front with what it gives until it
   holds a block's delay. *)
Padding(m, a) == [k \in 1 .. m |-> a]

(* An element comes in behind, and a place in front is lost. *)
Shifts(m, a, q, x) ==
  /\ Head(Padding(m, a) \o q) = a
  /\ Append(Tail(Padding(m, a) \o q), x) = Padding(m - 1, a) \o Append(q, x)

LEMMA Padded ==
  ASSUME NEW S, NEW a \in S, NEW q \in Seq(S), NEW x \in S
  PROVE  /\ Padding(0, a) \o q = q
         /\ \A m \in Nat \ {0} : Shifts(m, a, q, x)
<1>1. \A m \in Nat : Padding(m, a) \in Seq(S) /\ Len(Padding(m, a)) = m
                     /\ \A k \in 1 .. m : Padding(m, a)[k] = a
  <2> SUFFICES ASSUME NEW m \in Nat
               PROVE  /\ Padding(m, a) \in Seq(S) /\ Len(Padding(m, a)) = m
                      /\ \A k \in 1 .. m : Padding(m, a)[k] = a
    OBVIOUS
  <2> DEFINE p == Padding(m, a)
  <2>1. p \in [1 .. m -> S] /\ \A k \in 1 .. m : p[k] = a
    BY DEF Padding
  <2> HIDE DEF p
  <2>2. p \in Seq(S)
    BY <2>1, SeqDef
  <2>3. Len(p) = m
    BY <2>1, <2>2, LenProperties
  <2>4. QED
    BY <2>1, <2>2, <2>3 DEF p
<1>2. Padding(0, a) \o q = q
  <2> DEFINE p == Padding(0, a)
  <2>1. p \in Seq(S) /\ Len(p) = 0
    BY <1>1
  <2> HIDE DEF p
  <2>2. p = << >>
    BY <2>1, EmptySeq
  <2>3. p \o q = q
    BY <2>2, ConcatEmptySeq
  <2>4. QED
    BY <2>3 DEF p
<1>3. ASSUME NEW m \in Nat \ {0}
      PROVE  Shifts(m, a, q, x)
  <2> DEFINE p == Padding(m, a)
             r == Padding(m - 1, a)
             s == p \o q
             u == Append(Tail(s), x)
             v == r \o Append(q, x)
             n == Len(q)
  <2>1. /\ p \in Seq(S) /\ Len(p) = m /\ \A k \in 1 .. m : p[k] = a
        /\ r \in Seq(S) /\ Len(r) = m - 1 /\ \A k \in 1 .. m - 1 : r[k] = a
    BY <1>1
  <2> HIDE DEF p, r
  <2>2. s \in Seq(S) /\ Len(s) = m + n /\ n \in Nat
        /\ \A k \in 1 .. m + n : s[k] = IF k <= m THEN a ELSE q[k - m]
    BY <2>1
  <2> HIDE DEF s
  <2>3. Head(s) = a
    BY <2>2
  <2>4. Tail(s) \in Seq(S) /\ Len(Tail(s)) = m + n - 1
        /\ \A k \in 1 .. m + n - 1 : Tail(s)[k] = s[k + 1]
    BY <2>2
  <2>5. u \in Seq(S) /\ Len(u) = m + n
        /\ \A k \in 1 .. m + n : u[k] = IF k = m + n THEN x ELSE s[k + 1]
    BY <2>2, <2>4
  <2> DEFINE w == Append(q, x)
  <2>6. w \in Seq(S) /\ Len(w) = n + 1 /\ \A k \in 1 .. n + 1 : w[k] = IF k = n + 1 THEN x ELSE q[k]
    BY <2>2
  <2> HIDE DEF w, n
  <2>7. v \in Seq(S) /\ Len(v) = m + n
        /\ \A k \in 1 .. m + n : v[k] = IF k <= m - 1 THEN a ELSE w[k - (m - 1)]
    <3>1. v = r \o w
      BY DEF v, w
    <3> HIDE DEF v
    <3>2. /\ v \in Seq(S) /\ Len(v) = (m - 1) + (n + 1)
          /\ \A k \in 1 .. (m - 1) + (n + 1) : v[k] = IF k <= m - 1 THEN r[k] ELSE w[k - (m - 1)]
      BY <2>1, <2>6, <3>1, ConcatProperties
    <3>3. (m - 1) + (n + 1) = m + n
      BY <2>2
    <3>4. \A k \in 1 .. m + n : k <= m - 1 => k \in 1 .. m - 1
      OBVIOUS
    <3>5. QED
      BY <2>1, <3>2, <3>3, <3>4
  <2> HIDE DEF u, v
  <2>8. ASSUME NEW k \in 1 .. m + n PROVE u[k] = v[k]
    <3>1. CASE k <= m - 1
      <4>1. k # m + n /\ k + 1 \in 1 .. m + n /\ k + 1 <= m
        BY <2>2, <3>1
      <4>2. QED
        BY <2>2, <2>5, <2>7, <3>1, <4>1
    <3>2. CASE ~(k <= m - 1)
      <4> DEFINE h == k - (m - 1)
      <4>1. h \in 1 .. n + 1 /\ (k = m + n <=> h = n + 1)
        BY <2>2, <3>2
      <4>2. k # m + n => k + 1 \in 1 .. m + n /\ ~(k + 1 <= m) /\ (k + 1) - m = h
        BY <2>2, <3>2
      <4> HIDE DEF h
      <4>3. v[k] = w[h]
        BY <2>7, <3>2 DEF h
      <4>4. QED
        BY <2>2, <2>5, <2>6, <4>1, <4>2, <4>3
    <3>3. QED
      BY <3>1, <3>2
  <2>9. u = v
    BY <2>2, <2>5, <2>7, <2>8, SeqEqual
  <2>10. QED
    BY <2>3, <2>9 DEF Shifts, s, p, r, u, v
<1>4. QED
  BY <1>2, <1>3

LEMMA SsaIs ==
  ASSUME NEW c \in DOMAIN Coprocs
  PROVE  /\ Ssa[c] = Padding(Coprocs[c].delay - Len(buf[c]), NoAttention(Coprocs[c])) \o buf[c]
         /\ Ssa'[c] = Padding(Coprocs[c].delay - Len(buf'[c]), NoAttention(Coprocs[c])) \o buf'[c]
BY DEF Ssa, Padding

(* What is left of a block's queue when the PEs behind it have been fed. *)
Rest(c) == IF filled(c) THEN Tail(buf[c]) ELSE buf[c]

LEMMA BufNext ==
  ASSUME Fed, NEW c \in DOMAIN Coprocs, NEW out \in Outputs(c), NEW b,
         b = Append(Rest(c), out)
  PROVE  /\ b \in Seq(Outputs(c)) /\ Len(b) <= Coprocs[c].delay
         /\ ~filled(c) \/ Len(b) = Coprocs[c].delay
         /\ filled(c) => Ssa[c] = buf[c] /\ buf[c] # << >>
         /\ ~filled(c) => Head(Ssa[c]) = NoAttention(Coprocs[c])
         /\ Padding(Coprocs[c].delay - Len(b), NoAttention(Coprocs[c])) \o b
              = Append(Tail(Ssa[c]), out)
<1> DEFINE a == NoAttention(Coprocs[c])
           q == buf[c]
           D == Coprocs[c].delay
           S == Outputs(c) \cup {a}
<1>1. q \in Seq(Outputs(c)) /\ Len(q) <= D /\ D \in Nat \ {0}
  BY FeedAssumption DEF Fed
<1>2. filled(c) <=> Len(q) >= D
  BY DEF filled
<1>3. Ssa[c] = Padding(D - Len(q), a) \o q
  BY SsaIs
<1> HIDE DEF a, q, D
<1>4. Rest(c) = IF filled(c) THEN Tail(q) ELSE q
  BY DEF Rest, q
<1>5. q \in Seq(S) /\ a \in S /\ out \in S
  <2>1. \A k \in DOMAIN q : q[k] \in S
    BY <1>1
  <2> HIDE DEF S
  <2>2. q \in Seq(S)
    BY <1>1, <2>1, SeqOver
  <2>3. QED
    BY <2>2 DEF S
<1> HIDE DEF S
<1>6. CASE filled(c)
  <2>1. Len(q) = D /\ D - Len(q) = 0
    BY <1>1, <1>2, <1>6
  <2>2. Ssa[c] = q
    <3>1. Ssa[c] = Padding(0, a) \o q
      BY <1>3, <2>1
    <3>2. Padding(0, a) \o q = q
      BY <1>5, Padded
    <3>3. QED
      BY <3>1, <3>2
  <2>3. q # << >>
    BY <1>1, <2>1
  <2>4. Tail(q) \in Seq(Outputs(c)) /\ Len(Tail(q)) = D - 1
    BY <1>1, <2>1, <2>3, HeadTailProperties
  <2>5. b = Append(Tail(q), out)
    BY <1>4, <1>6
  <2>6. b \in Seq(Outputs(c)) /\ Len(b) = D
    <3>1. b \in Seq(Outputs(c)) /\ Len(b) = (D - 1) + 1
      BY <1>1, <2>4, <2>5
    <3>2. QED
      BY <1>1, <3>1
  <2>7. b \in Seq(S)
    <3>1. Tail(q) \in Seq(S)
      BY <1>5, <2>3, HeadTailProperties
    <3>2. QED
      BY <1>5, <2>5, <3>1
  <2>8. Padding(0, a) \o b = b /\ D - Len(b) = 0
    <3>1. Padding(0, a) \o b = b
      BY <1>5, <2>7, Padded
    <3>2. QED
      BY <1>1, <2>6, <3>1
  <2>9. D - Len(b) = D - D
    BY <2>6
  <2>10. Padding(D - Len(b), a) \o b = Append(Tail(Ssa[c]), out)
    BY <2>2, <2>5, <2>8
  <2>11. Len(b) <= D
    BY <1>1, <2>6
  <2>12. QED
    BY <1>6, <2>2, <2>3, <2>6, <2>10, <2>11 DEF a, q, D
<1>7. CASE ~filled(c)
  <2> DEFINE m == D - Len(q)
  <2>1. m \in Nat \ {0} /\ Len(q) \in Nat
    BY <1>1, <1>2, <1>7
  <2>2. b = Append(q, out)
    BY <1>4, <1>7
  <2>3. b \in Seq(Outputs(c)) /\ Len(b) = Len(q) + 1
    BY <1>1, <2>2
  <2>4. D - Len(b) = m - 1 /\ Len(b) <= D
    BY <1>1, <2>1, <2>3
  <2> HIDE DEF m
  <2>5. Ssa[c] = Padding(m, a) \o q
    BY <1>3 DEF m
  <2>6. /\ Head(Padding(m, a) \o q) = a
        /\ Append(Tail(Padding(m, a) \o q), out) = Padding(m - 1, a) \o Append(q, out)
    <3>1. Shifts(m, a, q, out)
      BY <1>5, <2>1, Padded
    <3>2. QED
      BY <3>1 DEF Shifts
  <2>7. QED
    BY <1>7, <2>2, <2>3, <2>4, <2>5, <2>6 DEF a, q, D
<1>8. QED
  BY <1>6, <1>7

(* Before there is anything to project, the projection is as good as no input. *)
LEMMA NothingProjected ==
  ASSUME NEW c \in DOMAIN Coprocs, NEW i \in Coprocs[c].proj_pes
  PROVE  projection(Image, i, Coprocs[c], NoAttention(Coprocs[c])) = [n \in Neurons(i) |-> 0]
<1> DEFINE u == Coprocs[c]
           E == 0 .. u.embed - 1
           w(n) == [e \in E |-> NoAttention(u)[<<n \div width(Image, i, u), e>>]
                                  * Image[i].weights[(n % width(Image, i, u)) * u.embed + e]]
<1>1. ASSUME NEW n \in Neurons(i) PROVE w(n) = [e \in E |-> 0]
  <2>1. n \div width(Image, i, u) \in 0 .. u.n_tok - 1
    BY FeedAssumption
  <2>2. ASSUME NEW e \in E PROVE w(n)[e] = 0
    <3>1. Image[i].weights[(n % width(Image, i, u)) * u.embed + e] \in Int
      BY FeedAssumption
    <3>2. NoAttention(u)[<<n \div width(Image, i, u), e>>] = 0
      BY <2>1 DEF NoAttention
    <3> DEFINE x == Image[i].weights[(n % width(Image, i, u)) * u.embed + e]
               y == NoAttention(u)[<<n \div width(Image, i, u), e>>]
    <3>3. w(n)[e] = y * x
      OBVIOUS
    <3> HIDE DEF x, y, w
    <3>4. x \in Int /\ y = 0
      BY <3>1, <3>2 DEF x, y
    <3>5. QED
      BY <3>3, <3>4
  <2>3. QED
    BY <2>2
<1>2. ASSUME NEW n \in Neurons(i) PROVE Total(w(n)) = 0
  <2> DEFINE v == w(n)
  <2>1. v = [e \in E |-> 0]
    BY <1>1
  <2>2. IsFiniteSet(E)
    <3>1. 0 \in Int /\ u.embed - 1 \in Int
      BY FeedAssumption
    <3>2. QED
      BY <3>1, FS_Interval
  <2> HIDE DEF v, E
  <2>3. v \in [E -> Int] /\ \A e \in E : v[e] = 0
    BY <2>1
  <2>4. Total(v) = 0
    BY <2>2, <2>3, TotalZero
  <2>5. QED
    BY <2>4 DEF v
<1> DEFINE sum(n) == Sets!MapThenSumSet(
                       LAMBDA e : NoAttention(u)[<<n \div width(Image, i, u), e>>]
                            * Image[i].weights[(n % width(Image, i, u)) * u.embed + e], E)
<1>3. projection(Image, i, u, NoAttention(u)) = [n \in Neurons(i) |-> sum(n)]
  BY DEF projection, Neurons
<1>4. ASSUME NEW n \in Neurons(i) PROVE sum(n) = Total(w(n))
  <2> DEFINE share(e) == NoAttention(u)[<<n \div width(Image, i, u), e>>]
                          * Image[i].weights[(n % width(Image, i, u)) * u.embed + e]
             v == [e \in E |-> share(e)]
             Q(r) == r = [s \in SUBSET E |-> IF s = {} THEN 0
                            ELSE LET x == CHOOSE x \in s : TRUE IN share(x) + r[s \ {x}]]
  <2>1. sum(n) = (CHOOSE r : Q(r))[E]
    BY DEF Sets!MapThenSumSet, Sets!MapThenFoldSet
  <2>2. \A r : Q(r) <=> IsSums(v, r)
    <3> HIDE DEF share, E
    <3>1. QED
      BY DEF IsSums, Pick
  <2> HIDE DEF Q
  <2>3. (CHOOSE r : Q(r)) = (CHOOSE r : IsSums(v, r))
    BY <2>2
  <2>4. DOMAIN v = E /\ v = w(n)
    OBVIOUS
  <2> HIDE DEF sum, v, E, w
  <2>5. sum(n) = Total(v)
    BY <2>1, <2>3, <2>4 DEF Total, Sums
  <2>6. QED
    BY <2>4, <2>5
<1> HIDE DEF sum, w
<1>5. QED
  BY <1>2, <1>3, <1>4

LEMMA SsaHead ==
  ASSUME Fed, NEW c \in DOMAIN Coprocs
  PROVE  /\ filled(c) => Ssa[c] = buf[c]
         /\ ~filled(c) => Head(Ssa[c]) = NoAttention(Coprocs[c])
<1> DEFINE out == attention(Image, Coprocs[c], [i \in Pe |-> {}])
           b == Append(Rest(c), out)
<1>1. out \in Outputs(c)
  <2>1. [i \in Pe |-> {}] \in [Pe -> SUBSET Nat]
    OBVIOUS
  <2>2. QED
    BY <2>1 DEF Outputs
<1> HIDE DEF out
<1>2. b = Append(Rest(c), out)
  OBVIOUS
<1> HIDE DEF b
<1>3. QED
  BY <1>1, <1>2, BufNext

(* What drives a PE at a timestep's begin is what drives it in the network. *)
LEMMA BeginDrive ==
  ASSUME Basics, SilentBetween, Slotted, Fed, Begin, NEW i \in Pe
  PROVE  (IF is_input[i] THEN FedCurrent(i) ELSE ring[i][abs_t % ring_size].current) = LineDrive(i)
<1>1. /\ abs_t \in Timestep /\ phase = "between" /\ ~deadlock /\ Begun = abs_t
  BY BeginIs
<1>2. RunnerTypeOK /\ abs_t \in Nat
  BY DEF Basics, RunnerTypeOK
<1>3. /\ is_input[i] <=> i \in DOMAIN input_seq \cup ProjectionPes
      /\ input_seq \in InputSeqs
  BY DEF Fed
<1>4. i \in ProjectionPes <=> \E c \in DOMAIN Coprocs : i \in Coprocs[c].proj_pes
  BY DEF ProjectionPes, projection_pes
<1>5. CASE i \in ProjectionPes
  <2> DEFINE P(c) == i \in Coprocs[c].proj_pes
             c == CHOOSE x \in DOMAIN Coprocs : P(x)
  <2>1. c \in DOMAIN Coprocs /\ P(c)
    BY <1>4, <1>5
  <2>2. \A e \in DOMAIN Coprocs : P(e) => e = c
    BY <2>1, FeedAssumption
  <2>3. LineDrive(i) = projection(Image, i, Coprocs[c], Head(Ssa[c]))
    BY <1>5 DEF LineDrive
  <2>4. is_input[i] /\ i \notin DOMAIN input_seq
    BY <1>3, <1>5, FeedAssumption
  <2> HIDE DEF c
  <2>5. CASE filled(c)
    <3>1. \E e \in DOMAIN Coprocs : i \in Coprocs[e].proj_pes /\ filled(e)
      BY <2>1, <2>5
    <3>2. (CHOOSE e \in DOMAIN Coprocs : i \in Coprocs[e].proj_pes /\ filled(e)) = c
      BY <2>1, <2>2, <2>5
    <3>3. FedCurrent(i) = projection(Image, i, Coprocs[c], Head(buf[c]))
      BY <3>1, <3>2 DEF FedCurrent
    <3>4. Ssa[c] = buf[c]
      BY <2>1, <2>5, SsaHead
    <3>5. QED
      BY <2>3, <2>4, <3>3, <3>4
  <2>6. CASE ~filled(c)
    <3>1. ~ \E e \in DOMAIN Coprocs : i \in Coprocs[e].proj_pes /\ filled(e)
      BY <2>2, <2>6
    <3>2. FedCurrent(i) = input_current[i]
      BY <2>4, <3>1 DEF FedCurrent
    <3>3. input_current[i] = [n \in Neurons(i) |-> 0]
      BY <2>1, <2>6 DEF Fed
    <3>4. Head(Ssa[c]) = NoAttention(Coprocs[c])
      BY <2>1, <2>6, SsaHead
    <3>5. projection(Image, i, Coprocs[c], NoAttention(Coprocs[c])) = [n \in Neurons(i) |-> 0]
      BY <2>1, NothingProjected
    <3>6. QED
      BY <2>3, <2>4, <3>2, <3>3, <3>4, <3>5
  <2>7. QED
    BY <2>5, <2>6
<1>6. CASE i \notin ProjectionPes /\ i \in DOMAIN input_seq
  <2>1. ~ \E e \in DOMAIN Coprocs : i \in Coprocs[e].proj_pes /\ filled(e)
    BY <1>4, <1>6
  <2>2. FedCurrent(i) = frame(i)
    BY <1>6, <2>1 DEF FedCurrent
  <2>3. LineDrive(i) = input_seq[i][(Begun % Len(input_seq[i])) + 1]
    BY <1>6 DEF LineDrive
  <2>4. QED
    BY <1>1, <1>3, <1>6, <2>2, <2>3 DEF frame
<1>7. CASE i \notin ProjectionPes /\ i \notin DOMAIN input_seq
  <2>1. LineDrive(i) = Due[i][1].current
    BY <1>7 DEF LineDrive
  <2>2. Due[i][1] = ring[i][SlotFor(1)]
    <3>1. Due = [j \in Pe |-> [k \in 1 .. max_delay |-> ring[j][SlotFor(k)]]]
      BY <1>1, <1>2, DueBetween
    <3>2. 1 \in 1 .. max_delay
      BY MaxDelay
    <3>3. QED
      BY <3>1, <3>2
  <2>3. SlotFor(1) = abs_t % ring_size
    <3>1. abs_t + 1 - 1 = abs_t
      BY <1>2
    <3>2. QED
      BY <1>1, <3>1 DEF SlotFor
  <2>4. QED
    BY <1>3, <1>7, <2>1, <2>2, <2>3
<1>8. QED
  BY <1>5, <1>6, <1>7

(* What the blocks' queues become, once the PEs have fired. *)
LEMMA BeginBuf ==
  ASSUME Basics, Fed, Begin, \A i \in Pe : soma'[i].fired \subseteq Neurons(i),
         NEW c \in DOMAIN Coprocs
  PROVE  LET out == attention(Image, Coprocs[c], [i \in Pe |-> soma'[i].fired])
         IN  /\ out \in Outputs(c)
             /\ DOMAIN buf' = DOMAIN Coprocs
             /\ buf'[c] = Append(Rest(c), out)
             /\ Ssa'[c] = Append(Tail(Ssa[c]), out)
<1> DEFINE fired == [i \in Pe |-> soma'[i].fired]
           out == attention(Image, Coprocs[c], fired)
<1>1. fired \in [Pe -> SUBSET Nat]
  <2>1. ASSUME NEW i \in Pe PROVE soma'[i].fired \in SUBSET Nat
    <3>1. Neurons(i) \subseteq Nat
      BY DEF Neurons, neurons
    <3>2. QED
      BY <3>1
  <2>2. QED
    BY <2>1
<1>2. out \in Outputs(c)
  <2> HIDE DEF fired
  <2>1. QED
    BY <1>1 DEF Outputs
<1>3. buf' = [e \in DOMAIN Coprocs |->
              coproc_read(e, IF filled(e) THEN Tail(buf[e]) ELSE buf[e])]
  BY BeginIs
<1>4. buf'[c] = Append(Rest(c), out) /\ DOMAIN buf' = DOMAIN Coprocs
  BY <1>3 DEF coproc_read, Rest
<1> HIDE DEF fired, out
<1>5. Padding(Coprocs[c].delay - Len(buf'[c]), NoAttention(Coprocs[c])) \o buf'[c]
        = Append(Tail(Ssa[c]), out)
  BY <1>2, <1>4, BufNext
<1>6. Ssa'[c] = Append(Tail(Ssa[c]), out)
  BY <1>5, SsaIs
<1>7. QED
  BY <1>2, <1>4, <1>6 DEF out, fired

LEMMA BeginLine ==
  ASSUME Basics, RunnerTypeOK', SilentBetween, Slotted, Fed, Firing, Begin,
         \A i \in Pe : soma'[i].fired \subseteq Neurons(i)
  PROVE  Synchronous!Step
<1>1. /\ Begun' = Begun + 1 /\ input_seq' = input_seq
      /\ soma' = [i \in Pe |-> Soma(i, IF is_input[i] THEN FedCurrent(i)
                                          ELSE ring[i][abs_t % ring_size].current)]
      /\ fire_counts' = [i \in Pe |-> [n \in Neurons(i) |->
              fire_counts[i][n] + IF n \in soma'[i].fired THEN 1 ELSE 0]]
  BY BeginIs
<1>2. soma' = [i \in Pe |-> Soma(i, LineDrive(i))]
  BY <1>1, BeginDrive
<1>3. fire_counts' = [i \in DOMAIN fire_counts |-> [n \in DOMAIN fire_counts[i] |->
                           fire_counts[i][n] + IF n \in soma'[i].fired THEN 1 ELSE 0]]
  <2>1. DOMAIN fire_counts = Pe /\ \A i \in Pe : DOMAIN fire_counts[i] = Neurons(i)
    <3>1. fire_counts = [i \in Pe |-> [n \in Neurons(i) |-> fire_counts[i][n]]]
      BY DEF Firing
    <3>2. DOMAIN fire_counts = Pe
      BY <3>1
    <3>3. ASSUME NEW i \in Pe PROVE DOMAIN fire_counts[i] = Neurons(i)
      <4>1. fire_counts[i] = [n \in Neurons(i) |-> fire_counts[i][n]]
        BY <3>1
      <4>2. QED
        BY <4>1
    <3>4. QED
      BY <3>2, <3>3
  <2>2. QED
    BY <1>1, <2>1
<1>4. Due' = SentOn(soma')
  BY BeginDue
<1>5. \A c \in DOMAIN Coprocs :
           Ssa'[c] = Append(Tail(Ssa[c]),
                            attention(Image, Coprocs[c], [i \in Pe |-> soma'[i].fired]))
  BY BeginBuf
<1>6. QED
  BY <1>1, <1>2, <1>3, <1>4, <1>5, StepIs

-----------------------------------------------------------------------------
(* Handed is kept: a router ejects at most once in a cycle, to the PE it stands
   at, and the PE has drained what it was handed before. *)
LEMMA InitHanded == Init => Handed
<1> SUFFICES ASSUME Init PROVE Handed
  OBVIOUS
<1>1. \A n \in Node : eject[n] = << >> /\ ejectNxt[n] = << >>
  BY InitEmpty
<1>2. QED
  BY <1>1 DEF Handed, OneFor

LEMMA ComputeHanded ==
  ASSUME RunnerTypeOK, Handed, NEW r \in Node, RouterCompute(r)
  PROVE  Handed'
<1>1. Compute(r) /\ ran = NumPe + to_id(r) /\ ran' = ran + 1
  BY Places DEF RouterCompute
<1>2. eject' = eject /\ RouterTypeOK
  BY <1>1 DEF Compute, RunnerTypeOK
<1>3. ejectNxt[r] = << >>
  <2>1. ran <= NumPe + to_id(r)
    BY <1>1, Ids
  <2>2. QED
    BY <2>1 DEF Handed
<1>4. \A n \in Node : n # r => ejectNxt'[n] = ejectNxt[n]
  BY <1>1, <1>2 DEF Compute, RouterTypeOK
<1>5. OneFor(r, ejectNxt'[r])
  <2>1. CASE Local \in Granted(r)
    <3>1. ejectNxt'[r] = Append(ejectNxt[r], Sent(r, Local))
      BY <1>1, <1>2, <2>1 DEF Compute, RouterTypeOK
    <3>2. ejectNxt'[r] = <<Sent(r, Local)>>
      BY <1>3, <3>1
    <3>3. Sent(r, Local) \in Flit /\ route_xy(r, Sent(r, Local).dst) = Local
      BY <1>2, <2>1, SentIsFlit
    <3>4. Sent(r, Local).dst = r
      BY <3>3, FlitAssumption, RouteOnMesh
    <3>5. QED
      BY <3>2, <3>3, <3>4 DEF OneFor
  <2>2. CASE Local \notin Granted(r)
    <3>1. ejectNxt'[r] = ejectNxt[r]
      BY <1>1, <1>2, <2>2 DEF Compute, RouterTypeOK
    <3>2. QED
      BY <1>3, <3>1 DEF OneFor
  <2>3. QED
    BY <2>1, <2>2
<1>6. ASSUME NEW n \in Node
      PROVE  /\ to_id(n) \in Pe /\ to_id(n) < ran' /\ ran' <= NumPe + Cells + to_id(n)
                  => to_id(n) < ran /\ ran <= NumPe + Cells + to_id(n)
             /\ ran' <= NumPe + to_id(n) => n # r /\ ran <= NumPe + to_id(n)
  <2>1. NumPe \in Nat /\ Cells \in Nat /\ to_id(n) \in Nat /\ to_id(r) \in Nat
        /\ (to_id(n) \in Pe => to_id(n) < NumPe)
    BY Ids
  <2> DEFINE x == to_id(n)
             y == to_id(r)
  <2>2. ran = NumPe + y /\ ran' = NumPe + y + 1
    BY <1>1
  <2>3. x = y => ~(ran' <= NumPe + x)
    BY <2>1, <2>2
  <2> HIDE DEF x, y
  <2>4. /\ x \in Pe /\ x < ran' /\ ran' <= NumPe + Cells + x => x < ran /\ ran <= NumPe + Cells + x
        /\ ran' <= NumPe + x => ran <= NumPe + x
    BY <2>1, <2>2 DEF x, y
  <2>5. QED
    BY <2>3, <2>4 DEF x, y
<1>7. QED
  BY <1>2, <1>4, <1>5, <1>6 DEF Handed

LEMMA CommitEjectHanded ==
  ASSUME RunnerTypeOK, Handed, NEW i \in Pe, PeCommit(i)
  PROVE  Handed'
<1> DEFINE m == to_coord(i)
<1>1. CommitEject(m) /\ ran = NumPe + Cells + i /\ ran' = ran + 1
  BY Places DEF PeCommit
<1>2. m \in Node /\ to_id(m) = i
  BY Ids
<1>3. NumPe \in Nat /\ Cells \in Nat /\ i \in Nat /\ i < NumPe
      /\ \A n \in Node : to_id(n) \in Nat /\ (to_id(n) \in Pe => to_id(n) < NumPe) /\ to_id(n) < Cells
  BY Ids
<1>4. eject[m] = << >>
  <2>1. i < ran /\ ran <= NumPe + Cells + i
    BY <1>1, <1>3
  <2>2. QED
    BY <1>2, <2>1 DEF Handed
<1>5. eject \in [Node -> Seq(Flit)] /\ ejectNxt \in [Node -> Seq(Flit)]
  BY DEF RunnerTypeOK, RouterTypeOK
<1>6. /\ eject'[m] = ejectNxt[m] /\ ejectNxt'[m] = << >>
      /\ \A n \in Node : n # m => eject'[n] = eject[n] /\ ejectNxt'[n] = ejectNxt[n]
  <2>1. /\ eject' = [eject EXCEPT ![m] = eject[m] \o ejectNxt[m]]
        /\ ejectNxt' = [ejectNxt EXCEPT ![m] = << >>]
    BY <1>1 DEF CommitEject, Merge
  <2>2. eject[m] \o ejectNxt[m] = ejectNxt[m]
    BY <1>2, <1>4, <1>5, ConcatEmptySeq
  <2>3. QED
    BY <1>2, <1>5, <2>1, <2>2
<1>7. ASSUME NEW n \in Node
      PROVE  /\ to_id(n) \in Pe /\ to_id(n) < ran' /\ ran' <= NumPe + Cells + to_id(n)
                  => n # m /\ to_id(n) < ran /\ ran <= NumPe + Cells + to_id(n)
             /\ ~(ran' <= NumPe + to_id(n))
  <2> DEFINE x == to_id(n)
  <2>1. x = i => ~(ran' <= NumPe + Cells + x)
    BY <1>1, <1>3
  <2>2. x \in Nat /\ (x \in Pe => x < NumPe) /\ x < Cells
    BY <1>3
  <2> HIDE DEF x, m
  <2>3. /\ x \in Pe /\ x < ran' /\ ran' <= NumPe + Cells + x => x < ran /\ ran <= NumPe + Cells + x
        /\ ~(ran' <= NumPe + x)
    BY <1>1, <1>3, <2>2
  <2>4. n = m => x = i
    BY <1>2 DEF x
  <2>5. QED
    BY <2>1, <2>3, <2>4 DEF x
<1> HIDE DEF m
<1>8. ASSUME NEW n \in Node PROVE OneFor(n, eject'[n]) /\ OneFor(n, ejectNxt'[n])
  BY <1>6 DEF Handed, OneFor
<1>9. QED
  BY <1>6, <1>7, <1>8 DEF Handed

LEMMA PeComputeHanded ==
  ASSUME RunnerTypeOK, Handed, NEW i \in Pe, PeCompute(i)
  PROVE  Handed'
<1> DEFINE m == to_coord(i)
<1>1. ran = i /\ ran' = i + 1 /\ PeStep(i)
  BY Places DEF PeCompute
<1>2. m \in Node /\ to_id(m) = i
  BY Ids
<1>3. NumPe \in Nat /\ Cells \in Nat /\ i \in Nat /\ \A n \in Node : to_id(n) \in Nat
  BY Ids
<1>4. PICK fs : DrainAndInject(m, fs)
  BY <1>1, PeStepInjects
<1>5. eject \in [Node -> Seq(Flit)]
  BY DEF RunnerTypeOK, RouterTypeOK
<1>6. /\ eject'[m] = << >> /\ ejectNxt' = ejectNxt
      /\ \A n \in Node : n # m => eject'[n] = eject[n]
  BY <1>2, <1>4, <1>5 DEF DrainAndInject, Drained
<1>7. ASSUME NEW n \in Node
      PROVE  /\ to_id(n) < ran' /\ ran' <= NumPe + Cells + to_id(n) /\ n # m
                  => to_id(n) < ran /\ ran <= NumPe + Cells + to_id(n)
             /\ ran' <= NumPe + to_id(n) => ran <= NumPe + to_id(n)
  <2> DEFINE x == to_id(n)
  <2>1. x \in Nat
    BY <1>3
  <2>2. n # m => x # i
    BY Ids
  <2> HIDE DEF x, m
  <2>3. /\ x < ran' /\ ran' <= NumPe + Cells + x /\ n # m => x < ran /\ ran <= NumPe + Cells + x
        /\ ran' <= NumPe + x => ran <= NumPe + x
    BY <1>1, <1>3, <2>1, <2>2
  <2>4. QED
    BY <2>3 DEF x
<1> HIDE DEF m
<1>8. ASSUME NEW n \in Node PROVE OneFor(n, eject'[n]) /\ OneFor(n, ejectNxt'[n])
  BY <1>6 DEF Handed, OneFor
<1>9. QED
  BY <1>6, <1>7, <1>8 DEF Handed

LEMMA RouterCommitHanded ==
  ASSUME RunnerTypeOK, Handed, NEW r \in Node, RouterCommit(r)
  PROVE  Handed'
<1>1. Commit(r) /\ ran = 2 * NumPe + Cells + to_id(r) /\ ran' = ran + 1
  BY Places DEF RouterCommit
<1>2. UNCHANGED <<eject, ejectNxt>>
  BY <1>1 DEF Commit
<1>3. NumPe \in Nat /\ Cells \in Nat /\ to_id(r) \in Nat /\ NumPe >= 1 /\ NumPe <= Cells
      /\ \A n \in Node : to_id(n) \in Nat /\ to_id(n) < Cells /\ (to_id(n) \in Pe => to_id(n) < NumPe)
  BY Ids
<1>4. ASSUME NEW n \in Node
      PROVE  /\ to_id(n) \in Pe => ~(ran' <= NumPe + Cells + to_id(n))
             /\ ~(ran' <= NumPe + to_id(n))
  BY <1>1, <1>3
<1>5. QED
  BY <1>2, <1>4 DEF Handed

(* The steps between cycles. *)
LEMMA StillHanded ==
  ASSUME RunnerTypeOK, Handed, UNCHANGED <<eject, ejectNxt, ran>>
  PROVE  Handed'
BY DEF Handed

LEMMA NextCycleHanded ==
  ASSUME RunnerTypeOK, Handed, EjectHome, Swept, NextCycle
  PROVE  Handed'
<1>1. UNCHANGED <<eject, ejectNxt>> /\ ran = CycleLength /\ ran' = 0
  BY DEF NextCycle, InCycles, routerVars
<1>2. \A n \in Node : ejectNxt[n] = << >>
  <2> SUFFICES ASSUME NEW n \in Node PROVE ejectNxt[n] = << >>
    OBVIOUS
  <2>1. CASE to_id(n) \in Pe
    <3>1. NumPe + Cells + to_id(n) < ran
      BY <1>1, <2>1, Sweeps
    <3>2. to_coord(to_id(n)) = n
      BY Ids
    <3>3. QED
      BY <2>1, <3>1, <3>2 DEF Swept
  <2>2. CASE to_id(n) \notin Pe
    BY <2>2 DEF EjectHome
  <2>3. QED
    BY <2>1, <2>2
<1>3. \A n \in Node : ~(to_id(n) < 0)
  BY Ids
<1>4. QED
  BY <1>1, <1>2, <1>3 DEF Handed

LEMMA HandedStep ==
  ASSUME Basics, EjectHome, Swept, Handed, Next
  PROVE  Handed'
<1>1. RunnerTypeOK
  BY DEF Basics
<1>2. ASSUME NEW i \in Pe, PeCompute(i) PROVE Handed'
  BY <1>1, <1>2, PeComputeHanded
<1>3. ASSUME NEW i \in Pe, PeCommit(i) PROVE Handed'
  BY <1>1, <1>3, CommitEjectHanded
<1>4. ASSUME NEW r \in Node, RouterCompute(r) PROVE Handed'
  BY <1>1, <1>4, ComputeHanded
<1>5. ASSUME NEW r \in Node, RouterCommit(r) PROVE Handed'
  BY <1>1, <1>5, RouterCommitHanded
<1>6. ASSUME Begin PROVE Handed'
  <2>1. UNCHANGED <<eject, ejectNxt, ran>>
    BY <1>6, BeginParts DEF routerVars
  <2>2. QED
    BY <1>1, <2>1, StillHanded
<1>7. ASSUME GiveUp \/ BeginDrain \/ EndTimestep \/ reset_counts \/ Finish PROVE Handed'
  <2>1. UNCHANGED <<eject, ejectNxt, ran>>
    BY <1>7 DEF GiveUp, BeginDrain, EndTimestep, reset_counts, Finish, routerVars
  <2>2. QED
    BY <1>1, <2>1, StillHanded
<1>8. ASSUME NextCycle PROVE Handed'
  BY <1>1, <1>8, NextCycleHanded
<1>9. QED
  BY <1>2, <1>3, <1>4, <1>5, <1>6, <1>7, <1>8 DEF Next

-----------------------------------------------------------------------------
(* What the steps leave alone. *)
OthersStep ==
  \/ \E i \in Pe : PeCompute(i) \/ PeCommit(i)
  \/ \E r \in Node : RouterCompute(r) \/ RouterCommit(r)
  \/ GiveUp \/ NextCycle \/ BeginDrain \/ EndTimestep \/ Finish

LEMMA NextIs == Next <=> OthersStep \/ Begin \/ reset_counts
BY DEF Next, OthersStep

LEMMA OthersKeep ==
  ASSUME OthersStep
  PROVE  UNCHANGED <<input_seq, buf, neuronVars>>
<1>1. ASSUME NEW i \in Pe, PeCompute(i) PROVE UNCHANGED <<input_seq, buf, neuronVars>>
  BY <1>1 DEF PeCompute, Take, PeStep
<1>2. ASSUME NEW i \in Pe, PeCommit(i) PROVE UNCHANGED <<input_seq, buf, neuronVars>>
  BY <1>2 DEF PeCommit, Take, networkPeVars
<1>3. ASSUME NEW r \in Node, RouterCompute(r) \/ RouterCommit(r)
      PROVE  UNCHANGED <<input_seq, buf, neuronVars>>
  BY <1>3 DEF RouterCompute, RouterCommit, Take, networkPeVars
<1>4. ASSUME GiveUp \/ NextCycle \/ BeginDrain \/ EndTimestep \/ Finish
      PROVE  UNCHANGED <<input_seq, buf, neuronVars>>
  BY <1>4 DEF GiveUp, NextCycle, BeginDrain, EndTimestep, Finish, networkPeVars
<1>5. QED
  BY <1>1, <1>2, <1>3, <1>4 DEF OthersStep

LEMMA ResetKeeps ==
  ASSUME reset_counts
  PROVE  /\ UNCHANGED <<input_seq, buf, ring, is_input, input_current, soma, phase, abs_t>>
         /\ fire_counts' = [i \in Pe |-> [n \in Neurons(i) |-> 0]]
BY DEF reset_counts, ResetFireCounts

-----------------------------------------------------------------------------
(* Firing is kept: only neurons of a PE fire. *)
LEMMA InitFiring == Init => Firing
<1> SUFFICES ASSUME Init PROVE Firing
  OBVIOUS
<1>1. /\ soma = [i \in Pe |-> IF UseDnp THEN EmptyStore ELSE DenseStore(Neurons(i))]
      /\ fire_counts = [i \in Pe |-> [n \in Neurons(i) |-> 0]]
  BY DEF Init, NetworkPeInit
<1>2. \A i \in Pe : /\ soma[i].fired = {}
                    /\ UseDnp => held(soma[i]) = {}
  BY <1>1 DEF EmptyStore, DenseStore, held
<1>3. soma = [i \in Pe |-> soma[i]]
  BY <1>1
<1>4. fire_counts = [i \in Pe |-> [n \in Neurons(i) |-> fire_counts[i][n]]]
  BY <1>1
<1>5. QED
  BY <1>2, <1>3, <1>4 DEF Firing

LEMMA DriveType ==
  ASSUME Basics, SilentBetween, Slotted, Fed, Begin, NEW i \in Pe
  PROVE  DOMAIN LineDrive(i) = Neurons(i)
<1>1. /\ abs_t \in Timestep /\ phase = "between" /\ ~deadlock /\ Begun = abs_t
  BY BeginIs
<1>2. RunnerTypeOK /\ abs_t \in Nat
  BY DEF Basics, RunnerTypeOK
<1>3. CASE i \in ProjectionPes
  <2>1. \A u, o : DOMAIN projection(Image, i, u, o) = Neurons(i)
    BY DEF projection, Neurons
  <2>2. QED
    BY <1>3, <2>1 DEF LineDrive
<1>4. CASE i \notin ProjectionPes /\ i \in DOMAIN input_seq
  <2> DEFINE q == input_seq[i]
  <2>1. q # << >> /\ q \in Seq([Neurons(i) -> Int])
    BY <1>4, FeedAssumption DEF Fed
  <2>2. LineDrive(i) = q[(abs_t % Len(q)) + 1]
    BY <1>1, <1>4 DEF LineDrive
  <2> HIDE DEF q
  <2>3. Len(q) \in Nat /\ Len(q) # 0 /\ DOMAIN q = 1 .. Len(q)
    BY <2>1, LenProperties, EmptySeq
  <2> DEFINE m == Len(q)
             k == (abs_t % m) + 1
  <2>4. k \in 1 .. m
    <3>1. m \in Nat \ {0}
      BY <2>3
    <3> HIDE DEF m
    <3>2. QED
      BY <1>2, <3>1
  <2> HIDE DEF k
  <2>5. q[k] \in [Neurons(i) -> Int]
    BY <2>1, <2>4
  <2>6. QED
    BY <2>2, <2>5 DEF k
<1>5. CASE i \notin ProjectionPes /\ i \notin DOMAIN input_seq
  <2>1. LineDrive(i) = Due[i][1].current
    BY <1>5 DEF LineDrive
  <2>2. Due[i][1] = ring[i][SlotFor(1)]
    <3>1. Due = [j \in Pe |-> [k \in 1 .. max_delay |-> ring[j][SlotFor(k)]]]
      BY <1>1, <1>2, DueBetween
    <3>2. 1 \in 1 .. max_delay
      BY MaxDelay
    <3>3. QED
      BY <3>1, <3>2
  <2>3. SlotFor(1) \in RingSlot
    <3>1. abs_t + 1 - 1 \in Nat
      BY <1>2
    <3>2. QED
      BY <1>1, <3>1, RingSlots DEF SlotFor
  <2>4. ring[i][SlotFor(1)].current \in [neurons(Image, i) -> Int]
    BY <2>3 DEF Slotted, IsSlot
  <2>5. QED
    BY <2>1, <2>2, <2>4 DEF Neurons
<1>6. QED
  BY <1>3, <1>4, <1>5

LEMMA StoreStepFires ==
  ASSUME NEW s, NEW current, NEW nPhys, NEW N, held(s) \subseteq N, DOMAIN current = N
  PROVE  /\ StoreStep(s, current, nPhys).fired \subseteq N
         /\ held(StoreStep(s, current, nPhys)) \subseteq N
<1> DEFINE in == held(s) \cup Entering(s, current, nPhys)
<1>1. Entering(s, current, nPhys) \subseteq N
  BY DEF Entering
<1>2. StoreStep(s, current, nPhys).fired \subseteq in
  BY DEF StoreStep
<1>3. held(StoreStep(s, current, nPhys)) \subseteq in
  BY DEF StoreStep, held
<1>4. QED
  BY <1>1, <1>2, <1>3

LEMMA BeginFires ==
  ASSUME Basics, SilentBetween, Slotted, Fed, Firing, Begin, NEW i \in Pe
  PROVE  /\ soma'[i].fired \subseteq Neurons(i)
         /\ UseDnp => held(soma'[i]) \subseteq Neurons(i)
<1>1. soma'[i] = Soma(i, LineDrive(i))
  BY BeginIs, BeginDrive
<1>2. DOMAIN LineDrive(i) = Neurons(i)
  BY DriveType
<1>3. soma[i].fired \subseteq Neurons(i) /\ (UseDnp => held(soma[i]) \subseteq Neurons(i))
  BY DEF Firing
<1> DEFINE current == LineDrive(i)
<1> HIDE DEF current
<1>4. CASE i \in Inert
  <2>1. soma'[i] = soma[i]
    BY <1>1, <1>4 DEF Soma
  <2>2. QED
    BY <1>3, <2>1
<1>5. CASE i \notin Inert /\ UseDnp
  <2>1. soma'[i] = StoreStep(soma[i], current, Slots[i])
    BY <1>1, <1>5 DEF Soma, current
  <2>2. DOMAIN current = Neurons(i)
    BY <1>2 DEF current
  <2>3. QED
    BY <1>3, <1>5, <2>1, <2>2, StoreStepFires
<1>6. CASE i \notin Inert /\ ~UseDnp
  <2>1. soma'[i] = DenseStep(soma[i], current)
    BY <1>1, <1>6 DEF Soma, current
  <2>2. DOMAIN current = Neurons(i)
    BY <1>2 DEF current
  <2>3. DenseStep(soma[i], current).fired \subseteq DOMAIN current
    BY DEF DenseStep
  <2>4. QED
    BY <1>6, <2>1, <2>2, <2>3
<1>7. QED
  BY <1>4, <1>5, <1>6

LEMMA FiringStep ==
  ASSUME Basics, SilentBetween, Slotted, Fed, Firing, Next
  PROVE  Firing'
<1>1. CASE OthersStep
  <2>1. UNCHANGED <<soma, fire_counts>>
    BY <1>1, OthersKeep DEF neuronVars
  <2>2. QED
    BY <2>1 DEF Firing, held
<1>2. CASE reset_counts
  <2>1. soma' = soma /\ fire_counts' = [i \in Pe |-> [n \in Neurons(i) |-> 0]]
    BY <1>2, ResetKeeps
  <2>2. fire_counts' = [i \in Pe |-> [n \in Neurons(i) |-> fire_counts'[i][n]]]
    BY <2>1
  <2>3. QED
    BY <2>1, <2>2 DEF Firing, held
<1>3. CASE Begin
  <2>1. \A i \in Pe : /\ soma'[i].fired \subseteq Neurons(i)
                      /\ UseDnp => held(soma'[i]) \subseteq Neurons(i)
    BY <1>3, BeginFires
  <2>2. /\ DOMAIN soma' = Pe /\ soma' = [i \in DOMAIN soma' |-> soma'[i]]
    BY <1>3, BeginIs
  <2>3. fire_counts' = [i \in Pe |-> [n \in Neurons(i) |-> fire_counts'[i][n]]]
    <3> DEFINE f(i) == [n \in Neurons(i) |->
              fire_counts[i][n] + IF n \in soma'[i].fired THEN 1 ELSE 0]
    <3>1. fire_counts' = [i \in Pe |-> f(i)]
      BY <1>3, BeginIs
    <3>2. \A i \in Pe : f(i) = [n \in Neurons(i) |-> f(i)[n]]
      OBVIOUS
    <3> HIDE DEF f
    <3>3. QED
      BY <3>1, <3>2
  <2>4. QED
    BY <2>1, <2>2, <2>3 DEF Firing, held
<1>4. QED
  BY <1>1, <1>2, <1>3, NextIs

-----------------------------------------------------------------------------
(* Fed is kept: a block's queue fills up, one output in a timestep, and stays
   as long as the block's delay. *)
LEMMA InitFed == Init => Fed
<1> SUFFICES ASSUME Init PROVE Fed
  OBVIOUS
<1>1. /\ input_seq \in InputSeqs
      /\ is_input = [i \in Pe |-> i \in DOMAIN input_seq \cup ProjectionPes]
      /\ input_current = [i \in Pe |-> [n \in Neurons(i) |-> 0]]
      /\ buf = [c \in DOMAIN Coprocs |-> << >>]
  BY DEF Init
<1>2. ASSUME NEW c \in DOMAIN Coprocs
      PROVE  /\ buf[c] \in Seq(Outputs(c)) /\ Len(buf[c]) <= Coprocs[c].delay
             /\ \A i \in Coprocs[c].proj_pes : input_current[i] = [n \in Neurons(i) |-> 0]
  <2>1. Coprocs[c].delay \in Nat /\ Coprocs[c].proj_pes \subseteq Pe
    BY FeedAssumption
  <2>2. buf[c] = << >>
    BY <1>1
  <2>3. Len(<< >>) = 0 /\ << >> \in Seq(Outputs(c))
    OBVIOUS
  <2>4. Len(buf[c]) <= Coprocs[c].delay
    BY <2>1, <2>2, <2>3
  <2>5. QED
    BY <1>1, <2>1, <2>2, <2>3, <2>4
<1>3. DOMAIN buf = DOMAIN Coprocs
  BY <1>1
<1>4. QED
  BY <1>1, <1>2, <1>3 DEF Fed

LEMMA FeedNothing ==
  ASSUME Fed, NEW c \in DOMAIN Coprocs, ~filled(c), NEW i \in Coprocs[c].proj_pes
  PROVE  i \in Pe /\ FedCurrent(i) = [n \in Neurons(i) |-> 0]
<1>1. i \in Pe
  BY FeedAssumption
<1>2. \A e \in DOMAIN Coprocs : i \in Coprocs[e].proj_pes => e = c
  BY FeedAssumption
<1>3. ~ \E e \in DOMAIN Coprocs : i \in Coprocs[e].proj_pes /\ filled(e)
  BY <1>2
<1>4. i \in ProjectionPes
  BY DEF ProjectionPes, projection_pes
<1>5. i \notin DOMAIN input_seq
  BY <1>1, <1>4, FeedAssumption DEF Fed
<1>6. FedCurrent(i) = input_current[i]
  BY <1>3, <1>5 DEF FedCurrent
<1>7. QED
  BY <1>1, <1>6 DEF Fed

LEMMA FedStep ==
  ASSUME Basics, SilentBetween, Slotted, Fed, Firing, Next
  PROVE  Fed'
<1>1. CASE OthersStep
  <2>1. UNCHANGED <<input_seq, buf, is_input, input_current>>
    BY <1>1, OthersKeep DEF neuronVars
  <2>2. QED
    BY <2>1 DEF Fed, filled
<1>2. CASE reset_counts
  <2>1. UNCHANGED <<input_seq, buf, is_input, input_current>>
    BY <1>2, ResetKeeps
  <2>2. QED
    BY <2>1 DEF Fed, filled
<1>3. CASE Begin
  <2>1. /\ UNCHANGED <<input_seq, is_input>>
        /\ input_current' = [i \in Pe |-> FedCurrent(i)]
        /\ buf' = [c \in DOMAIN Coprocs |->
              coproc_read(c, IF filled(c) THEN Tail(buf[c]) ELSE buf[c])]
    BY <1>3, BeginIs
  <2>2. \A i \in Pe : soma'[i].fired \subseteq Neurons(i)
    BY <1>3, BeginFires
  <2>3. DOMAIN buf' = DOMAIN Coprocs
    BY <2>1
  <2>4. ASSUME NEW c \in DOMAIN Coprocs
        PROVE  /\ buf'[c] \in Seq(Outputs(c)) /\ Len(buf'[c]) <= Coprocs[c].delay
               /\ ~(Len(buf'[c]) >= Coprocs[c].delay) =>
                    \A i \in Coprocs[c].proj_pes : input_current'[i] = [n \in Neurons(i) |-> 0]
    <3> DEFINE out == attention(Image, Coprocs[c], [i \in Pe |-> soma'[i].fired])
    <3>1. out \in Outputs(c) /\ buf'[c] = Append(Rest(c), out)
      BY <1>3, <2>2, BeginBuf
    <3> HIDE DEF out
    <3>2. /\ buf'[c] \in Seq(Outputs(c)) /\ Len(buf'[c]) <= Coprocs[c].delay
          /\ ~filled(c) \/ Len(buf'[c]) = Coprocs[c].delay
      BY <3>1, BufNext
    <3>3. Coprocs[c].delay \in Nat
      BY FeedAssumption
    <3>4. ASSUME ~(Len(buf'[c]) >= Coprocs[c].delay), NEW i \in Coprocs[c].proj_pes
          PROVE  input_current'[i] = [n \in Neurons(i) |-> 0]
      <4>1. ~filled(c)
        BY <3>2, <3>3, <3>4
      <4>2. i \in Pe /\ FedCurrent(i) = [n \in Neurons(i) |-> 0]
        BY <4>1, FeedNothing
      <4>3. QED
        BY <2>1, <4>2
    <3>5. QED
      BY <3>2, <3>4
  <2>5. input_seq' \in InputSeqs /\ is_input' = [i \in Pe |-> i \in DOMAIN input_seq' \cup ProjectionPes]
    BY <2>1 DEF Fed
  <2>6. QED
    BY <2>3, <2>4, <2>5 DEF Fed, filled, Outputs
<1>4. QED
  BY <1>1, <1>2, <1>3, NextIs

-----------------------------------------------------------------------------
(* Slotted is kept: no spike that is on its way is for the slot that has just
   been used, which is blank when its turn comes again. *)
LEMMA ModuloAround ==
  ASSUME NEW m \in Nat \ {0}, NEW a \in Nat
  PROVE  (a + m) % m = a % m
<1> DEFINE b == a + m
           p == b \div m
           q == a \div m
           r == a % m
           s == b % m
<1>1. /\ b = m * p + s /\ p \in Int /\ s \in 0 .. m - 1
      /\ a = m * q + r /\ q \in Int /\ r \in 0 .. m - 1
      /\ b = a + m
  OBVIOUS
<1> HIDE DEF b, p, q, r, s
<1> DEFINE k == p - q - 1
<1>2. k \in Int /\ p = q + 1 + k
  BY <1>1
<1> HIDE DEF k
<1>3. m * k = r - s
  <2>1. m * (q + 1 + k) = m * q + m + m * k
    BY <1>1, <1>2
  <2>2. QED
    BY <1>1, <1>2, <2>1
<1>4. ~(k >= 1)
  <2>1. SUFFICES ASSUME k >= 1 PROVE FALSE
    OBVIOUS
  <2>2. m * k >= m * 1
    BY <1>2, <2>1
  <2>3. QED
    BY <1>1, <1>3, <2>2
<1>5. ~(k <= -1)
  <2>1. SUFFICES ASSUME k <= -1 PROVE FALSE
    OBVIOUS
  <2>2. m * k <= m * (-1)
    BY <1>2, <2>1
  <2>3. QED
    BY <1>1, <1>3, <2>2
<1>6. k = 0
  BY <1>2, <1>4, <1>5
<1>7. r = s
  BY <1>1, <1>3, <1>6
<1>8. QED
  BY <1>7 DEF r, s, b

LEMMA BlankIsSlot ==
  ASSUME NEW i
  PROVE  IsSlot(Image, i, Blank(i))
BY DEF IsSlot, Blank, Neurons

LEMMA InitSlotted == Init => Slotted
<1> SUFFICES ASSUME Init PROVE Slotted
  OBVIOUS
<1>1. ring = [i \in Pe |-> [s \in RingSlot |-> Blank(i)]]
  BY DEF Init, NetworkPeInit
<1>2. Begun = 0
  BY DEF Init, Begun
<1>3. Begun + max_delay \in Nat
  BY <1>2, MaxDelay
<1>4. (Begun + max_delay) % ring_size \in RingSlot
  <2> DEFINE a == Begun + max_delay
  <2> HIDE DEF a
  <2>1. a \in Nat
    BY <1>3 DEF a
  <2>2. a % ring_size \in RingSlot
    BY <2>1, RingSlots
  <2>3. QED
    BY <2>2 DEF a
<1>5. \A i \in Pe : \A s \in RingSlot : ring[i][s] = Blank(i)
  BY <1>1
<1>6. ring = [i \in Pe |-> [s \in RingSlot |-> ring[i][s]]]
  BY <1>1
<1>7. QED
  BY <1>4, <1>5, <1>6, BlankIsSlot DEF Slotted

LEMMA AbsorbedIsSlot ==
  ASSUME NEW i \in Pe, NEW skipped, NEW b, IsSlot(Image, i, b), NEW f \in Spikes,
         f.dst = to_coord(i)
  PROVE  IsSlot(Image, i, Absorbed(Image, i, skipped, b, f))
<1> DEFINE gets == [n \in neurons(Image, i) |-> b.current[n] + Brings(Image, i, skipped, f, f.meta, n)]
           wins == IF is_max(f.meta) THEN b.windows \cup {Window(f)} ELSE b.windows
<1>1. CASE is_max(f.meta) /\ Window(f) \in b.windows
  BY <1>1 DEF Absorbed
<1>2. CASE ~(is_max(f.meta) /\ Window(f) \in b.windows)
  <2>1. Absorbed(Image, i, skipped, b, f) = [current |-> gets, windows |-> wins]
    BY <1>2 DEF Absorbed
  <2>2. \A n \in neurons(Image, i) : b.current[n] \in Int
    BY DEF IsSlot
  <2>3. \A n \in neurons(Image, i) : Brings(Image, i, skipped, f, f.meta, n) \in Int
    <3>1. f \in Flit /\ ~is_sync(f)
      BY DEF Spikes
    <3>2. \A n \in Neurons(i) :
            contribution(Image, i, f.dendrite_id, f.go1, f.go2, f.meta, n) \in Int
      BY <3>1, SpikeAssumption
    <3>3. QED
      BY <3>2 DEF Brings, Neurons
  <2>4. gets \in [neurons(Image, i) -> Int]
    BY <2>2, <2>3
  <2> HIDE DEF gets, wins
  <2>5. QED
    BY <2>1, <2>4 DEF IsSlot
<1>3. QED
  BY <1>1, <1>2

LEMMA PeComputeSlotted ==
  ASSUME Basics, Handed, Slotted, NEW i \in Pe, PeCompute(i)
  PROVE  Slotted'
<1> DEFINE n == to_coord(i)
<1>1. RunnerTypeOK /\ Clocks
  BY DEF Basics
<1>2. /\ PeStep(i) /\ UNCHANGED <<abs_t, phase>> /\ InTimestep /\ Begun' = Begun
  <2>1. Cycling
    BY <1>1, CycleSteps
  <2>2. QED
    BY <2>1 DEF Cycling, PeCompute, Begun
<1>3. Begun = abs_t + 1 /\ abs_t \in Nat /\ cur_t[i] = abs_t
  <2>1. Begun = abs_t + 1 /\ Now = abs_t
    BY <1>2 DEF InTimestep, Begun, Now
  <2>2. abs_t \in Nat
    BY <1>1, NowIsIn
  <2>3. QED
    BY <1>1, <2>1, <2>2 DEF Clocks
<1>4. ring' = [ring EXCEPT ![i] = Accumulated(i, eject[n])] /\ DOMAIN ring = Pe
  BY <1>2 DEF PeStep, Slotted
<1>5. \A j \in Pe : j # i => ring'[j] = ring[j]
  BY <1>4
<1> DEFINE last == (Begun + max_delay) % ring_size
<1>6. /\ ring = [j \in Pe |-> [s \in RingSlot |-> ring[j][s]]]
      /\ \A j \in Pe : \A s \in RingSlot : IsSlot(Image, j, ring[j][s])
      /\ \A j \in Pe : ring[j][last] = Blank(j)
  BY DEF Slotted
<1>7. last \in RingSlot /\ last = abs_t % ring_size
  <2> DEFINE a == abs_t + ring_size
             m == ring_size
  <2>1. Begun + max_delay = a /\ a \in Nat
    BY <1>3, MaxDelay, RingSlots
  <2>2. m \in Nat \ {0}
    BY RingSlots
  <2>3. a % m = abs_t % m
    BY <1>3, <2>2, ModuloAround
  <2>4. a % m \in RingSlot
    <3> HIDE DEF a
    <3>1. QED
      BY <2>1, RingSlots
  <2>5. QED
    BY <2>1, <2>3, <2>4
<1> HIDE DEF last
<1>8. /\ ring'[i] = [s \in RingSlot |-> ring'[i][s]]
      /\ \A s \in RingSlot : IsSlot(Image, i, ring'[i][s])
      /\ ring'[i][last] = Blank(i)
  <2> DEFINE b == ring'[i]
  <2>1. b = Accumulated(i, eject[n])
    BY <1>4
  <2>2. ASSUME b = ring[i]
        PROVE  /\ b = [s \in RingSlot |-> b[s]]
               /\ \A s \in RingSlot : IsSlot(Image, i, b[s])
               /\ b[last] = Blank(i)
    <3>1. ring[i] = [s \in RingSlot |-> ring[i][s]]
      BY <1>6
    <3> HIDE DEF b
    <3>2. QED
      BY <1>6, <2>2, <3>1
  <2>3. ASSUME NEW f \in Flit, ~is_sync(f), f.dst = n, b = Accumulate(i, ring[i], f)
        PROVE  /\ b = [s \in RingSlot |-> b[s]]
               /\ \A s \in RingSlot : IsSlot(Image, i, b[s])
               /\ b[last] = Blank(i)
    <3> DEFINE slot == (cur_t[i] + due_in(f.delay)) % ring_size
    <3>1. b = [s \in RingSlot |->
                IF s = slot THEN Absorbed(Image, i, Skipped(i), ring[i][s], f) ELSE ring[i][s]]
      BY <2>3, AccumulateIs
    <3>2. f \in Spikes
      BY <2>3 DEF Spikes
    <3>3. due_in(f.delay) \in 1 .. max_delay
      BY <2>3, SpikeAssumption
    <3>4. slot # last
      <4> DEFINE d == due_in(f.delay)
                 a == abs_t + d
      <4>1. slot = a % ring_size
        BY <1>3
      <4>2. a \in Nat /\ a # abs_t /\ a - abs_t < ring_size /\ abs_t - a < ring_size
        <5> HIDE DEF d
        <5>1. d \in Nat \ {0} /\ d < ring_size
          BY <3>3, MaxDelay, RingSlots DEF d
        <5>2. QED
          BY <1>3, <5>1, RingSlots
      <4> HIDE DEF a
      <4>3. a % ring_size # abs_t % ring_size
        BY <1>3, <4>2, RingSlots, ModuloApart
      <4>4. QED
        BY <1>7, <4>1, <4>3
    <3> HIDE DEF slot, b
    <3>5. ASSUME NEW s \in RingSlot PROVE IsSlot(Image, i, b[s])
      BY <1>6, <2>3, <3>1, <3>2, AbsorbedIsSlot
    <3>6. b[last] = Blank(i)
      BY <1>6, <1>7, <3>1, <3>4
    <3>7. b = [s \in RingSlot |-> b[s]]
      BY <3>1
    <3>8. QED
      BY <3>5, <3>6, <3>7
  <2>4. n \in Node
    BY Ids
  <2>5. CASE eject[n] = << >>
    BY <2>1, <2>2, <2>5, AccumulatedIs
  <2>6. CASE eject[n] # << >>
    <3>1. PICK f \in Flit : eject[n] = <<f>> /\ f.dst = n
      BY <1>1, <2>4, <2>6, HandedOne
    <3>2. b = IF is_sync(f) THEN ring[i] ELSE Accumulate(i, ring[i], f)
      BY <2>1, <3>1, AccumulatedIs
    <3>3. QED
      BY <2>2, <2>3, <3>1, <3>2
  <2>7. QED
    BY <2>5, <2>6
<1>9. last' = last
  BY <1>2 DEF last
<1>10. DOMAIN ring' = Pe /\ ring' = [j \in Pe |-> ring'[j]]
  BY <1>4
<1>11. ASSUME NEW j \in Pe
       PROVE  /\ ring'[j] = [s \in RingSlot |-> ring'[j][s]]
              /\ \A s \in RingSlot : IsSlot(Image, j, ring'[j][s])
              /\ ring'[j][last] = Blank(j)
  <2>1. CASE j = i
    BY <1>8, <2>1
  <2>2. CASE j # i
    <3>1. ring[j] = [s \in RingSlot |-> ring[j][s]]
      BY <1>6
    <3>2. QED
      BY <1>5, <1>6, <2>2, <3>1
  <2>3. QED
    BY <2>1, <2>2
<1>12. ring' = [j \in Pe |-> [s \in RingSlot |-> ring'[j][s]]]
  BY <1>10, <1>11
<1>13. QED
  BY <1>9, <1>11, <1>12 DEF Slotted, last

LEMMA BeginSlotted ==
  ASSUME Basics, Slotted, Begin
  PROVE  Slotted'
<1> DEFINE slot == abs_t % ring_size
<1>1. /\ Begun' = abs_t + 1 /\ ring' = [i \in Pe |-> ClearedSlot(i, slot)]
  BY BeginIs
<1>2. abs_t \in Nat
  BY DEF Basics, RunnerTypeOK
<1>3. (Begun' + max_delay) % ring_size = slot
  <2> DEFINE a == abs_t + ring_size
  <2>1. Begun' + max_delay = a
    BY <1>1, <1>2, MaxDelay, RingSlots
  <2>2. a % ring_size = slot
    BY <1>2, RingSlots, ModuloAround
  <2>3. QED
    BY <2>1, <2>2
<1>4. slot \in RingSlot
  BY <1>2, RingSlots
<1> HIDE DEF slot
<1>5. ASSUME NEW i \in Pe
      PROVE  /\ ring'[i] = [s \in RingSlot |-> ring'[i][s]]
             /\ \A s \in RingSlot : IsSlot(Image, i, ring'[i][s])
             /\ ring'[i][slot] = Blank(i)
  <2>1. ring'[i] = [ring[i] EXCEPT ![slot] = Blank(i)]
    BY <1>1 DEF ClearedSlot
  <2>2. /\ ring[i] = [s \in RingSlot |-> ring[i][s]]
        /\ \A s \in RingSlot : IsSlot(Image, i, ring[i][s])
    BY DEF Slotted
  <2> DEFINE b == ring[i]
             e == ring'[i]
  <2>3. DOMAIN b = RingSlot /\ e = [b EXCEPT ![slot] = Blank(i)]
    BY <2>1, <2>2
  <2> HIDE DEF b, e
  <2>4. /\ e = [s \in RingSlot |-> e[s]] /\ e[slot] = Blank(i)
        /\ \A s \in RingSlot : e[s] = IF s = slot THEN Blank(i) ELSE b[s]
    BY <1>4, <2>3
  <2>5. \A s \in RingSlot : IsSlot(Image, i, b[s])
    BY <2>2 DEF b
  <2>6. \A s \in RingSlot : IsSlot(Image, i, e[s])
    BY <2>4, <2>5, BlankIsSlot
  <2>7. QED
    BY <2>4, <2>6 DEF e
<1>6. ring' = [i \in Pe |-> ring'[i]]
  BY <1>1
<1>7. ring' = [i \in Pe |-> [s \in RingSlot |-> ring'[i][s]]]
  BY <1>5, <1>6
<1>8. QED
  BY <1>3, <1>5, <1>7 DEF Slotted

LEMMA SlottedStep ==
  ASSUME Basics, Handed, Slotted, Next
  PROVE  Slotted'
<1>1. RunnerTypeOK
  BY DEF Basics
<1>2. ASSUME ring' = ring, Begun' = Begun PROVE Slotted'
  BY <1>2 DEF Slotted
<1>3. ASSUME NEW i \in Pe, PeCompute(i) PROVE Slotted'
  BY <1>3, PeComputeSlotted
<1>4. ASSUME \/ \E i \in Pe : PeCommit(i)
             \/ \E r \in Node : RouterCompute(r) \/ RouterCommit(r)
      PROVE  Slotted'
  <2>1. ring' = ring
    BY <1>4 DEF PeCommit, RouterCompute, RouterCommit, networkPeVars
  <2>2. Begun' = Begun
    BY <1>1, <1>4, CycleSteps DEF Cycling, Begun
  <2>3. QED
    BY <1>2, <2>1, <2>2
<1>5. ASSUME GiveUp \/ NextCycle \/ BeginDrain \/ EndTimestep \/ Finish \/ reset_counts
      PROVE  Slotted'
  <2>1. ring' = ring
    BY <1>5, ResetKeeps DEF GiveUp, NextCycle, BeginDrain, EndTimestep, Finish, networkPeVars
  <2>2. Begun' = Begun
    BY <1>5, ResetKeeps
       DEF GiveUp, NextCycle, BeginDrain, EndTimestep, Finish, Begun, InCycles
  <2>3. QED
    BY <1>2, <2>1, <2>2
<1>6. ASSUME Begin PROVE Slotted'
  BY <1>6, BeginSlotted
<1>7. QED
  BY <1>3, <1>4, <1>5, <1>6 DEF Next

-----------------------------------------------------------------------------
(* The strengthened invariant, and the steps that map to steps. *)
LEMMA InitLineInv == Init => LineInv
BY InitRunner, InitHanded, InitSlotted, InitFed, InitFiring DEF LineInv

LEMMA StepLineInv == LineInv /\ [Next]_runnerVars => LineInv'
<1> SUFFICES ASSUME LineInv, [Next]_runnerVars PROVE LineInv'
  OBVIOUS
<1>1. RunnerInv'
  BY StepRunner DEF LineInv
<1>2. Basics /\ EjectHome /\ Swept /\ SilentBetween /\ RunnerTypeOK
  BY DEF LineInv, RunnerInv, Basics
<1>3. CASE Next
  <2>1. Handed' /\ Slotted' /\ Fed' /\ Firing'
    BY <1>2, <1>3, HandedStep, SlottedStep, FedStep, FiringStep DEF LineInv
  <2>2. QED
    BY <1>1, <2>1 DEF LineInv
<1>4. CASE UNCHANGED runnerVars
  <2>1. UNCHANGED <<eject, ejectNxt, ran, ring, abs_t, phase, input_seq, is_input, buf,
                    input_current, soma, fire_counts>>
    BY <1>4 DEF runnerVars, routerVars, networkPeVars, neuronVars, runVars
  <2>2. Handed'
    BY <2>1 DEF Handed, LineInv
  <2>3. Slotted'
    BY <2>1 DEF Slotted, LineInv, Begun
  <2>4. Fed'
    BY <2>1 DEF Fed, LineInv, filled
  <2>5. Firing'
    BY <2>1 DEF Firing, LineInv, held
  <2>6. QED
    BY <1>1, <2>2, <2>3, <2>4, <2>5 DEF LineInv
<1>5. QED
  BY <1>3, <1>4

LEMMA LineInvHolds == Spec => []LineInv
BY InitLineInv, StepLineInv, PTL DEF Spec

LEMMA InitLine == Init => Synchronous!LineInit
<1> SUFFICES ASSUME Init PROVE Synchronous!LineInit
  OBVIOUS
<1>1. /\ input_seq \in InputSeqs /\ phase = "between" /\ ~deadlock /\ Begun = 0
      /\ buf = [c \in DOMAIN Coprocs |-> << >>]
      /\ soma = [i \in Pe |-> IF UseDnp THEN EmptyStore ELSE DenseStore(Neurons(i))]
      /\ fire_counts = [i \in Pe |-> [n \in Neurons(i) |-> 0]]
      /\ ring = [i \in Pe |-> [s \in RingSlot |-> Blank(i)]]
  BY DEF Init, NetworkPeInit, Begun
<1>2. Due = [i \in Pe |-> [d \in 1 .. max_delay |-> Blank(i)]]
  <2>1. RunnerTypeOK /\ SilentBetween /\ Slotted
    BY InitRunner, InitSlotted DEF RunnerInv
  <2>2. Due = [i \in Pe |-> [d \in 1 .. max_delay |-> ring[i][SlotFor(d)]]]
    BY <1>1, <2>1, DueBetween
  <2>3. ASSUME NEW i \in Pe, NEW d \in 1 .. max_delay
        PROVE  ring[i][SlotFor(d)] = Blank(i)
    <3> DEFINE m == d - 1
               s == m % ring_size
    <3>1. m \in Nat
      BY MaxDelay
    <3> HIDE DEF m
    <3>2. s \in RingSlot
      BY <3>1, RingSlots
    <3>3. SlotFor(d) = s
      <4>1. Begun + d - 1 = m
        BY <1>1, MaxDelay DEF m
      <4> HIDE DEF SlotFor
      <4>2. QED
        BY <4>1 DEF SlotFor, s
    <3> HIDE DEF s
    <3>4. QED
      BY <1>1, <3>2, <3>3
  <2>4. QED
    BY <2>2, <2>3
<1>3. ASSUME NEW c \in DOMAIN Coprocs
      PROVE  Ssa[c] = [d \in 1 .. Coprocs[c].delay |-> NoAttention(Coprocs[c])]
  <2> DEFINE a == NoAttention(Coprocs[c])
  <2>1. buf[c] = << >> /\ Coprocs[c].delay \in Nat
    BY <1>1, FeedAssumption
  <2>2. Coprocs[c].delay - Len(buf[c]) = Coprocs[c].delay
    BY <2>1
  <2>3. Ssa[c] = Padding(Coprocs[c].delay, a) \o buf[c]
    BY <2>2, SsaIs
  <2>4. Padding(Coprocs[c].delay, a) \in Seq({a})
    <3> DEFINE p == Padding(Coprocs[c].delay, a)
    <3>1. p \in [1 .. Coprocs[c].delay -> {a}]
      BY DEF Padding
    <3> HIDE DEF p
    <3>2. p \in Seq({a})
      BY <2>1, <3>1, SeqDef
    <3>3. QED
      BY <3>2 DEF p
  <2>5. Padding(Coprocs[c].delay, a) \o << >> = Padding(Coprocs[c].delay, a)
    BY <2>4, ConcatEmptySeq
  <2>6. QED
    BY <2>1, <2>3, <2>5 DEF Padding
<1>4. Ssa = [c \in DOMAIN Coprocs |->
               [d \in 1 .. Coprocs[c].delay |-> NoAttention(Coprocs[c])]]
  BY <1>3 DEF Ssa
<1>5. QED
  BY <1>1, <1>2, <1>4, LineInitIs

(* Every step of the mesh is a step of the synchronous network, or none. *)
LEMMA StepLine ==
  ASSUME LineInv, LineInv', [Next]_runnerVars
  PROVE  [Synchronous!LineNext]_(Synchronous!lineVars)
<1>1. /\ Basics /\ RunnerTypeOK /\ RunnerTypeOK' /\ Clocks /\ SilentBetween
      /\ Handed /\ Slotted /\ Fed /\ Firing
  BY DEF LineInv, RunnerInv, Basics
<1>2. CASE Begin
  <2>1. \A i \in Pe : soma'[i].fired \subseteq Neurons(i)
    BY <1>1, <1>2, BeginFires
  <2>2. QED
    BY <1>1, <1>2, <2>1, BeginLine DEF Synchronous!LineNext
<1>3. CASE reset_counts
  BY <1>1, <1>3, ResetLine DEF Synchronous!LineNext
<1>4. CASE OthersStep
  <2>1. ASSUME NEW i \in Pe, PeCompute(i) PROVE UNCHANGED Synchronous!lineVars
    BY <1>1, <2>1, PeComputeLine
  <2>2. ASSUME NEW r \in Node, RouterCompute(r) \/ RouterCommit(r)
        PROVE  UNCHANGED Synchronous!lineVars
    BY <1>1, <2>2, RouterStepsLine
  <2>3. ASSUME NEW i \in Pe, PeCommit(i) PROVE UNCHANGED Synchronous!lineVars
    <3>1. to_coord(i) \in Node
      BY Ids
    <3>2. QED
      BY <1>1, <2>3, <3>1, RouterStepsLine
  <2>4. CASE GiveUp \/ NextCycle \/ BeginDrain \/ EndTimestep \/ Finish
    BY <1>1, <2>4, StillLine
  <2>5. QED
    BY <1>4, <2>1, <2>2, <2>3, <2>4 DEF OthersStep
<1>5. CASE UNCHANGED runnerVars
  <2>1. /\ UNCHANGED <<routerVars, soma, ring, fire_counts, pending_spikes, pending_sync,
                       input_seq, buf, phase, abs_t>>
    BY <1>5 DEF runnerVars, runVars, networkPeVars, neuronVars
  <2>2. Begun' = Begun /\ Ssa' = Ssa
    BY <2>1 DEF Begun, Ssa
  <2>3. Due' = Due
    BY <1>1, <2>1, <2>2, DueStill
  <2>4. QED
    BY <2>1, <2>2, <2>3, LineStutters
<1>6. QED
  BY <1>2, <1>3, <1>4, <1>5, NextIs

(* The mesh computes what the synchronous network computes: whatever the
   cycles, the back-pressure, the order in which spikes arrive and the reuse of
   ring slots, after every timestep the neurons, the counts, what is due and
   what the attention blocks hold are those of DelayLine
   (network_runner.cpp:84-171, network_pe.cpp:41-155). *)
THEOREM NetworkImplementsLine == Spec => ImplementsDelayLine
<1>1. LineInv /\ LineInv' /\ [Next]_runnerVars => [Synchronous!LineNext]_(Synchronous!lineVars)
  BY StepLine
<1>2. QED
  BY <1>1, InitLine, LineInvHolds, PTL DEF Spec, ImplementsDelayLine, Synchronous!LineSpec
=============================================================================
