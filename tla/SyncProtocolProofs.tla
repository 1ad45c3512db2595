------------------------- MODULE SyncProtocolProofs -------------------------
(***************************************************************************)
(* Theorems about SyncProtocol for every number of PEs and of timesteps:   *)
(* the tree of REPORTs and NEXTs is a barrier, no sync flit is dropped as  *)
(* stale, none is counted twice, and none is left when a timestep ends.    *)
(***************************************************************************)
EXTENDS SyncProtocol, FiniteSetTheorems, WellFoundedInduction, TLAPS

-----------------------------------------------------------------------------
(* The tree. *)

LEMMA HeapShape ==
  ASSUME NEW i \in Pe
  PROVE  /\ left_child(i) = 2 * i + 1 /\ right_child(i) = 2 * i + 2
         /\ children(i, NumPe) = {c \in {2 * i + 1, 2 * i + 2} : c \in Pe}
         /\ child_count(i, NumPe) = One(2 * i + 1 \in Pe) + One(2 * i + 2 \in Pe)
         /\ \A c \in Pe : c # 0 /\ parent(c) = i <=> c \in children(i, NumPe)
         /\ i # 0 => parent(i) \in Pe /\ parent(i) < i
<1>1. NumPe \in Nat /\ NumPe <= 32767 /\ i \in Nat /\ i < NumPe
  BY NumPeAssumption DEF Pe
<1>2. left_child(i) = 2 * i + 1 /\ right_child(i) = 2 * i + 2
  BY <1>1 DEF left_child, right_child
<1>3. /\ children(i, NumPe) = {c \in {2 * i + 1, 2 * i + 2} : c \in Pe}
      /\ child_count(i, NumPe) = One(2 * i + 1 \in Pe) + One(2 * i + 2 \in Pe)
  BY <1>1, <1>2 DEF Pe, children, child_count, One
<1>4. ASSUME NEW c \in Pe
      PROVE  c # 0 /\ parent(c) = i <=> c \in children(i, NumPe)
  BY <1>1, <1>3 DEF Pe, parent
<1>5. i # 0 => parent(i) \in Pe /\ parent(i) < i
  BY <1>1 DEF Pe, parent
<1>6. QED
  BY <1>2, <1>3, <1>4, <1>5

LEMMA PeFacts ==
  /\ NumPe \in Nat /\ 0 \in Pe /\ Pe \subseteq Nat
  /\ \A i \in Pe : make_report(i).src = i
BY NumPeAssumption DEF Pe, make_report

(* A property that passes from a parent to its children and holds at the
   root holds everywhere: the least PE without it would be the root. *)
LEMMA TreeInduction ==
  ASSUME NEW S \in SUBSET Pe, 0 \in S,
         \A c \in Pe \ {0} : parent(c) \in S => c \in S
  PROVE  S = Pe
<1> SUFFICES ASSUME Pe \ S # {} PROVE FALSE
  OBVIOUS
<1> DEFINE T == Pe \ S
           R == OpToRel(<, Nat)
<1>1. T \subseteq Nat /\ T # {}
  BY PeFacts
<1>2. \E x \in T : \A y \in T : ~(<<y, x>> \in R)
  <2>1. IsWellFoundedOn(R, Nat)
    BY NatLessThanWellFounded
  <2> HIDE DEF R, T
  <2>2. QED
    BY <1>1, <2>1, WFMin
<1>3. PICK x \in T : \A y \in T : ~(y < x)
  BY <1>1, <1>2 DEF OpToRel
<1>4. x \in Pe \ {0} /\ parent(x) \in Pe /\ parent(x) < x
  BY <1>3, HeapShape
<1>5. parent(x) \in S
  BY <1>3, <1>4
<1>6. QED
  BY <1>3, <1>4, <1>5

-----------------------------------------------------------------------------
(* One compute.  The flits it receives: none, or one that is under way. *)
CanReceive(i, fs) ==
  \/ fs = << >>
  \/ \E f \in SyncFlit : fs = <<f>> /\ net[f] > 0 /\ f.dst = i

(* Arrived, counting what the compute receives. *)
ArrivedAt(c, fs) ==
  HasReported(c) /\ net[make_report(c)] = One(Got(fs, make_report(c)))

KidsArrived(i, fs) ==
  \A c \in Pe \ {0} : parent(c) = i => ArrivedAt(c, fs)

LEMMA GotFacts ==
  /\ \A f : ~Got(<< >>, f)
  /\ \A f, g : Got(<<f>>, g) <=> f = g
BY DEF Got

LEMMA HeardFacts ==
  ASSUME NEW i \in Pe, SyncTypeOK
  PROVE  /\ Reported(i, << >>) = children_reported[i]
         /\ Nexted(i, << >>) <=> next_received[i]
         /\ \A f : /\ Reported(i, <<f>>) = children_reported[i]
                                + One(f.type = "Report" /\ Fresh(i, f))
                   /\ Nexted(i, <<f>>) <=> \/ next_received[i]
                                           \/ f.type = "NextTimestep" /\ Fresh(i, f)
<1>1. children_reported[i] \in Nat /\ next_received[i] \in BOOLEAN
  BY DEF SyncTypeOK
<1>2. Cardinality({}) = 0 /\ \A k : Cardinality({k}) = 1
  BY FS_EmptySet, FS_Singleton
<1>3. Reported(i, << >>) = children_reported[i]
  <2>1. {k \in DOMAIN << >> : << >>[k].type = "Report" /\ Fresh(i, << >>[k])} = {}
    OBVIOUS
  <2>2. QED
    BY <1>1, <1>2, <2>1 DEF Reported
<1>4. Nexted(i, << >>) <=> next_received[i]
  <2>1. DOMAIN << >> = {}
    OBVIOUS
  <2>2. QED
    BY <2>1, Zenon DEF Nexted
<1>5. ASSUME NEW f
      PROVE  /\ Reported(i, <<f>>) = children_reported[i]
                                + One(f.type = "Report" /\ Fresh(i, f))
             /\ Nexted(i, <<f>>) <=> \/ next_received[i]
                                     \/ f.type = "NextTimestep" /\ Fresh(i, f)
  <2>1. DOMAIN <<f>> = {1} /\ <<f>>[1] = f
    OBVIOUS
  <2>2. {k \in DOMAIN <<f>> : <<f>>[k].type = "Report" /\ Fresh(i, <<f>>[k])}
          = IF f.type = "Report" /\ Fresh(i, f) THEN {1} ELSE {}
    BY <2>1
  <2>3. Reported(i, <<f>>) = children_reported[i]
                               + One(f.type = "Report" /\ Fresh(i, f))
    BY <1>1, <1>2, <2>2 DEF Reported, One
  <2>4. QED
    BY <2>1, <2>3 DEF Nexted
<1>6. QED
  BY <1>3, <1>4, <1>5

(* A flit under way is, field by field, the one its tree edge calls for. *)
LEMMA UnderWay ==
  ASSUME IInv, NEW f \in SyncFlit, net[f] > 0
  PROVE  /\ net[f] = 1
         /\ f.timestep = current_t[f.dst]
         /\ \/ /\ f.src \in Pe \ {0} /\ f.dst = parent(f.src)
               /\ f = make_report(f.src) /\ state[f.src] = "WaitingNext"
               /\ f.type = "Report"
            \/ /\ f.dst \in Pe \ {0} /\ f.src = parent(f.dst)
               /\ f = make_next(f.src, f.dst) /\ f.type = "NextTimestep"
               /\ state[f.src] = "Advancing" /\ state[f.dst] = "WaitingNext"
               /\ ~next_received[f.dst]
<1>1. /\ f.type \in {"Report", "NextTimestep"} /\ f.src \in Pe /\ f.dst \in Pe
      /\ f = [type |-> f.type, src |-> f.src, dst |-> f.dst,
              timestep |-> f.timestep]
  BY DEF SyncFlit
<1>2. net[f] = 1 /\ f.timestep = current_t[f.src] /\ Sender(f)
  BY DEF IInv, NetInv
<1>3. f.timestep = current_t[f.dst]
  BY <1>1, <1>2 DEF IInv, SameTimestep
<1>4. QED
  BY <1>1, <1>2, <1>3 DEF Sender, make_report, make_next

LEMMA Receiving ==
  ASSUME IInv, NEW i \in Pe, NEW fs, CanReceive(i, fs)
  PROVE  /\ Reported(i, fs) =
              One(2 * i + 1 \in Pe /\ ArrivedAt(2 * i + 1, fs))
                + One(2 * i + 2 \in Pe /\ ArrivedAt(2 * i + 2, fs))
         /\ Nexted(i, fs) =>
              i # 0 /\ state[parent(i)] = "Advancing" /\ HasReported(i)
         /\ Nexted(i, fs) <=> \/ next_received[i]
                             \/ \E f \in SyncFlit : /\ fs = <<f>> /\ net[f] > 0
                                                   /\ f.type = "NextTimestep"
         /\ \A g \in SyncFlit : One(Got(fs, g)) <= net[g]
         /\ \A c \in Pe : Arrived(c) => ArrivedAt(c, fs)
<1>1. /\ SyncTypeOK /\ CountInv /\ ReleaseInv /\ NetInv
      /\ children_reported[i] \in Nat /\ next_received[i] \in BOOLEAN
      /\ \A g \in SyncFlit : net[g] \in Nat
      /\ \A c \in Pe : make_report(c) \in SyncFlit => net[make_report(c)] \in Nat
  BY DEF IInv, TypeOK, SyncTypeOK
<1>2. CASE fs = << >>
  <2>1. \A g : ~Got(fs, g)
    BY <1>2, GotFacts
  <2>2. \A c \in Pe : ArrivedAt(c, fs) <=> Arrived(c)
    BY <2>1 DEF ArrivedAt, Arrived, One
  <2>3. /\ Reported(i, fs) = children_reported[i]
        /\ Nexted(i, fs) <=> next_received[i]
    BY <1>1, <1>2, HeardFacts
  <2>4. \A f : fs # <<f>>
    BY <1>2
  <2>5. QED
    BY <1>1, <2>1, <2>2, <2>3, <2>4 DEF CountInv, ReleaseInv, One
<1>3. CASE \E f \in SyncFlit : fs = <<f>> /\ net[f] > 0 /\ f.dst = i
  <2>1. PICK f \in SyncFlit : fs = <<f>> /\ net[f] > 0 /\ f.dst = i
    BY <1>3
  <2>2. /\ \A g : Got(fs, g) <=> f = g
        /\ \A g : fs = <<g>> => f = g
    BY <2>1, GotFacts
  <2>3. /\ net[f] = 1 /\ Fresh(i, f)
        /\ \/ /\ f.src \in Pe \ {0} /\ i = parent(f.src)
              /\ f = make_report(f.src) /\ state[f.src] = "WaitingNext"
              /\ f.type = "Report"
           \/ /\ i # 0 /\ f.src = parent(i) /\ f.type = "NextTimestep"
              /\ state[f.src] = "Advancing" /\ state[i] = "WaitingNext"
    BY <2>1, UnderWay DEF Fresh
  <2>4. /\ Reported(i, fs) = children_reported[i] + One(f.type = "Report")
        /\ Nexted(i, fs) <=> next_received[i] \/ f.type = "NextTimestep"
    BY <1>1, <2>1, <2>3, HeardFacts DEF One
  <2>5. \A c \in Pe : make_report(c) # f => (ArrivedAt(c, fs) <=> Arrived(c))
    BY <2>2 DEF ArrivedAt, Arrived, One
  <2>6. \A c \in Pe : make_report(c) = f => ArrivedAt(c, fs) /\ ~Arrived(c)
    BY <2>2, <2>3, PeFacts DEF ArrivedAt, Arrived, One, HasReported
  <2>7. \A g \in SyncFlit : One(Got(fs, g)) <= net[g]
    BY <1>1, <2>2, <2>3 DEF One
  <2>8. Reported(i, fs) =
          One(2 * i + 1 \in Pe /\ ArrivedAt(2 * i + 1, fs))
            + One(2 * i + 2 \in Pe /\ ArrivedAt(2 * i + 2, fs))
    <3>1. CASE f.type = "Report"
      <4>1. /\ f.src \in Pe /\ f = make_report(f.src)
            /\ f.src = 2 * i + 1 \/ f.src = 2 * i + 2
            /\ \A c \in Pe : make_report(c) = f => c = f.src
        BY <2>3, <3>1, HeapShape, PeFacts
      <4>2. i \in Nat
        BY PeFacts
      <4>3. QED
        BY <1>1, <2>4, <2>5, <2>6, <3>1, <4>1, <4>2 DEF CountInv, One
    <3>2. CASE f.type # "Report"
      <4>1. \A c \in Pe : make_report(c) # f
        BY <3>2 DEF make_report
      <4>2. QED
        BY <1>1, <2>4, <2>5, <3>2, <4>1 DEF CountInv, One
    <3>3. QED
      BY <3>1, <3>2
  <2>9. Nexted(i, fs) => i # 0 /\ state[parent(i)] = "Advancing" /\ HasReported(i)
    BY <1>1, <2>3, <2>4 DEF ReleaseInv, HasReported
  <2>10. /\ Nexted(i, fs) <=> \/ next_received[i]
                             \/ \E g \in SyncFlit : /\ fs = <<g>> /\ net[g] > 0
                                                   /\ g.type = "NextTimestep"
         /\ \A c \in Pe : Arrived(c) => ArrivedAt(c, fs)
    BY <2>1, <2>2, <2>4, <2>5, <2>6
  <2>11. QED
    BY <2>7, <2>8, <2>9, <2>10
<1>4. QED
  BY <1>2, <1>3 DEF CanReceive

(* What a compute of PE i can do to its state, and the flits E it emits. *)
Unfinished(i) == state[i] \in {"Computing", "WaitingChildren"}
Nexts(i) == {make_next(i, c) : c \in children(i, NumPe)}

Stays(i, E)       == state'[i] = state[i] /\ E = {}
Finishes(i, E)    == state[i] = "Computing" /\ state'[i] = "WaitingChildren" /\ E = {}
Reports(i, fs, E) ==
  /\ i # 0 /\ Unfinished(i) /\ state'[i] = "WaitingNext"
  /\ KidsArrived(i, fs) /\ E = {make_report(i)}
Starts(i, fs, E)  ==
  /\ i = 0 /\ Unfinished(i) /\ state'[i] = "Advancing"
  /\ KidsArrived(i, fs) /\ E = Nexts(i)
Forwards(i, fs, E) ==
  /\ i # 0 /\ state[i] = "WaitingNext" /\ state'[i] = "Advancing"
  /\ Nexted(i, fs) /\ E = Nexts(i)

LEMMA Transition ==
  ASSUME IInv, NEW i \in Pe, NEW fs, CanReceive(i, fs), NEW d \in BOOLEAN,
         PeCompute(i, fs, d)
  PROVE  \/ Stays(i, SyncEmits(i, fs, d))
         \/ Finishes(i, SyncEmits(i, fs, d))
         \/ Reports(i, fs, SyncEmits(i, fs, d))
         \/ Starts(i, fs, SyncEmits(i, fs, d))
         \/ Forwards(i, fs, SyncEmits(i, fs, d))
<1> DEFINE reported == Reported(i, fs)
           nexted   == Nexted(i, fs)
           local    == LocalStage(i, d)
           middle   == ChildrenStage(i, d, reported)
           after    == NextStage(i, d, reported, nexted)
<1>1. state[i] \in PeSyncState /\ state \in [Pe -> PeSyncState]
  BY DEF IInv, TypeOK, SyncTypeOK
<1>2. state'[i] = after
  BY <1>1 DEF PeCompute, SyncStep
<1>3. /\ nexted => i # 0 /\ state[i] \in {"WaitingNext", "Advancing"}
      /\ reported = One(2 * i + 1 \in Pe /\ ArrivedAt(2 * i + 1, fs))
                      + One(2 * i + 2 \in Pe /\ ArrivedAt(2 * i + 2, fs))
  BY Receiving DEF HasReported
<1>4. child_count(i, NumPe) = One(2 * i + 1 \in Pe) + One(2 * i + 2 \in Pe)
  BY HeapShape
<1>5. reported >= child_count(i, NumPe) => KidsArrived(i, fs)
  <2>1. reported >= child_count(i, NumPe) =>
          /\ 2 * i + 1 \in Pe => ArrivedAt(2 * i + 1, fs)
          /\ 2 * i + 2 \in Pe => ArrivedAt(2 * i + 2, fs)
    BY <1>3, <1>4 DEF One
  <2>2. \A c \in Pe \ {0} : parent(c) = i => c = 2 * i + 1 \/ c = 2 * i + 2
    BY HeapShape
  <2>3. QED
    BY <2>1, <2>2 DEF KidsArrived
<1>6. local = IF state[i] = "Computing" /\ d THEN "WaitingChildren" ELSE state[i]
  BY DEF LocalStage
<1>7. \/ middle = local
      \/ /\ local = "WaitingChildren" /\ reported >= child_count(i, NumPe)
         /\ middle = IF i = 0 THEN "Advancing" ELSE "WaitingNext"
  BY DEF ChildrenStage, is_root
<1>8. after = IF middle = "WaitingNext" /\ nexted THEN "Advancing" ELSE middle
  BY DEF NextStage
<1>9. SyncEmits(i, fs, d) =
        (IF local = "WaitingChildren" /\ middle = "WaitingNext"
         THEN {make_report(i)} ELSE {})
        \cup (IF state[i] # "Advancing" /\ after = "Advancing"
              THEN Nexts(i) ELSE {})
  BY DEF SyncEmits, Emitted, Nexts
<1> HIDE DEF reported, nexted, local, middle, after
<1>10. CASE middle = local
  <2>1. CASE local = "WaitingNext" /\ nexted
    BY <1>1, <1>2, <1>3, <1>6, <1>8, <1>9, <1>10, <2>1
       DEF Forwards, nexted, PeSyncState
  <2>2. CASE ~(local = "WaitingNext" /\ nexted)
    BY <1>1, <1>2, <1>6, <1>8, <1>9, <1>10, <2>2
       DEF Stays, Finishes, PeSyncState
  <2>3. QED
    BY <2>1, <2>2
<1>11. CASE /\ local = "WaitingChildren" /\ reported >= child_count(i, NumPe)
            /\ middle = IF i = 0 THEN "Advancing" ELSE "WaitingNext"
  <2>1. Unfinished(i) /\ ~nexted /\ after = middle /\ KidsArrived(i, fs)
    BY <1>1, <1>3, <1>5, <1>6, <1>8, <1>11 DEF Unfinished, PeSyncState
  <2>2. QED
    BY <1>2, <1>9, <1>11, <2>1 DEF Reports, Starts, Unfinished
<1>12. QED
  BY <1>7, <1>10, <1>11

(* What a compute of PE i changes, variable by variable. *)
LEMMA Frame ==
  ASSUME IInv, NEW i \in Pe, NEW fs, CanReceive(i, fs), NEW d \in BOOLEAN,
         PeCompute(i, fs, d)
  PROVE  /\ \A j \in Pe \ {i} : /\ state'[j] = state[j]
                              /\ children_reported'[j] = children_reported[j]
                              /\ next_received'[j] = next_received[j]
                              /\ local_done'[j] = local_done[j]
         /\ children_reported'[i] = Reported(i, fs)
         /\ next_received'[i] <=> Nexted(i, fs)
         /\ current_t' = current_t
         /\ state'[i] # "Computing" => local_done'[i]
         /\ \A g \in SyncFlit :
              /\ net[g] \in Nat /\ One(Got(fs, g)) <= net[g]
              /\ net'[g] = net[g] - One(Got(fs, g)) + One(g \in SyncEmits(i, fs, d))
         /\ TypeOK'
<1>1. /\ state \in [Pe -> PeSyncState] /\ children_reported \in [Pe -> Nat]
      /\ next_received \in [Pe -> BOOLEAN] /\ local_done \in [Pe -> BOOLEAN]
      /\ net \in [SyncFlit -> Nat] /\ current_t \in [Pe -> Timestep]
  BY DEF IInv, TypeOK, SyncTypeOK
<1>2. /\ state' = [state EXCEPT ![i] = NextStage(i, d, Reported(i, fs), Nexted(i, fs))]
      /\ children_reported' = [children_reported EXCEPT ![i] = Reported(i, fs)]
      /\ next_received' = [next_received EXCEPT ![i] = Nexted(i, fs)]
      /\ current_t' = current_t
  BY DEF PeCompute, SyncStep
<1>3. /\ local_done[i] => d
      /\ net' = [g \in SyncFlit |->
                   net[g] - One(Got(fs, g)) + One(g \in SyncEmits(i, fs, d))]
  BY DEF PeCompute
<1>4. PICK after \in BOOLEAN : local_done' = [local_done EXCEPT ![i] = d \/ after]
  BY DEF PeCompute
<1>5. local_done' \in [Pe -> BOOLEAN] /\ (d => local_done'[i])
  BY <1>1, <1>4
<1>6. next_received' \in [Pe -> BOOLEAN] /\ (next_received'[i] <=> Nexted(i, fs))
  <2>1. Nexted(i, fs) \in BOOLEAN
    BY <1>1 DEF Nexted
  <2>2. QED
    BY <1>1, <1>2, <2>1
<1>7. Reported(i, fs) \in Nat
  BY Receiving DEF One
<1>8. children_reported' \in [Pe -> Nat]
  BY <1>1, <1>2, <1>7
<1>9. state' \in [Pe -> PeSyncState]
  <2>1. state'[i] \in PeSyncState
    <3>1. CASE Stays(i, SyncEmits(i, fs, d))
      BY <1>1, <3>1 DEF Stays
    <3>2. QED
      BY <3>1, Transition DEF Finishes, Reports, Starts, Forwards, PeSyncState
  <2>2. QED
    BY <1>1, <1>2, <2>1
<1>10. net' \in [SyncFlit -> Nat]
  <2>1. \A g \in SyncFlit : One(Got(fs, g)) <= net[g] /\ net[g] \in Nat
    BY <1>1, Receiving
  <2>2. QED
    BY <1>3, <2>1 DEF One
<1>11. state'[i] # "Computing" => local_done'[i]
  <2>1. state[i] # "Computing" => d
    BY <1>3 DEF IInv, ReleaseInv
  <2>2. state[i] = "Computing" /\ ~d => state'[i] = "Computing"
    BY <1>1, <1>2 DEF NextStage, ChildrenStage, LocalStage
  <2>3. QED
    BY <1>5, <2>1, <2>2
<1>12. TypeOK'
  BY <1>1, <1>2, <1>5, <1>6, <1>8, <1>9, <1>10 DEF TypeOK, SyncTypeOK
<1>13. \A g \in SyncFlit :
          /\ net[g] \in Nat /\ One(Got(fs, g)) <= net[g]
          /\ net'[g] = net[g] - One(Got(fs, g)) + One(g \in SyncEmits(i, fs, d))
  BY <1>1, <1>3, Receiving
<1>14. QED
  BY <1>1, <1>2, <1>4, <1>6, <1>11, <1>12, <1>13

(* Nobody goes back within a timestep. *)
LEMMA Forward ==
  ASSUME IInv, NEW i \in Pe, NEW fs, CanReceive(i, fs), NEW d \in BOOLEAN,
         PeCompute(i, fs, d), NEW j \in Pe
  PROVE  /\ state[j] = "Advancing" => state'[j] = "Advancing"
         /\ HasReported(j) => HasReported(j)'
<1>1. CASE j = i
  BY <1>1, Transition
     DEF Stays, Finishes, Reports, Starts, Forwards, Unfinished, HasReported
<1>2. CASE j # i
  BY <1>2, Frame DEF HasReported
<1>3. QED
  BY <1>1, <1>2

LEMMA EmittedFlits ==
  ASSUME IInv, NEW i \in Pe
  PROVE  /\ \A c \in Pe \ {0} : make_report(c) \in SyncFlit
         /\ \A c \in Pe : make_report(c) \notin Nexts(i)
         /\ \A c, g \in Pe : make_report(c) = make_report(g) => c = g
         /\ \A g \in Nexts(i) :
              /\ g.type = "NextTimestep" /\ g.src = i /\ g.timestep = current_t[i]
              /\ g.dst \in Pe \ {0} /\ parent(g.dst) = i /\ g.dst # i
              /\ g = make_next(i, g.dst) /\ g \in SyncFlit
<1>1. current_t \in [Pe -> Timestep]
  BY DEF IInv, TypeOK, SyncTypeOK
<1>2. \A c \in Pe \ {0} : make_report(c) \in SyncFlit
  BY <1>1, HeapShape DEF make_report, SyncFlit
<1>3. \A c \in Pe : make_report(c) \notin Nexts(i)
  BY DEF make_report, Nexts, make_next
<1>4. ASSUME NEW c \in children(i, NumPe)
      PROVE  c \in Pe \ {0} /\ parent(c) = i /\ c # i
  BY HeapShape, PeFacts
<1>5. QED
  BY <1>1, <1>2, <1>3, <1>4, PeFacts DEF make_next, Nexts, SyncFlit

(* A report has arrived after the compute when it had before, or does now. *)
LEMMA ArrivedNext ==
  ASSUME IInv, NEW i \in Pe, NEW fs, CanReceive(i, fs), NEW d \in BOOLEAN,
         PeCompute(i, fs, d), NEW c \in Pe \ {0}
  PROVE  Arrived(c)' <=> ArrivedAt(c, fs)
<1> DEFINE E == SyncEmits(i, fs, d)
           r == make_report(c)
<1>1. r \in SyncFlit /\ r \notin Nexts(i) /\ make_report(c)' = r
  BY EmittedFlits, Frame DEF make_report
<1>2. /\ net[r] \in Nat /\ One(Got(fs, r)) <= net[r]
      /\ net'[r] = net[r] - One(Got(fs, r)) + One(r \in E)
      /\ c # i => state'[c] = state[c]
  BY <1>1, Frame
<1>3. Stays(i, E) \/ Finishes(i, E) \/ Reports(i, fs, E)
        \/ Starts(i, fs, E) \/ Forwards(i, fs, E)
  BY Transition
<1> HIDE DEF r, E
<1>4. /\ Arrived(c)' <=> HasReported(c)' /\ net'[r] = 0
      /\ ArrivedAt(c, fs) <=> HasReported(c) /\ net[r] = One(Got(fs, r))
  BY <1>1 DEF Arrived, ArrivedAt, r
<1>5. CASE Reports(i, fs, E) /\ c = i
  BY <1>2, <1>4, <1>5 DEF Reports, Unfinished, HasReported, One, r
<1>6. CASE ~(Reports(i, fs, E) /\ c = i)
  <2>1. r \notin E
    BY <1>1, <1>3, <1>6, EmittedFlits
       DEF Stays, Finishes, Reports, Starts, Forwards, r
  <2>2. HasReported(c)' <=> HasReported(c)
    BY <1>2, <1>3, <1>6
       DEF Stays, Finishes, Reports, Starts, Forwards, Unfinished, HasReported
  <2>3. QED
    BY <1>2, <1>4, <2>1, <2>2 DEF One
<1>7. QED
  BY <1>5, <1>6

LEMMA ComputeNet ==
  ASSUME IInv, NEW i \in Pe, NEW fs, CanReceive(i, fs), NEW d \in BOOLEAN,
         PeCompute(i, fs, d)
  PROVE  NetInv'
<1> DEFINE E == SyncEmits(i, fs, d)
<1> SUFFICES ASSUME NEW g \in SyncFlit, net'[g] # 0
             PROVE  net'[g] = 1 /\ g.timestep = current_t[g.src] /\ Sender(g)'
  BY Frame DEF NetInv
<1>1. /\ net[g] \in Nat /\ One(Got(fs, g)) <= net[g]
      /\ net'[g] = net[g] - One(Got(fs, g)) + One(g \in E)
  BY Frame
<1>2. Stays(i, E) \/ Finishes(i, E) \/ Reports(i, fs, E)
        \/ Starts(i, fs, E) \/ Forwards(i, fs, E)
  BY Transition
<1> HIDE DEF E
<1>3. CASE g \notin E
  <2>1. net[g] = 1 /\ ~Got(fs, g) /\ net'[g] = 1
    BY <1>1, <1>3, UnderWay DEF One
  <2>2. CASE g = make_report(g.src) /\ g.src \in Pe \ {0}
    <3>1. /\ state[g.src] = "WaitingNext" /\ g.dst = parent(g.src)
          /\ g.type = "Report" /\ g.timestep = current_t[g.src]
      BY <2>1, <2>2, UnderWay DEF make_report, make_next
    <3>2. ~HasReported(parent(g.src))
      BY <2>1, <2>2 DEF IInv, SubtreeInv, Arrived
    <3>3. g.src = i => ~Nexted(i, fs)
      BY <3>2, Receiving DEF HasReported
    <3>4. state'[g.src] = "WaitingNext"
      BY <1>2, <2>2, <3>1, <3>3, Frame
         DEF Stays, Finishes, Reports, Starts, Forwards, Unfinished
    <3>5. QED
      BY <2>1, <2>2, <3>1, <3>4 DEF Sender
  <2>3. CASE g = make_next(g.src, g.dst) /\ g.dst \in Pe \ {0}
    <3>1. /\ g.src = parent(g.dst) /\ g.type = "NextTimestep" /\ g.src \in Pe
          /\ state[g.src] = "Advancing" /\ state[g.dst] = "WaitingNext"
          /\ ~next_received[g.dst] /\ g.timestep = current_t[g.src]
      BY <2>1, <2>3, UnderWay, HeapShape DEF make_report, make_next
    <3>2. g.dst = i => ~Nexted(i, fs)
      <4>1. SUFFICES ASSUME g.dst = i, NEW f \in SyncFlit, fs = <<f>>, net[f] > 0,
                            f.type = "NextTimestep"
                     PROVE  FALSE
        BY <3>1, Receiving
      <4>2. f.dst = i
        BY <4>1 DEF CanReceive
      <4>3. f = make_next(parent(i), i)
        BY <4>1, <4>2, UnderWay DEF make_report
      <4>4. f = g
        BY <2>3, <3>1, <4>1, <4>3
      <4>5. QED
        BY <2>1, <4>1, <4>4, GotFacts
    <3>3. state'[g.dst] = "WaitingNext" /\ ~next_received'[g.dst]
      BY <1>2, <2>3, <3>1, <3>2, Frame
         DEF Stays, Finishes, Reports, Starts, Forwards, Unfinished
    <3>4. QED
      BY <2>1, <2>3, <3>1, <3>3, Forward DEF Sender
  <2>4. QED
    BY <2>1, <2>2, <2>3, UnderWay
<1>4. CASE g \in E /\ Reports(i, fs, E)
  <2>1. /\ g = make_report(i) /\ g.src = i /\ i # 0 /\ state'[i] = "WaitingNext"
        /\ g.type = "Report" /\ g.dst = parent(i) /\ g.timestep = current_t[i]
        /\ Unfinished(i)
    BY <1>4 DEF Reports, make_report
  <2>2. net[g] = 0
    BY <1>1, <2>1, UnderWay DEF Unfinished, make_next
  <2>3. QED
    BY <1>1, <1>4, <2>1, <2>2 DEF Sender, One
<1>5. CASE g \in E /\ (Starts(i, fs, E) \/ Forwards(i, fs, E))
  <2>1. /\ g.type = "NextTimestep" /\ g.src = i /\ g.timestep = current_t[i]
        /\ g.dst \in Pe \ {0} /\ parent(g.dst) = i /\ g.dst # i
        /\ state'[i] = "Advancing" /\ state[i] # "Advancing"
    BY <1>5, EmittedFlits DEF Starts, Forwards, Unfinished
  <2>2. net[g] = 0
    BY <1>1, <2>1, UnderWay DEF make_report
  <2>3. HasReported(g.dst)
    BY <1>5, <2>1
       DEF Starts, Forwards, KidsArrived, ArrivedAt, IInv, SubtreeInv, Arrived,
           HasReported
  <2>4. state[g.dst] = "WaitingNext" /\ ~next_received[g.dst]
    BY <2>1, <2>3 DEF IInv, ReleaseInv, HasReported
  <2>5. state'[g.dst] = "WaitingNext" /\ ~next_received'[g.dst]
    BY <2>1, <2>4, Frame
  <2>6. QED
    BY <1>1, <1>5, <2>1, <2>2, <2>5 DEF Sender, One
<1>6. QED
  BY <1>2, <1>3, <1>4, <1>5 DEF Stays, Finishes, Reports, Starts, Forwards

LEMMA ComputeCount ==
  ASSUME IInv, NEW i \in Pe, NEW fs, CanReceive(i, fs), NEW d \in BOOLEAN,
         PeCompute(i, fs, d)
  PROVE  CountInv'
<1> SUFFICES ASSUME NEW j \in Pe
             PROVE  children_reported'[j] =
                      One(2 * j + 1 \in Pe /\ Arrived(2 * j + 1)')
                        + One(2 * j + 2 \in Pe /\ Arrived(2 * j + 2)')
  BY DEF CountInv, Arrived, HasReported, make_report, One
<1>1. \A c \in {2 * j + 1, 2 * j + 2} : c \in Pe => c \in Pe \ {0} /\ parent(c) = j
  BY HeapShape
<1>2. \A c \in {2 * j + 1, 2 * j + 2} :
        c \in Pe => (Arrived(c)' <=> ArrivedAt(c, fs))
  BY <1>1, ArrivedNext
<1>3. CASE j = i
  BY <1>2, <1>3, Receiving, Frame DEF One
<1>4. CASE j # i
  <2>1. \A c \in Pe : parent(c) = j => ~Got(fs, make_report(c))
    BY <1>4, GotFacts DEF CanReceive, make_report
  <2>2. \A c \in {2 * j + 1, 2 * j + 2} :
          c \in Pe => (ArrivedAt(c, fs) <=> Arrived(c))
    BY <1>1, <2>1 DEF ArrivedAt, Arrived, One
  <2>3. children_reported'[j] = children_reported[j] /\ CountInv
    BY <1>4, Frame DEF IInv
  <2>4. QED
    BY <1>2, <2>2, <2>3 DEF CountInv, One
<1>5. QED
  BY <1>3, <1>4

LEMMA ComputeSubtree ==
  ASSUME IInv, NEW i \in Pe, NEW fs, CanReceive(i, fs), NEW d \in BOOLEAN,
         PeCompute(i, fs, d)
  PROVE  SubtreeInv'
<1> SUFFICES ASSUME NEW c \in Pe \ {0}, HasReported(parent(c))'
             PROVE  Arrived(c)'
  BY DEF SubtreeInv
<1>1. parent(c) \in Pe
  BY HeapShape
<1>2. CASE HasReported(parent(c))
  BY <1>2, Receiving, ArrivedNext DEF IInv, SubtreeInv
<1>3. CASE ~HasReported(parent(c))
  <2>1. parent(c) = i
    BY <1>1, <1>3, Frame DEF HasReported
  <2>2. KidsArrived(i, fs)
    BY <1>3, <2>1, Transition
       DEF Stays, Finishes, Reports, Starts, Forwards, HasReported
  <2>3. QED
    BY <2>1, <2>2, ArrivedNext DEF KidsArrived
<1>4. QED
  BY <1>2, <1>3

LEMMA ComputeRelease ==
  ASSUME IInv, NEW i \in Pe, NEW fs, CanReceive(i, fs), NEW d \in BOOLEAN,
         PeCompute(i, fs, d)
  PROVE  ReleaseInv'
<1> SUFFICES ASSUME NEW j \in Pe
             PROVE  /\ next_received'[j] =>
                         /\ j # 0 /\ state'[parent(j)] = "Advancing"
                         /\ HasReported(j)'
                    /\ state'[j] = "Advancing" => j = 0 \/ next_received'[j]
                    /\ state'[j] = "Advancing" => state'[0] = "Advancing"
                    /\ state'[j] # "Computing" => local_done'[j]
  BY DEF ReleaseInv, HasReported
<1>1. ReleaseInv
  BY DEF IInv
<1>2. j # 0 => parent(j) \in Pe
  BY HeapShape
<1>3. next_received'[j] => /\ j # 0 /\ state[parent(j)] = "Advancing"
                           /\ HasReported(j)
  BY <1>1, Frame, Receiving DEF ReleaseInv
<1>4. next_received'[j] => /\ j # 0 /\ state'[parent(j)] = "Advancing"
                           /\ HasReported(j)'
  BY <1>2, <1>3, Forward
<1>5. next_received[j] => next_received'[j]
  BY Frame, Receiving
<1>6. /\ state'[j] = "Advancing" => j = 0 \/ next_received'[j]
      /\ state'[j] = "Advancing" =>
           j = 0 \/ state[j] = "Advancing" \/ state[parent(j)] = "Advancing"
  <2>1. CASE j # i
    BY <1>1, <1>5, <2>1, Frame DEF ReleaseInv
  <2>2. CASE j = i
    BY <1>1, <1>3, <1>5, <2>2, Frame, Transition
       DEF Stays, Finishes, Reports, Starts, Forwards, ReleaseInv
  <2>3. QED
    BY <2>1, <2>2
<1>7. state'[j] = "Advancing" => state'[0] = "Advancing"
  <2>1. 0 \in Pe
    BY PeFacts
  <2>2. QED
    BY <1>1, <1>2, <1>6, <2>1, Forward DEF ReleaseInv
<1>8. state'[j] # "Computing" => local_done'[j]
  BY <1>1, Frame DEF ReleaseInv
<1>9. QED
  BY <1>4, <1>6, <1>7, <1>8

LEMMA ComputeIInv ==
  ASSUME IInv, NEW i \in Pe, NEW fs, CanReceive(i, fs), NEW d \in BOOLEAN,
         PeCompute(i, fs, d)
  PROVE  IInv'
<1>1. TypeOK' /\ SameTimestep'
  BY Frame DEF IInv, SameTimestep
<1>2. NetInv'
  BY ComputeNet
<1>3. CountInv'
  BY ComputeCount
<1>4. SubtreeInv'
  BY ComputeSubtree
<1>5. ReleaseInv'
  BY ComputeRelease
<1>6. QED
  BY <1>1, <1>2, <1>3, <1>4, <1>5 DEF IInv

-----------------------------------------------------------------------------
(* What the invariant says of a released PE. *)
LEMMA Released ==
  ASSUME IInv, NEW i \in Pe, ready_to_advance(i), NEW j \in Pe
  PROVE  HasReported(j) /\ local_done[j]
<1> DEFINE S == {k \in Pe : HasReported(k)}
<1>1. 0 \in S
  BY PeFacts DEF IInv, ReleaseInv, ready_to_advance, HasReported
<1>2. \A c \in Pe \ {0} : parent(c) \in S => c \in S
  BY DEF IInv, SubtreeInv, Arrived
<1>3. S = Pe
  <2> HIDE DEF S
  <2>1. S \in SUBSET Pe
    BY DEF S
  <2>2. QED
    BY <1>1, <1>2, <2>1, TreeInduction
<1>4. HasReported(j)
  BY <1>3
<1>5. QED
  BY <1>4 DEF IInv, ReleaseInv, HasReported

LEMMA NobodyEarly == IInv => NobodyReleasedEarly
BY Released DEF NobodyReleasedEarly

LEMMA AllReleasedNoneUnderWay ==
  ASSUME IInv, \A i \in Pe : ready_to_advance(i), NEW f \in SyncFlit
  PROVE  net[f] = 0
<1>1. net[f] \in Nat
  BY DEF IInv, TypeOK
<1>2. ~(net[f] > 0)
  BY UnderWay DEF ready_to_advance
<1>3. QED
  BY <1>1, <1>2

LEMMA BeginIInv ==
  ASSUME IInv, Begin
  PROVE  IInv'
<1>1. /\ state' = [i \in Pe |-> "Computing"]
      /\ current_t' = [i \in Pe |-> current_t[i] + 1]
      /\ children_reported' = [i \in Pe |-> 0]
      /\ next_received' = [i \in Pe |-> FALSE]
      /\ local_done' = [i \in Pe |-> FALSE] /\ net' = net
  BY DEF Begin, BeginNextTimestep
<1>2. \A i \in Pe : ready_to_advance(i) /\ current_t[i] + 1 < NumTimesteps
  BY DEF Begin
<1>3. \A f \in SyncFlit : net[f] = 0
  BY <1>2, AllReleasedNoneUnderWay
<1>4. current_t' \in [Pe -> Timestep]
  BY <1>1, <1>2, NumTimestepsAssumption DEF IInv, TypeOK, SyncTypeOK, Timestep
<1>5. TypeOK'
  BY <1>1, <1>4 DEF IInv, TypeOK, SyncTypeOK, PeSyncState
<1>6. NetInv'
  BY <1>1, <1>3 DEF NetInv
<1>7. \A i \in Pe : ~HasReported(i)'
  BY <1>1 DEF HasReported
<1>8. CountInv'
  BY <1>1, <1>7 DEF CountInv, Arrived, One
<1>9. SubtreeInv' /\ ReleaseInv'
  BY <1>1, <1>7, HeapShape DEF SubtreeInv, ReleaseInv, HasReported
<1>10. SameTimestep'
  BY <1>1 DEF IInv, SameTimestep
<1>11. QED
  BY <1>5, <1>6, <1>8, <1>9, <1>10 DEF IInv

LEMMA InitIInv ==
  ASSUME Init
  PROVE  IInv
<1>1. TypeOK
  BY NumTimestepsAssumption
     DEF Init, SyncInit, TypeOK, SyncTypeOK, Timestep, PeSyncState
<1>2. NetInv /\ SameTimestep
  BY DEF Init, SyncInit, NetInv, SameTimestep
<1>3. \A i \in Pe : ~HasReported(i)
  BY DEF Init, SyncInit, HasReported
<1>4. CountInv
  BY <1>3 DEF Init, SyncInit, CountInv, Arrived, One
<1>5. SubtreeInv /\ ReleaseInv
  BY <1>3, HeapShape DEF Init, SyncInit, SubtreeInv, ReleaseInv, HasReported
<1>6. QED
  BY <1>1, <1>2, <1>4, <1>5 DEF IInv

(* Every step of the protocol is a compute of one PE or the common Begin. *)
LEMMA StepKinds ==
  ASSUME Next
  PROVE  \/ \E i \in Pe, d \in BOOLEAN : \E fs :
              CanReceive(i, fs) /\ PeCompute(i, fs, d)
         \/ Begin
<1>1. ASSUME NEW i \in Pe, Work(i)
      PROVE  \E d \in BOOLEAN : CanReceive(i, << >>) /\ PeCompute(i, << >>, d)
  BY <1>1 DEF Work, CanReceive
<1>2. ASSUME NEW f \in SyncFlit, Receive(f)
      PROVE  /\ f.dst \in Pe
             /\ \E d \in BOOLEAN :
                  CanReceive(f.dst, <<f>>) /\ PeCompute(f.dst, <<f>>, d)
  BY <1>2 DEF Receive, CanReceive, SyncFlit
<1>3. QED
  BY <1>1, <1>2 DEF Next

LEMMA NextIInv ==
  ASSUME IInv, [Next]_protocolVars
  PROVE  IInv'
<1>1. CASE Next
  BY <1>1, StepKinds, ComputeIInv, BeginIInv
<1>2. CASE UNCHANGED protocolVars
  BY <1>2 DEF protocolVars, syncVars, IInv, TypeOK, SyncTypeOK, NetInv, Sender,
     CountInv, Arrived, HasReported, make_report, SubtreeInv, ReleaseInv,
     SameTimestep
<1>3. QED
  BY <1>1, <1>2

(* IInv is an inductive invariant of the protocol. *)
THEOREM Inductive == Spec => []IInv
<1>1. Init => IInv
  BY InitIInv
<1>2. IInv /\ [Next]_protocolVars => IInv'
  BY NextIInv
<1>3. QED
  BY <1>1, <1>2, PTL DEF Spec

(* The controllers' states, counts and flits stay within their types; in
   particular no PE leaves its last timestep. *)
THEOREM TypeCorrect == Spec => []TypeOK
<1>1. IInv => TypeOK
  BY DEF IInv
<1>2. QED
  BY <1>1, Inductive, PTL

(* step() of sync_fsm.cpp releases a PE only when every PE has finished its
   work of the timestep and has reported it. *)
THEOREM BarrierHolds == Spec => []NobodyReleasedEarly
BY NobodyEarly, Inductive, PTL

(* on_received never meets a flit of another timestep, so it drops none. *)
THEOREM NoFlitIsStale == Spec => []NeverStale
<1>1. IInv => NeverStale
  BY UnderWay DEF NeverStale
<1>2. QED
  BY <1>1, Inductive, PTL

(* children_reported_ never counts a child twice, whatever the order and the
   delay of the reports. *)
THEOREM NoDoubleCount == Spec => []CountedOnce
<1>1. ASSUME IInv PROVE CountedOnce
  <2>1. \A f \in SyncFlit : net[f] <= 1
    BY <1>1 DEF IInv, TypeOK, NetInv
  <2>2. ASSUME NEW i \in Pe
        PROVE  children_reported[i] <= child_count(i, NumPe)
    BY <1>1, HeapShape DEF IInv, CountInv, One
  <2>3. QED
    BY <2>1, <2>2 DEF CountedOnce
<1>2. QED
  BY <1>1, Inductive, PTL

(* begin_next_timestep needs no drained network: when the engine calls it, no
   sync flit is under way. *)
THEOREM BarrierIsSilent == Spec => []SilentAtBarrier
<1>1. IInv => SilentAtBarrier
  BY AllReleasedNoneUnderWay DEF SilentAtBarrier
<1>2. QED
  BY <1>1, Inductive, PTL

-----------------------------------------------------------------------------
LEMMA ComputeIsBarrierStep ==
  ASSUME IInv, NEW i \in Pe, NEW fs, CanReceive(i, fs), NEW d \in BOOLEAN,
         PeCompute(i, fs, d)
  PROVE  Barrier!Compute(i)
<1> DEFINE done == {j \in Pe : state[j] # "Computing"}
           released == {j \in Pe : ready_to_advance(j)}
<1> DEFINE E == SyncEmits(i, fs, d)
<1>0. \/ Stays(i, E) \/ Finishes(i, E) \/ Reports(i, fs, E)
      \/ Starts(i, fs, E) \/ Forwards(i, fs, E)
  BY Transition
<1> HIDE DEF E
<1>1. /\ \A j \in Pe \ {i} : state'[j] = state[j]
      /\ current_t' = current_t
      /\ state[i] # "Computing" => state'[i] # "Computing"
      /\ ready_to_advance(i) => ready_to_advance(i)'
  BY <1>0, Frame
     DEF Stays, Finishes, Reports, Starts, Forwards, Unfinished, ready_to_advance
<1>2. done' \in {done, done \cup {i}}
  BY <1>1
<1>3. released' \in {released, released \cup {i}}
  BY <1>1 DEF ready_to_advance
<1>4. ASSUME released' # released PROVE done' = Barrier!All
  <2>1. PICK k \in Pe : ready_to_advance(k)'
    BY <1>3, <1>4
  <2>2. IInv'
    BY ComputeIInv
  <2>3. NobodyReleasedEarly'
    BY <2>2, NobodyEarly, PTL
  <2>4. QED
    BY <2>1, <2>3 DEF NobodyReleasedEarly, HasReported, Barrier!All, Pe
<1>5. QED
  BY <1>1, <1>2, <1>3, <1>4 DEF Barrier!Compute

(* The tree protocol implements the abstract barrier. *)
THEOREM TreeIsBarrier == Spec => ImplementsBarrier
<1>1. Init => Barrier!BarrierInit
  BY PeFacts DEF Init, SyncInit, Barrier!BarrierInit, ready_to_advance
<1>2. ASSUME IInv, Begin PROVE Barrier!Begin
  <2>1. \A i \in Pe : ready_to_advance(i) /\ current_t[i] + 1 < NumTimesteps
    BY <1>2 DEF Begin
  <2>2. /\ state' = [i \in Pe |-> "Computing"]
        /\ current_t' = [i \in Pe |-> current_t[i] + 1]
    BY <1>2 DEF Begin, BeginNextTimestep
  <2>3. QED
    BY <2>1, <2>2, PeFacts DEF Barrier!Begin, Barrier!All, Pe, ready_to_advance
<1>3. IInv /\ [Next]_protocolVars => [Barrier!BarrierNext]_(Barrier!barrierVars)
  <2> SUFFICES ASSUME IInv, [Next]_protocolVars
               PROVE  [Barrier!BarrierNext]_(Barrier!barrierVars)
    OBVIOUS
  <2>1. CASE Next
    <3>1. \A i : i \in Pe => i \in Barrier!All
      BY DEF Pe, Barrier!All
    <3>2. QED
      BY <1>2, <2>1, <3>1, StepKinds, ComputeIsBarrierStep DEF Barrier!BarrierNext
  <2>2. CASE UNCHANGED protocolVars
    BY <2>2 DEF protocolVars, syncVars, Barrier!barrierVars, ready_to_advance
  <2>3. QED
    BY <2>1, <2>2
<1>4. QED
  BY <1>1, <1>3, Inductive, PTL DEF Spec, ImplementsBarrier, Barrier!BarrierSpec
=============================================================================
