------------------------- MODULE SyncControllerProofs -------------------------
(***************************************************************************)
(* What one step of a barrier controller emits, and in which order, for    *)
(* every number of PEs below the wrap-around of the heap: the lemmas the   *)
(* theorems about BspEngine and NetworkRunner share.                       *)
(***************************************************************************)
EXTENDS SyncController, Sequences, SequenceTheorems, FiniteSetTheorems, TLAPS

(* The binary heap below PE i, without the wrap-around of 16 bits. *)
LEMMA Heap ==
  ASSUME NEW i \in Pe
  PROVE  /\ children(i, NumPe) = {c \in {2 * i + 1, 2 * i + 2} : c \in Pe}
         /\ child_count(i, NumPe) = (IF 2 * i + 1 \in Pe THEN 1 ELSE 0)
                                      + (IF 2 * i + 2 \in Pe THEN 1 ELSE 0)
         /\ \A c \in Pe : c # 0 /\ parent(c) = i <=> c \in {2 * i + 1, 2 * i + 2}
         /\ i # 0 => parent(i) \in Pe /\ parent(i) < i
         /\ i \in Nat /\ 0 \in Pe
<1>1. NumPe \in Nat /\ NumPe <= 32767 /\ i \in Nat /\ i < NumPe
  BY NumPeAssumption DEF Pe
<1>2. left_child(i) = 2 * i + 1 /\ right_child(i) = 2 * i + 2
  BY <1>1 DEF left_child, right_child
<1>3. children(i, NumPe) = {c \in {2 * i + 1, 2 * i + 2} : c \in Pe}
  BY <1>1, <1>2 DEF Pe, children
<1>4. child_count(i, NumPe) = (IF 2 * i + 1 \in Pe THEN 1 ELSE 0)
                                + (IF 2 * i + 2 \in Pe THEN 1 ELSE 0)
  BY <1>1, <1>2 DEF Pe, child_count
<1>5. ASSUME NEW c \in Pe
      PROVE  c # 0 /\ parent(c) = i <=> c \in {2 * i + 1, 2 * i + 2}
  BY <1>1 DEF Pe, parent
<1>6. i # 0 => parent(i) \in Pe /\ parent(i) < i
  BY <1>1 DEF Pe, parent
<1>7. QED
  BY <1>1, <1>3, <1>4, <1>5, <1>6 DEF Pe

-----------------------------------------------------------------------------
(* The sync flits that one step of a controller emits. *)

Sorted(q) == \A i, j \in DOMAIN q : i < j => q[i].dst < q[j].dst

Enum(F) == {q \in [1 .. Cardinality(F) -> F] : Sorted(q)}

LEMMA OnlyOrder ==
  ASSUME NEW F, NEW s, Enum(F) = {s}
  PROVE  InOrder(F) = s
<1>1. InOrder(F) = CHOOSE q \in [1 .. Cardinality(F) -> F] : Sorted(q)
  BY DEF InOrder, Sorted
<1>2. \A q : q \in [1 .. Cardinality(F) -> F] /\ Sorted(q) <=> q = s
  BY DEF Enum
<1>3. QED
  BY <1>1, <1>2

LEMMA InOrderOfOne ==
  ASSUME NEW a
  PROVE  InOrder({}) = << >> /\ InOrder({a}) = <<a>>
<1>1. Enum({}) = {<< >>}
  <2>1. Cardinality({}) = 0
    BY FS_EmptySet
  <2>2. 1 .. 0 = {}
    OBVIOUS
  <2>3. \A q : q \in [1 .. 0 -> {}] <=> q = << >>
    <3>1. << >> \in [1 .. 0 -> {}]
      BY <2>2
    <3>2. ASSUME NEW q \in [1 .. 0 -> {}] PROVE q = << >>
      <4>1. q \in Seq({})
        BY SeqDef
      <4>2. DOMAIN q = {} /\ DOMAIN q = 1 .. Len(q) /\ Len(q) \in Nat
        BY <2>2, <4>1, LenProperties
      <4>3. ~(Len(q) \in Nat \ {0})
        BY <4>2
      <4>4. QED
        BY <4>1, <4>3, EmptySeq
    <3>3. QED
      BY <3>1, <3>2
  <2>4. Sorted(<< >>)
    BY DEF Sorted
  <2>5. QED
    BY <2>1, <2>3, <2>4 DEF Enum
<1>2. Enum({a}) = {<<a>>}
  <2>1. Cardinality({a}) = 1
    BY FS_Singleton
  <2>2. \A q : q \in [1 .. 1 -> {a}] <=> q = <<a>>
    OBVIOUS
  <2>3. Sorted(<<a>>)
    BY DEF Sorted
  <2>4. QED
    BY <2>1, <2>2, <2>3 DEF Enum
<1>3. QED
  BY <1>1, <1>2, OnlyOrder

LEMMA InOrderOfTwo ==
  ASSUME NEW a, NEW b, a.dst \in Int, b.dst \in Int, a.dst < b.dst
  PROVE  InOrder({a, b}) = <<a, b>>
<1>1. Enum({a, b}) = {<<a, b>>}
  <2>1. Cardinality({a, b}) = 2
    <3>1. b \notin {a}
      OBVIOUS
    <3>2. IsFiniteSet({a}) /\ Cardinality({a}) = 1
      BY FS_Singleton
    <3>3. {a, b} = {a} \cup {b}
      OBVIOUS
    <3>4. Cardinality({a} \cup {b}) = 1 + 1
      BY <3>1, <3>2, FS_AddElement
    <3>5. QED
      BY <3>3, <3>4
  <2>2. ASSUME NEW q \in [1 .. 2 -> {a, b}], Sorted(q) PROVE q = <<a, b>>
    <3>1. q[1] \in {a, b} /\ q[2] \in {a, b} /\ q[1].dst < q[2].dst
      BY <2>2 DEF Sorted
    <3>2. q[1] = a /\ q[2] = b
      BY <3>1
    <3>3. QED
      BY <3>2
  <2>3. <<a, b>> \in [1 .. 2 -> {a, b}] /\ Sorted(<<a, b>>)
    BY DEF Sorted
  <2>4. QED
    BY <2>1, <2>2, <2>3 DEF Enum
<1>2. QED
  BY <1>1, OnlyOrder

LEMMA InOrderOfThree ==
  ASSUME NEW a, NEW b, NEW c, a.dst \in Int, b.dst \in Int, c.dst \in Int,
         a.dst < b.dst, b.dst < c.dst
  PROVE  InOrder({a, b, c}) = <<a, b, c>>
<1> DEFINE F == {a, b, c}
<1>1. Cardinality(F) = 3
  <2>1. b \notin {a} /\ c \notin {a} \cup {b}
    OBVIOUS
  <2>2. IsFiniteSet({a}) /\ Cardinality({a}) = 1
    BY FS_Singleton
  <2>3. IsFiniteSet({a} \cup {b}) /\ Cardinality({a} \cup {b}) = 1 + 1
    BY <2>1, <2>2, FS_AddElement
  <2>4. Cardinality(({a} \cup {b}) \cup {c}) = 1 + 1 + 1
    BY <2>1, <2>3, FS_AddElement
  <2>5. F = ({a} \cup {b}) \cup {c}
    OBVIOUS
  <2>6. QED
    BY <2>4, <2>5
<1>2. ASSUME NEW q \in [1 .. 3 -> F], Sorted(q) PROVE q = <<a, b, c>>
  <2>1. /\ q[1] \in F /\ q[2] \in F /\ q[3] \in F
        /\ q[1].dst < q[2].dst /\ q[2].dst < q[3].dst
    BY <1>2 DEF Sorted
  <2>2. q[1] = a /\ q[2] = b /\ q[3] = c
    BY <2>1
  <2>3. QED
    BY <2>2
<1>3. <<a, b, c>> \in [1 .. 3 -> F] /\ Sorted(<<a, b, c>>)
  BY DEF Sorted
<1>4. Enum(F) = {<<a, b, c>>}
  BY <1>1, <1>2, <1>3 DEF Enum
<1>5. QED
  BY <1>4, OnlyOrder

(* Does the step emit a REPORT, and does it emit the NEXTTIMESTEPs? *)
EmitsReport(i, fs, d) ==
  /\ LocalStage(i, d) = "WaitingChildren"
  /\ ChildrenStage(i, d, Reported(i, fs)) = "WaitingNext"
EmitsNexts(i, fs, d) ==
  /\ state[i] # "Advancing"
  /\ NextStage(i, d, Reported(i, fs), Nexted(i, fs)) = "Advancing"

LEMMA EmittedAreSyncFlits ==
  ASSUME SyncTypeOK, NEW i \in Pe
  PROVE  /\ i # 0 => make_report(i) \in SyncFlit /\ make_report(i).dst < i
         /\ \A c \in Pe : make_next(i, c) \in SyncFlit /\ make_next(i, c).dst = c
<1>1. current_t[i] \in Timestep /\ i \in Nat
  BY Heap DEF SyncTypeOK
<1>2. i # 0 => parent(i) \in Pe /\ parent(i) < i
  BY Heap
<1>3. QED
  BY <1>1, <1>2 DEF make_report, make_next, SyncFlit

LEMMA SyncStepType ==
  ASSUME SyncTypeOK, NEW i \in Pe, NEW S, NEW fs \in Seq(S), NEW d, SyncStep(i, fs, d)
  PROVE  SyncTypeOK' /\ current_t' = current_t
<1>1. Cardinality({k \in DOMAIN fs : fs[k].type = "Report" /\ Fresh(i, fs[k])}) \in Nat
  <2> DEFINE K == {k \in DOMAIN fs : fs[k].type = "Report" /\ Fresh(i, fs[k])}
  <2>1. DOMAIN fs = 1 .. Len(fs) /\ Len(fs) \in Nat
    BY LenProperties
  <2>2. IsFiniteSet(DOMAIN fs)
    BY <2>1, FS_Interval
  <2>3. IsFiniteSet(K)
    BY <2>2, FS_Subset
  <2> HIDE DEF K
  <2>4. Cardinality(K) \in Nat
    BY <2>3, FS_CardinalityType
  <2>5. QED
    BY <2>4 DEF K
<1>2. Reported(i, fs) \in Nat
  BY <1>1 DEF Reported, SyncTypeOK
<1>3. Nexted(i, fs) \in BOOLEAN
  BY DEF Nexted, SyncTypeOK
<1>4. \A r, m : NextStage(i, d, r, m) \in PeSyncState
  BY DEF NextStage, ChildrenStage, LocalStage, SyncTypeOK, PeSyncState
<1>5. QED
  BY <1>2, <1>3, <1>4 DEF SyncStep, SyncTypeOK

(* What a step sends, in order: a REPORT to the parent, NEXTTIMESTEPs to the
   children. *)
LEMMA Emission ==
  ASSUME SyncTypeOK, NEW i \in Pe, NEW fs, NEW d \in BOOLEAN
  PROVE  LET p == make_report(i)
             l == make_next(i, 2 * i + 1)
             r == make_next(i, 2 * i + 2)
             R == EmitsReport(i, fs, d)
             N == EmitsNexts(i, fs, d)
             q == InOrder(SyncEmits(i, fs, d))
         IN  /\ R => i # 0 /\ p \in SyncFlit
             /\ 2 * i + 1 \in Pe => l \in SyncFlit
             /\ 2 * i + 2 \in Pe => r \in SyncFlit /\ 2 * i + 1 \in Pe
             /\ ~R /\ ~(N /\ 2 * i + 1 \in Pe) => q = << >>
             /\ R /\ ~(N /\ 2 * i + 1 \in Pe) => q = <<p>>
             /\ ~R /\ N /\ 2 * i + 1 \in Pe /\ 2 * i + 2 \notin Pe => q = <<l>>
             /\ ~R /\ N /\ 2 * i + 2 \in Pe => q = <<l, r>>
             /\ R /\ N /\ 2 * i + 1 \in Pe /\ 2 * i + 2 \notin Pe => q = <<p, l>>
             /\ R /\ N /\ 2 * i + 2 \in Pe => q = <<p, l, r>>
<1> DEFINE p == make_report(i)
           l == make_next(i, 2 * i + 1)
           r == make_next(i, 2 * i + 2)
           E == SyncEmits(i, fs, d)
           R == EmitsReport(i, fs, d)
           N == EmitsNexts(i, fs, d)
<1>1. R => i # 0
  BY DEF EmitsReport, ChildrenStage, is_root
<1>2. E = (IF R THEN {p} ELSE {}) \cup (IF N THEN {make_next(i, c) : c \in children(i, NumPe)} ELSE {})
  BY DEF SyncEmits, Emitted, EmitsReport, EmitsNexts
<1>3. {make_next(i, c) : c \in children(i, NumPe)} =
        {f \in {l, r} : (f = l /\ 2 * i + 1 \in Pe) \/ (f = r /\ 2 * i + 2 \in Pe)}
  <2>1. children(i, NumPe) = {c \in {2 * i + 1, 2 * i + 2} : c \in Pe}
    BY Heap
  <2>2. \A c : c \in children(i, NumPe) <=>
          (c = 2 * i + 1 /\ 2 * i + 1 \in Pe) \/ (c = 2 * i + 2 /\ 2 * i + 2 \in Pe)
    BY <2>1
  <2>3. QED
    BY <2>2
<1>4. 2 * i + 2 \in Pe => 2 * i + 1 \in Pe
  BY NumPeAssumption DEF Pe
<1>5. /\ R => p \in SyncFlit /\ p.dst \in Int /\ p.dst < i
      /\ 2 * i + 1 \in Pe => l \in SyncFlit /\ l.dst = 2 * i + 1
      /\ 2 * i + 2 \in Pe => r \in SyncFlit /\ r.dst = 2 * i + 2
      /\ i \in Nat
  <2>1. i \in Nat /\ \A c \in Pe : c \in Int
    BY NumPeAssumption DEF Pe
  <2>2. p \in SyncFlit => p.dst \in Pe
    BY DEF SyncFlit
  <2> HIDE DEF p, l, r, R
  <2>3. QED
    BY <1>1, <2>1, <2>2, EmittedAreSyncFlits DEF p, l, r
<1> HIDE DEF p, l, r, E, R, N
<1>6. ASSUME ~R, ~(N /\ 2 * i + 1 \in Pe) PROVE InOrder(E) = << >>
  <2>1. E = {}
    BY <1>2, <1>3, <1>4, <1>6
  <2>2. QED
    BY <2>1, InOrderOfOne
<1>7. ASSUME R, ~(N /\ 2 * i + 1 \in Pe) PROVE InOrder(E) = <<p>>
  <2>1. E = {p}
    BY <1>2, <1>3, <1>4, <1>7
  <2>2. QED
    BY <2>1, InOrderOfOne
<1>8. ASSUME ~R, N, 2 * i + 1 \in Pe, 2 * i + 2 \notin Pe PROVE InOrder(E) = <<l>>
  <2>1. E = {l}
    BY <1>2, <1>3, <1>8
  <2>2. QED
    BY <2>1, InOrderOfOne
<1>9. ASSUME ~R, N, 2 * i + 2 \in Pe PROVE InOrder(E) = <<l, r>>
  <2>1. E = {l, r}
    BY <1>2, <1>3, <1>4, <1>9
  <2>2. l.dst \in Int /\ r.dst \in Int /\ l.dst < r.dst
    BY <1>4, <1>5, <1>9
  <2>3. QED
    BY <2>1, <2>2, InOrderOfTwo
<1>10. ASSUME R, N, 2 * i + 1 \in Pe, 2 * i + 2 \notin Pe PROVE InOrder(E) = <<p, l>>
  <2>1. E = {p, l}
    BY <1>2, <1>3, <1>10
  <2>2. p.dst \in Int /\ l.dst \in Int /\ p.dst < l.dst
    BY <1>5, <1>10
  <2>3. QED
    BY <2>1, <2>2, InOrderOfTwo
<1>11. ASSUME R, N, 2 * i + 2 \in Pe PROVE InOrder(E) = <<p, l, r>>
  <2>1. E = {p, l, r}
    BY <1>2, <1>3, <1>4, <1>11
  <2>2. p.dst \in Int /\ l.dst \in Int /\ r.dst \in Int /\ p.dst < l.dst /\ l.dst < r.dst
    BY <1>4, <1>5, <1>11
  <2>3. QED
    BY <2>1, <2>2, InOrderOfThree
<1>12. QED
  <2>1. /\ R => i # 0 /\ p \in SyncFlit
        /\ 2 * i + 1 \in Pe => l \in SyncFlit
        /\ 2 * i + 2 \in Pe => r \in SyncFlit /\ 2 * i + 1 \in Pe
    BY <1>1, <1>4, <1>5
  <2>2. QED
    BY <1>6, <1>7, <1>8, <1>9, <1>10, <1>11, <2>1 DEF p, l, r, E, R, N

LEMMA EmissionIsSeq ==
  ASSUME SyncTypeOK, NEW i \in Pe, NEW fs, NEW d \in BOOLEAN
  PROVE  InOrder(SyncEmits(i, fs, d)) \in Seq(SyncFlit)
<1> DEFINE p == make_report(i)
           l == make_next(i, 2 * i + 1)
           r == make_next(i, 2 * i + 2)
           q == InOrder(SyncEmits(i, fs, d))
           R == EmitsReport(i, fs, d)
           N == EmitsNexts(i, fs, d)
<1>1. /\ R => p \in SyncFlit
      /\ 2 * i + 1 \in Pe => l \in SyncFlit
      /\ 2 * i + 2 \in Pe => r \in SyncFlit /\ 2 * i + 1 \in Pe
      /\ ~R /\ ~(N /\ 2 * i + 1 \in Pe) => q = << >>
      /\ R /\ ~(N /\ 2 * i + 1 \in Pe) => q = <<p>>
      /\ ~R /\ N /\ 2 * i + 1 \in Pe /\ 2 * i + 2 \notin Pe => q = <<l>>
      /\ ~R /\ N /\ 2 * i + 2 \in Pe => q = <<l, r>>
      /\ R /\ N /\ 2 * i + 1 \in Pe /\ 2 * i + 2 \notin Pe => q = <<p, l>>
      /\ R /\ N /\ 2 * i + 2 \in Pe => q = <<p, l, r>>
  BY Emission
<1> HIDE DEF p, l, r, q, R, N
<1>2. \A a, b, c \in SyncFlit :
        /\ << >> \in Seq(SyncFlit) /\ <<a>> \in Seq(SyncFlit)
        /\ <<a, b>> \in Seq(SyncFlit) /\ <<a, b, c>> \in Seq(SyncFlit)
  OBVIOUS
<1>3. << >> \in Seq(SyncFlit)
  OBVIOUS
<1>4. q \in Seq(SyncFlit)
  BY <1>1, <1>2, <1>3
<1>5. QED
  BY <1>4 DEF q
=============================================================================
