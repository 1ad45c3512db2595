---------------------------- MODULE RouterProofs ----------------------------
(***************************************************************************)
(* What each router operation preserves, for every mesh and every          *)
(* credit_init: the lemmas from which the theorems about Noc are put       *)
(* together.                                                               *)
(***************************************************************************)
EXTENDS Router, FiniteSetTheorems, SequenceTheorems, WellFoundedInduction, TLAPS

(* Every non-empty set of naturals has a least element. *)
LEMMA LeastNat ==
  ASSUME NEW T \in SUBSET Nat, T # {}
  PROVE  \E k \in T : \A j \in T : k <= j
<1> DEFINE R == OpToRel(<, Nat)
<1>1. IsWellFoundedOn(R, Nat)
  BY NatLessThanWellFounded
<1>2. \A j, k \in Nat : j < k => <<j, k>> \in R
  BY DEF OpToRel
<1> HIDE DEF R
<1>3. PICK k \in T : \A j \in T : ~(<<j, k>> \in R)
  BY <1>1, WFMin
<1>4. \A j \in T : ~(j < k)
  BY <1>2, <1>3
<1>5. QED
  BY <1>4

(* An element of a concatenation is an element of one of its parts. *)
LEMMA ConcatElement ==
  ASSUME NEW S, NEW s \in Seq(S), NEW t \in Seq(S), NEW i \in 1 .. Len(s \o t)
  PROVE  \/ i \in 1 .. Len(s) /\ (s \o t)[i] = s[i]
         \/ /\ i - Len(s) \in 1 .. Len(t)
            /\ i > Len(s)
            /\ (s \o t)[i] = t[i - Len(s)]
<1>1. Len(s) \in Nat /\ Len(t) \in Nat /\ Len(s \o t) = Len(s) + Len(t)
  BY LenProperties, ConcatProperties
<1>2. \A j \in 1 .. Len(s) + Len(t) :
        (s \o t)[j] = IF j <= Len(s) THEN s[j] ELSE t[j - Len(s)]
  BY ConcatProperties
<1>3. i \in 1 .. Len(s) + Len(t)
  BY <1>1
<1>4. (s \o t)[i] = IF i <= Len(s) THEN s[i] ELSE t[i - Len(s)]
  BY <1>2, <1>3
<1>5. QED
  BY <1>1, <1>3, <1>4

LEMMA TailOfConcat ==
  ASSUME NEW S, NEW s \in Seq(S), NEW t \in Seq(S), s # << >>
  PROVE  Tail(s) \o t = Tail(s \o t)
<1>1. /\ Tail(s) \in Seq(S) /\ Len(Tail(s)) = Len(s) - 1
      /\ \A i \in 1 .. Len(Tail(s)) : Tail(s)[i] = s[i + 1]
  BY HeadTailProperties
<1>2. /\ s \o t \in Seq(S) /\ Len(s \o t) = Len(s) + Len(t)
      /\ \A i \in 1 .. Len(s) + Len(t) :
           (s \o t)[i] = IF i <= Len(s) THEN s[i] ELSE t[i - Len(s)]
  BY ConcatProperties
<1>3. Len(s) \in Nat /\ Len(t) \in Nat /\ Len(s) >= 1
  BY LenProperties, EmptySeq
<1>4. s \o t # << >>
  BY <1>2, <1>3, EmptySeq
<1>5. /\ Tail(s \o t) \in Seq(S) /\ Len(Tail(s \o t)) = Len(s \o t) - 1
      /\ \A i \in 1 .. Len(Tail(s \o t)) : Tail(s \o t)[i] = (s \o t)[i + 1]
  BY <1>2, <1>4, HeadTailProperties
<1>6. /\ Tail(s) \o t \in Seq(S) /\ Len(Tail(s) \o t) = Len(Tail(s)) + Len(t)
      /\ \A i \in 1 .. Len(Tail(s)) + Len(t) :
           (Tail(s) \o t)[i] =
             IF i <= Len(Tail(s)) THEN Tail(s)[i] ELSE t[i - Len(Tail(s))]
  BY <1>1, ConcatProperties
<1> DEFINE a == Tail(s) \o t
           b == Tail(s \o t)
<1>7. Len(a) = Len(b) /\ Len(a) = Len(s) + Len(t) - 1
  BY <1>1, <1>2, <1>3, <1>5, <1>6
<1>8. ASSUME NEW i \in 1 .. Len(a) PROVE a[i] = b[i]
  <2>1. i \in 1 .. Len(s) + Len(t) - 1
    BY <1>7
  <2>2. b[i] = IF i + 1 <= Len(s) THEN s[i + 1] ELSE t[i + 1 - Len(s)]
    BY <1>2, <1>3, <1>5, <1>7, <2>1
  <2>3. a[i] = IF i <= Len(s) - 1 THEN s[i + 1] ELSE t[i - (Len(s) - 1)]
    BY <1>1, <1>3, <1>6, <2>1
  <2>4. i - (Len(s) - 1) = i + 1 - Len(s) /\ (i <= Len(s) - 1 <=> i + 1 <= Len(s))
    BY <1>3, <2>1
  <2>5. QED
    BY <2>2, <2>3, <2>4
<1>9. QED
  <2> HIDE DEF a, b
  <2>1. a \in Seq(S) /\ b \in Seq(S)
    BY <1>5, <1>6 DEF a, b
  <2>2. a = b
    BY <1>7, <1>8, <2>1, SeqEqual
  <2>3. QED
    BY <2>2 DEF a, b

LEMMA AppendToConcat ==
  ASSUME NEW S, NEW s \in Seq(S), NEW t \in Seq(S), NEW e \in S
  PROVE  s \o Append(t, e) = Append(s \o t, e)
<1>1. s \o t \in Seq(S) /\ <<e>> \in Seq(S)
  BY ConcatProperties
<1>2. Append(t, e) = t \o <<e>> /\ Append(s \o t, e) = (s \o t) \o <<e>>
  BY <1>1, AppendIsConcat
<1>3. QED
  BY <1>1, <1>2, ConcatAssociative

LEMMA RowMajor ==
  ASSUME NEW w \in Nat \ {0}, NEW x \in 0 .. w - 1, NEW y \in Nat
  PROVE  (y * w + x) % w = x /\ (y * w + x) \div w = y
<1> DEFINE a == y * w + x
           q == a \div w
           r == a % w
<1>1. a \in Nat
  OBVIOUS
<1>2. q \in Int /\ r \in 0 .. w - 1 /\ a = w * q + r
  <2> HIDE DEF a
  <2>1. QED
    BY <1>1
<1>3. w * (q - y) = x - r
  <2>1. w * q + r = y * w + x
    BY <1>2
  <2> HIDE DEF q, r, a
  <2>2. QED
    BY <1>2, <2>1
<1> HIDE DEF q, r, a
<1>4. ~(q - y >= 1)
  <2>1. SUFFICES ASSUME q - y >= 1 PROVE FALSE
    OBVIOUS
  <2>2. w * (q - y) >= w * 1
    BY <1>2, <2>1
  <2>3. QED
    BY <1>2, <1>3, <2>2
<1>5. ~(q - y <= -1)
  <2>1. SUFFICES ASSUME q - y <= -1 PROVE FALSE
    OBVIOUS
  <2>2. w * (q - y) <= w * (-1)
    BY <1>2, <2>1
  <2>3. QED
    BY <1>2, <1>3, <2>2
<1>6. q = y
  BY <1>2, <1>4, <1>5
<1>7. r = x
  <2>1. w * (q - y) = 0
    BY <1>6
  <2>2. QED
    BY <1>2, <1>3, <2>1
<1>8. QED
  BY <1>6, <1>7 DEF q, r, a

(* Every PeId stands for a coordinate of its own. *)
LEMMA IdOfNode ==
  /\ \A n \in Node : to_id(n) \in PeId /\ to_coord(to_id(n)) = n
  /\ \A i \in PeId : to_coord(i) \in Node /\ to_id(to_coord(i)) = i
<1>1. W \in Nat \ {0} /\ H \in Nat \ {0}
  BY MeshAssumption
<1>2. ASSUME NEW n \in Node PROVE to_id(n) \in PeId /\ to_coord(to_id(n)) = n
  <2> DEFINE x == n.x
             y == n.y
  <2>1. x \in 0 .. W - 1 /\ y \in 0 .. H - 1 /\ n = [x |-> x, y |-> y]
    BY DEF Node
  <2> HIDE DEF x, y
  <2>2. (y * W + x) % W = x /\ (y * W + x) \div W = y
    BY <1>1, <2>1, RowMajor
  <2>3. y * W + x \in 0 .. W * H - 1
    <3>1. y * W <= (H - 1) * W
      BY <1>1, <2>1
    <3>2. (H - 1) * W = W * H - W
      BY <1>1
    <3>3. y * W \in Nat
      BY <1>1, <2>1
    <3>4. QED
      BY <1>1, <2>1, <3>1, <3>2, <3>3
  <2>4. to_id(n) = y * W + x
    BY DEF to_id, x, y
  <2>5. QED
    BY <2>1, <2>2, <2>3, <2>4 DEF to_coord, PeId
<1>3. ASSUME NEW i \in PeId PROVE to_coord(i) \in Node /\ to_id(to_coord(i)) = i
  <2> DEFINE q == i \div W
             r == i % W
  <2>1. i \in Nat /\ i < W * H
    BY <1>1 DEF PeId
  <2>2. q \in Int /\ r \in 0 .. W - 1 /\ i = W * q + r
    BY <1>1, <2>1
  <2>3. to_coord(i) = [x |-> r, y |-> q] /\ to_id(to_coord(i)) = q * W + r
    BY DEF to_coord, to_id
  <2> HIDE DEF q, r
  <2>4. q * W = W * q
    BY <1>1, <2>2
  <2>5. ~(q <= -1)
    <3>1. SUFFICES ASSUME q <= -1 PROVE FALSE
      OBVIOUS
    <3>2. W * q <= W * (-1)
      BY <1>1, <2>2, <3>1
    <3>3. QED
      BY <1>1, <2>1, <2>2, <3>2
  <2>6. ~(q >= H)
    <3>1. SUFFICES ASSUME q >= H PROVE FALSE
      OBVIOUS
    <3>2. W * q >= W * H
      BY <1>1, <2>2, <3>1
    <3>3. QED
      BY <1>1, <2>1, <2>2, <3>2
  <2>7. q \in 0 .. H - 1
    BY <1>1, <2>2, <2>5, <2>6
  <2>8. QED
    BY <2>2, <2>3, <2>4, <2>7 DEF Node
<1>4. QED
  BY <1>2, <1>3

(* A link seen from its two ends: stepping back over it returns to the
   sender, through the port that faces it. *)
LEMMA StepBack ==
  ASSUME NEW n \in Node, NEW d \in Cardinal, has_neighbor(n, d)
  PROVE  /\ step(n, d) \in Node
         /\ opposite(d) \in Cardinal
         /\ opposite(opposite(d)) = d
         /\ has_neighbor(step(n, d), opposite(d))
         /\ step(step(n, d), opposite(d)) = n
         /\ step(n, d) # n
BY MeshAssumption
   DEF Node, Cardinal, has_neighbor, step, opposite, East, West, North, South

(* XY routing never points off the mesh and stops only at the destination. *)
LEMMA RouteOnMesh ==
  ASSUME NEW here \in Node, NEW dst \in Node
  PROVE  /\ route_xy(here, dst) \in Dir
         /\ route_xy(here, dst) # Local => has_neighbor(here, route_xy(here, dst))
         /\ route_xy(here, dst) = Local <=> dst = here
BY MeshAssumption
   DEF Node, Dir, route_xy, has_neighbor, Local, East, West, North, South

(* The router at n, port p, is fed by router r through r's output o. *)
LEMMA FacesIsLink ==
  ASSUME NEW n \in Node, NEW d \in Cardinal, has_neighbor(n, d), NEW r \in Node
  PROVE  /\ Faces(n, d, r) <=> step(n, d) = r
         /\ Faces(step(n, d), opposite(d), r) <=> n = r
BY StepBack DEF Faces

LEMMA OppositeIsDir ==
  ASSUME NEW d \in Dir
  PROVE  opposite(d) \in Dir /\ (d \in Cardinal => opposite(d) \in Cardinal)
BY DEF Dir, Cardinal, opposite, Local, East, West, North, South

(* Among the ports that ask for an output, one is nearest to the cursor. *)
LEMMA WinnerIsNearest ==
  ASSUME RouterTypeOK, NEW r \in Node, NEW o \in Dir, Requests(r, o) # {}
  PROVE  \E p \in Requests(r, o) :
           \A q \in Requests(r, o) : Distance(r, o, p) <= Distance(r, o, q)
<1> DEFINE D(p) == Distance(r, o, p)
<1>1. \A p \in Dir : D(p) \in 0 .. 4
  <2>1. Dir = 0 .. 4 /\ rrCursor[r][o] \in Dir
    BY DEF RouterTypeOK, Dir, Local, South
  <2>2. QED
    BY <2>1 DEF Distance, PortCount
<1>2. Requests(r, o) \subseteq 0 .. 4
  BY DEF Requests, Dir, Local, South
<1>3. \E p \in Requests(r, o) : \A q \in Requests(r, o) : D(p) <= D(q)
  <2> HIDE DEF D
  <2>1. PICK a \in Requests(r, o) : TRUE
    OBVIOUS
  <2> DEFINE Least(k) == \E p \in Requests(r, o) : D(p) <= k
  <2>2. Least(4)
    BY <1>1, <1>2, <2>1 DEF Dir, Local, South
  <2>3. \E k \in 0 .. 4 : Least(k) /\ \A j \in 0 .. k - 1 : ~Least(j)
    <3>1. \A k \in 0 .. 4 : Least(k) \in BOOLEAN
      OBVIOUS
    <3> HIDE DEF Least
    <3>2. QED
      BY <2>2, <3>1
  <2>4. QED
    BY <1>1, <1>2, <2>3 DEF Dir, Local, South
<1>4. QED
  BY <1>3

(* The arbiter serves a port that asked. *)
LEMMA WinnerAsked ==
  ASSUME RouterTypeOK, NEW r \in Node, NEW o \in Dir, Requests(r, o) # {}
  PROVE  Winner(r, o) \in Requests(r, o)
BY WinnerIsNearest DEF Winner

LEMMA PoppedHasFlit ==
  ASSUME RouterTypeOK, NEW r \in Node, NEW p \in Popped(r)
  PROVE  p \in Dir /\ cur[r][p] # << >>
BY WinnerAsked DEF Popped, Granted, Requests

(* What an output sends is the head of a queue, hence a flit, and its route
   leads there. *)
LEMMA SentIsFlit ==
  ASSUME RouterTypeOK, NEW r \in Node, NEW o \in Granted(r)
  PROVE  /\ Sent(r, o) \in Flit
         /\ route_xy(r, Sent(r, o).dst) = o
         /\ o # Local => has_neighbor(r, o)
<1>1. o \in Dir /\ Requests(r, o) # {}
  BY DEF Granted
<1>2. Winner(r, o) \in Requests(r, o)
  BY <1>1, WinnerAsked
<1>3. /\ Winner(r, o) \in Dir
      /\ cur[r][Winner(r, o)] \in Seq(Flit)
      /\ cur[r][Winner(r, o)] # << >>
      /\ route_xy(r, Sent(r, o).dst) = o
  BY <1>2 DEF Requests, Sent, RouterTypeOK
<1>4. Sent(r, o) \in Flit
  BY <1>3, HeadTailProperties DEF Sent
<1>5. QED
  BY <1>3, <1>4, FlitAssumption, RouteOnMesh

-----------------------------------------------------------------------------
(* Router::compute keeps the state of the mesh well formed: no credit is
   spent that is not there. *)
LEMMA ComputeType ==
  ASSUME RouterTypeOK, NEW r \in Node, Compute(r)
  PROVE  RouterTypeOK'
<1> USE DEF RouterTypeOK
<1>1. cur' \in [Node -> [Dir -> Seq(Flit)]]
  <2>1. \A p \in Popped(r) : p \in Dir /\ Tail(cur[r][p]) \in Seq(Flit)
    BY PoppedHasFlit, HeadTailProperties
  <2>2. QED
    BY <2>1 DEF Compute
<1>2. nxt' \in [Node -> [Dir -> Seq(Flit)]]
  <2>1. \A n \in Node, p \in Dir :
          Faces(n, p, r) /\ opposite(p) \in Granted(r) =>
            Append(nxt[n][p], Sent(r, opposite(p))) \in Seq(Flit)
    BY SentIsFlit, AppendProperties
  <2>2. QED
    BY <2>1 DEF Compute
<1>3. ejectNxt' \in [Node -> Seq(Flit)]
  BY SentIsFlit, AppendProperties DEF Compute
<1>4. outCredit' \in [Node -> [Dir -> Nat]]
  <2>1. \A o \in Granted(r) \ {Local} : o \in Dir /\ outCredit[r][o] - 1 \in Nat
    BY DEF Granted
  <2>2. QED
    BY <2>1 DEF Compute
<1>5. credInbox' \in [Node -> [Dir -> Nat]]
  <2>1. credInbox' = [n \in Node |-> [d \in Dir |->
          IF Faces(n, d, r) /\ opposite(d) \in Popped(r)
          THEN credInbox[n][d] + 1 ELSE credInbox[n][d]]]
    BY DEF Compute
  <2>2. \A n \in Node, d \in Dir : credInbox[n][d] \in Nat
    OBVIOUS
  <2>3. QED
    BY <2>1, <2>2
<1>6. rrCursor' \in [Node -> [Dir -> Dir]]
  <2>1. \A o \in Granted(r) : o \in Dir /\ Winner(r, o) \in Dir
    BY WinnerAsked DEF Granted, Requests
  <2>2. \A p \in Dir : NextCursor(p) \in Dir
    BY DEF NextCursor, PortCount, Dir, Local, South
  <2>3. rrCursor' = [rrCursor EXCEPT ![r] = [o \in Dir |->
          IF o \in Granted(r) THEN NextCursor(Winner(r, o)) ELSE rrCursor[r][o]]]
    BY DEF Compute
  <2>4. [o \in Dir |-> IF o \in Granted(r) THEN NextCursor(Winner(r, o))
                       ELSE rrCursor[r][o]] \in [Dir -> Dir]
    BY <2>1, <2>2
  <2>5. QED
    BY <2>3, <2>4
<1>7. injectCredit' \in [Node -> Nat] /\ peCreditReturn' \in [Node -> Nat]
  BY DEF Compute
<1>8. eject' \in [Node -> Seq(Flit)]
  BY DEF Compute
<1>9. QED
  BY <1>1, <1>2, <1>3, <1>4, <1>5, <1>6, <1>7, <1>8

LEMMA CommitType ==
  ASSUME RouterTypeOK, NEW r \in Node, Commit(r)
  PROVE  RouterTypeOK'
BY ConcatProperties, EmptySeq DEF RouterTypeOK, Commit, Merge

LEMMA DrainAndInjectType ==
  ASSUME RouterTypeOK, NEW n \in Node, NEW fs \in Seq(Flit), DrainAndInject(n, fs)
  PROVE  RouterTypeOK'
<1>1. nxt[n][Local] \o fs \in Seq(Flit) /\ Local \in Dir
  BY ConcatProperties DEF RouterTypeOK, Dir, Local, South
<1>2. injectCredit[n] - Len(fs) \in Nat
  BY LenProperties DEF DrainAndInject, RouterTypeOK
<1>3. QED
  BY <1>1, <1>2, EmptySeq DEF RouterTypeOK, DrainAndInject, Drained

LEMMA CommitEjectType ==
  ASSUME RouterTypeOK, NEW n \in Node, CommitEject(n)
  PROVE  RouterTypeOK'
BY ConcatProperties, EmptySeq DEF RouterTypeOK, CommitEject, Merge

-----------------------------------------------------------------------------
(* The credits of the links.  CreditInv is inductive under RouterTypeOK. *)
CreditInv == LinkCreditsConserved /\ InjectCreditsConserved /\ EdgePortsEmpty

LEMMA InitCredits == RouterInit => CreditInv
<1> SUFFICES ASSUME RouterInit PROVE CreditInv
  OBVIOUS
<1>1. CreditInit \in Nat /\ Len(<< >>) = 0 /\ Local \in Dir
  BY CreditAssumption DEF InBufCap, Dir, Local, South
<1>2. Cardinal \subseteq Dir
  BY DEF Cardinal, Dir, Local, East, South
<1>3. LinkCreditsConserved
  BY <1>1, <1>2, StepBack DEF LinkCreditsConserved, RouterInit
<1>4. InjectCreditsConserved /\ EdgePortsEmpty
  BY <1>1, <1>2 DEF InjectCreditsConserved, EdgePortsEmpty, RouterInit
<1>5. QED
  BY <1>3, <1>4 DEF CreditInv

(* Router::compute moves a credit from the sender's counter into the flit's
   slot, or from a freed slot into the inbox of the port's feeder; a link is
   touched at most once from each of its two ends. *)
LEMMA ComputeCredits ==
  ASSUME RouterTypeOK, CreditInv, NEW r \in Node, Compute(r)
  PROVE  CreditInv'
<1>1. Cardinal \subseteq Dir /\ Local \in Dir /\ Local \notin Cardinal
  BY DEF Cardinal, Dir, Local, East, South
<1>2. \A p \in Popped(r) :
        p \in Dir /\ cur[r][p] # << >> /\ Len(Tail(cur[r][p])) = Len(cur[r][p]) - 1
  BY PoppedHasFlit, HeadTailProperties DEF RouterTypeOK
<1>3. \A n \in Node, p \in Dir :
        Len(cur'[n][p]) = IF n = r /\ p \in Popped(r)
                          THEN Len(cur[n][p]) - 1 ELSE Len(cur[n][p])
  BY <1>2 DEF Compute, RouterTypeOK
<1>4. \A n \in Node, p \in Dir :
        Len(nxt'[n][p]) = IF Faces(n, p, r) /\ opposite(p) \in Granted(r)
                          THEN Len(nxt[n][p]) + 1 ELSE Len(nxt[n][p])
  <2>1. \A n \in Node, p \in Dir :
          nxt'[n][p] = IF Faces(n, p, r) /\ opposite(p) \in Granted(r)
                       THEN Append(nxt[n][p], Sent(r, opposite(p))) ELSE nxt[n][p]
    BY DEF Compute
  <2>2. \A n \in Node, p \in Dir : opposite(p) \in Granted(r) =>
          Len(Append(nxt[n][p], Sent(r, opposite(p)))) = Len(nxt[n][p]) + 1
    BY SentIsFlit, AppendProperties DEF RouterTypeOK
  <2>3. QED
    BY <2>1, <2>2
<1>5. \A n \in Node, d \in Cardinal :
        outCredit'[n][d] = IF n = r /\ d \in Granted(r)
                           THEN outCredit[n][d] - 1 ELSE outCredit[n][d]
  BY <1>1 DEF Compute, RouterTypeOK
<1>6. \A n \in Node, d \in Dir :
        credInbox'[n][d] = IF Faces(n, d, r) /\ opposite(d) \in Popped(r)
                           THEN credInbox[n][d] + 1 ELSE credInbox[n][d]
  BY DEF Compute
<1>7. \A n \in Node : /\ injectCredit'[n] = injectCredit[n]
                      /\ peCreditReturn'[n] =
                           IF n = r /\ Local \in Popped(r)
                           THEN peCreditReturn[n] + 1 ELSE peCreditReturn[n]
  BY DEF Compute, RouterTypeOK, LocalFreed
<1>8. LinkCreditsConserved'
  <2> SUFFICES ASSUME NEW n \in Node, NEW d \in Cardinal, has_neighbor(n, d)
               PROVE  (LET m == step(n, d)
                           p == opposite(d)
                       IN  outCredit[n][d] + credInbox[n][d]
                             + Len(cur[m][p]) + Len(nxt[m][p]) = CreditInit)'
    BY DEF LinkCreditsConserved
  <2> DEFINE m == step(n, d)
             p == opposite(d)
  <2>1. /\ m \in Node /\ p \in Cardinal /\ p \in Dir /\ d \in Dir
        /\ opposite(p) = d /\ m # n
        /\ Faces(n, d, r) <=> m = r
        /\ Faces(m, p, r) <=> n = r
    BY <1>1, StepBack, FacesIsLink
  <2> DEFINE seen == Len(cur[m][p])
             staged == Len(nxt[m][p])
             seenNow == Len(cur'[m][p])
             stagedNow == Len(nxt'[m][p])
             out == n = r /\ d \in Granted(r)
             back == m = r /\ p \in Popped(r)
  <2>2. outCredit[n][d] + credInbox[n][d] + seen + staged = CreditInit
    BY DEF CreditInv, LinkCreditsConserved
  <2>3. /\ outCredit[n][d] \in Nat /\ credInbox[n][d] \in Nat
        /\ seen \in Nat /\ staged \in Nat
    BY <2>1, LenProperties DEF RouterTypeOK
  <2>4. /\ outCredit'[n][d] = IF out THEN outCredit[n][d] - 1 ELSE outCredit[n][d]
        /\ stagedNow = IF out THEN staged + 1 ELSE staged
    BY <1>4, <1>5, <2>1
  <2>5. /\ credInbox'[n][d] = IF back THEN credInbox[n][d] + 1 ELSE credInbox[n][d]
        /\ seenNow = IF back THEN seen - 1 ELSE seen
    BY <1>3, <1>6, <2>1
  <2>6. outCredit'[n][d] + credInbox'[n][d] + seenNow + stagedNow = CreditInit
    <3> HIDE DEF seen, staged, seenNow, stagedNow, out, back
    <3>1. QED
      BY <2>2, <2>3, <2>4, <2>5
  <2>7. QED
    BY <2>6
<1>9. InjectCreditsConserved'
  <2> SUFFICES ASSUME NEW n \in Node
               PROVE  (injectCredit[n] + peCreditReturn[n]
                        + Len(cur[n][Local]) + Len(nxt[n][Local]) = CreditInit)'
    BY DEF InjectCreditsConserved
  <2>1. ~Faces(n, Local, r)
    BY <1>1 DEF Faces
  <2>2. injectCredit[n] + peCreditReturn[n]
          + Len(cur[n][Local]) + Len(nxt[n][Local]) = CreditInit
    BY DEF CreditInv, InjectCreditsConserved
  <2>3. /\ injectCredit[n] \in Nat /\ peCreditReturn[n] \in Nat
        /\ Len(cur[n][Local]) \in Nat /\ Len(nxt[n][Local]) \in Nat
    BY <1>1, LenProperties DEF RouterTypeOK
  <2>4. /\ Len(nxt'[n][Local]) = Len(nxt[n][Local])
        /\ injectCredit'[n] = injectCredit[n]
        /\ Len(cur'[n][Local]) = IF n = r /\ Local \in Popped(r)
                                 THEN Len(cur[n][Local]) - 1 ELSE Len(cur[n][Local])
        /\ peCreditReturn'[n] = IF n = r /\ Local \in Popped(r)
                                THEN peCreditReturn[n] + 1 ELSE peCreditReturn[n]
    BY <1>1, <1>3, <1>4, <1>7, <2>1
  <2>5. injectCredit'[n] + peCreditReturn'[n]
          + Len(cur'[n][Local]) + Len(nxt'[n][Local]) = CreditInit
    <3>1. CASE n = r /\ Local \in Popped(r)
      BY <2>2, <2>3, <2>4, <3>1
    <3>2. CASE ~(n = r /\ Local \in Popped(r))
      BY <2>2, <2>3, <2>4, <3>2
    <3>3. QED
      BY <3>1, <3>2
  <2>6. QED
    BY <2>5
<1>10. EdgePortsEmpty'
  <2> SUFFICES ASSUME NEW n \in Node, NEW p \in Cardinal, ~has_neighbor(n, p)
               PROVE  cur'[n][p] = << >> /\ nxt'[n][p] = << >>
    BY DEF EdgePortsEmpty
  <2>1. cur[n][p] = << >> /\ nxt[n][p] = << >> /\ p \in Dir /\ ~Faces(n, p, r)
    BY <1>1 DEF CreditInv, EdgePortsEmpty, Faces
  <2>2. n = r => p \notin Popped(r)
    BY <1>2, <2>1
  <2>3. QED
    BY <2>1, <2>2 DEF Compute, RouterTypeOK
<1>11. QED
  BY <1>8, <1>9, <1>10 DEF CreditInv

(* Router::commit moves what is staged at one router; nothing is created. *)
LEMMA CommitCredits ==
  ASSUME RouterTypeOK, CreditInv, NEW r \in Node, Commit(r)
  PROVE  CreditInv'
<1>1. Cardinal \subseteq Dir /\ Local \in Dir /\ Len(<< >>) = 0
  BY DEF Cardinal, Dir, Local, East, South
<1>2. \A n \in Node, p \in Dir :
        /\ Len(cur'[n][p]) = IF n = r THEN Len(cur[n][p]) + Len(nxt[n][p])
                             ELSE Len(cur[n][p])
        /\ Len(nxt'[n][p]) = IF n = r THEN 0 ELSE Len(nxt[n][p])
  <2>1. \A n \in Node, p \in Dir :
          /\ cur'[n][p] = IF n = r THEN cur[n][p] \o nxt[n][p] ELSE cur[n][p]
          /\ nxt'[n][p] = IF n = r THEN << >> ELSE nxt[n][p]
    BY DEF Commit, RouterTypeOK, Merge
  <2>2. \A n \in Node, p \in Dir : cur[n][p] \in Seq(Flit) /\ nxt[n][p] \in Seq(Flit)
    BY DEF RouterTypeOK
  <2>3. \A n \in Node, p \in Dir :
          Len(cur[n][p] \o nxt[n][p]) = Len(cur[n][p]) + Len(nxt[n][p])
    BY <2>2, ConcatProperties
  <2>4. QED
    BY <1>1, <2>1, <2>3
<1>3. \A n \in Node, d \in Dir :
        /\ outCredit'[n][d] = IF n = r THEN outCredit[n][d] + credInbox[n][d]
                              ELSE outCredit[n][d]
        /\ credInbox'[n][d] = IF n = r THEN 0 ELSE credInbox[n][d]
  BY DEF Commit, RouterTypeOK
<1>4. \A n \in Node :
        /\ injectCredit'[n] = IF n = r THEN injectCredit[n] + peCreditReturn[n]
                              ELSE injectCredit[n]
        /\ peCreditReturn'[n] = IF n = r THEN 0 ELSE peCreditReturn[n]
  BY DEF Commit, RouterTypeOK
<1>5. LinkCreditsConserved'
  <2> SUFFICES ASSUME NEW n \in Node, NEW d \in Cardinal, has_neighbor(n, d)
               PROVE  (LET m == step(n, d)
                           p == opposite(d)
                       IN  outCredit[n][d] + credInbox[n][d]
                             + Len(cur[m][p]) + Len(nxt[m][p]) = CreditInit)'
    BY DEF LinkCreditsConserved
  <2> DEFINE m == step(n, d)
             p == opposite(d)
             seen == Len(cur[m][p])
             staged == Len(nxt[m][p])
             seenNow == Len(cur'[m][p])
             stagedNow == Len(nxt'[m][p])
  <2>1. m \in Node /\ p \in Dir /\ d \in Dir /\ m # n
    BY <1>1, StepBack
  <2>2. outCredit[n][d] + credInbox[n][d] + seen + staged = CreditInit
    BY DEF CreditInv, LinkCreditsConserved
  <2>3. /\ outCredit[n][d] \in Nat /\ credInbox[n][d] \in Nat
        /\ seen \in Nat /\ staged \in Nat
    BY <2>1, LenProperties DEF RouterTypeOK
  <2>4. /\ seenNow = IF m = r THEN seen + staged ELSE seen
        /\ stagedNow = IF m = r THEN 0 ELSE staged
    BY <1>2, <2>1
  <2>5. outCredit'[n][d] + credInbox'[n][d] + seenNow + stagedNow = CreditInit
    <3> HIDE DEF seen, staged, seenNow, stagedNow
    <3>1. QED
      BY <1>3, <2>1, <2>2, <2>3, <2>4
  <2>6. QED
    BY <2>5
<1>6. InjectCreditsConserved'
  <2> SUFFICES ASSUME NEW n \in Node
               PROVE  (injectCredit[n] + peCreditReturn[n]
                        + Len(cur[n][Local]) + Len(nxt[n][Local]) = CreditInit)'
    BY DEF InjectCreditsConserved
  <2> DEFINE seen == Len(cur[n][Local])
             staged == Len(nxt[n][Local])
             seenNow == Len(cur'[n][Local])
             stagedNow == Len(nxt'[n][Local])
  <2>1. injectCredit[n] + peCreditReturn[n] + seen + staged = CreditInit
    BY DEF CreditInv, InjectCreditsConserved
  <2>2. /\ injectCredit[n] \in Nat /\ peCreditReturn[n] \in Nat
        /\ seen \in Nat /\ staged \in Nat
    BY <1>1, LenProperties DEF RouterTypeOK
  <2>3. /\ seenNow = IF n = r THEN seen + staged ELSE seen
        /\ stagedNow = IF n = r THEN 0 ELSE staged
    BY <1>1, <1>2
  <2>4. injectCredit'[n] + peCreditReturn'[n] + seenNow + stagedNow = CreditInit
    <3> HIDE DEF seen, staged, seenNow, stagedNow
    <3>1. QED
      BY <1>4, <2>1, <2>2, <2>3
  <2>5. QED
    BY <2>4
<1>7. EdgePortsEmpty'
  <2> SUFFICES ASSUME NEW n \in Node, NEW p \in Cardinal, ~has_neighbor(n, p)
               PROVE  cur'[n][p] = << >> /\ nxt'[n][p] = << >>
    BY DEF EdgePortsEmpty
  <2>1. cur[n][p] = << >> /\ nxt[n][p] = << >> /\ p \in Dir
    BY <1>1 DEF CreditInv, EdgePortsEmpty
  <2>2. << >> \o << >> = << >>
    OBVIOUS
  <2>3. QED
    BY <2>1, <2>2 DEF Commit, RouterTypeOK, Merge
<1>8. QED
  BY <1>5, <1>6, <1>7 DEF CreditInv

(* try_inject spends one credit per flit it stages. *)
LEMMA DrainAndInjectCredits ==
  ASSUME RouterTypeOK, CreditInv,
         NEW n \in Node, NEW fs \in Seq(Flit), DrainAndInject(n, fs)
  PROVE  CreditInv'
<1>1. Cardinal \subseteq Dir /\ Local \in Dir /\ Local \notin Cardinal
  BY DEF Cardinal, Dir, Local, East, South
<1>2. nxt' = [nxt EXCEPT ![n][Local] = nxt[n][Local] \o fs]
  BY DEF DrainAndInject
<1>3. \A m \in Node, p \in Cardinal : nxt'[m][p] = nxt[m][p]
  BY <1>1, <1>2 DEF RouterTypeOK
<1>4. LinkCreditsConserved'
  <2> SUFFICES ASSUME NEW m \in Node, NEW d \in Cardinal, has_neighbor(m, d)
               PROVE  (LET k == step(m, d)
                           p == opposite(d)
                       IN  outCredit[m][d] + credInbox[m][d]
                             + Len(cur[k][p]) + Len(nxt[k][p]) = CreditInit)'
    BY DEF LinkCreditsConserved
  <2>1. nxt'[step(m, d)][opposite(d)] = nxt[step(m, d)][opposite(d)]
    BY <1>3, StepBack
  <2>2. QED
    BY <2>1 DEF CreditInv, LinkCreditsConserved, DrainAndInject
<1>5. InjectCreditsConserved'
  <2> SUFFICES ASSUME NEW m \in Node
               PROVE  (injectCredit[m] + peCreditReturn[m]
                        + Len(cur[m][Local]) + Len(nxt[m][Local]) = CreditInit)'
    BY DEF InjectCreditsConserved
  <2> DEFINE seen == Len(cur[m][Local])
             staged == Len(nxt[m][Local])
             stagedNow == Len(nxt'[m][Local])
             added == Len(fs)
  <2>1. injectCredit[m] + peCreditReturn[m] + seen + staged = CreditInit
    BY DEF CreditInv, InjectCreditsConserved
  <2>2. /\ injectCredit[m] \in Nat /\ peCreditReturn[m] \in Nat
        /\ seen \in Nat /\ staged \in Nat /\ added \in Nat
    BY <1>1, LenProperties DEF RouterTypeOK
  <2>3. stagedNow = IF m = n THEN staged + added ELSE staged
    <3>1. nxt'[m][Local] = IF m = n THEN nxt[n][Local] \o fs ELSE nxt[m][Local]
      BY <1>1, <1>2 DEF RouterTypeOK
    <3>2. nxt[n][Local] \in Seq(Flit)
      BY <1>1 DEF RouterTypeOK
    <3>3. QED
      BY <3>1, <3>2, ConcatProperties
  <2>4. injectCredit'[m] = IF m = n THEN injectCredit[m] - added ELSE injectCredit[m]
    BY DEF DrainAndInject, RouterTypeOK
  <2>5. peCreditReturn'[m] = peCreditReturn[m] /\ cur' = cur
    BY DEF DrainAndInject
  <2>6. injectCredit'[m] + peCreditReturn'[m] + seen + stagedNow = CreditInit
    <3> HIDE DEF seen, staged, stagedNow, added
    <3>1. QED
      BY <2>1, <2>2, <2>3, <2>4, <2>5
  <2>7. QED
    BY <2>5, <2>6
<1>6. EdgePortsEmpty'
  BY <1>3 DEF CreditInv, EdgePortsEmpty, DrainAndInject
<1>7. QED
  BY <1>4, <1>5, <1>6 DEF CreditInv

(* No queue or counter of the links is written: by the PE's commit, or by a
   step outside the routers. *)
LEMMA LinksUnchangedCredits ==
  ASSUME CreditInv,
         UNCHANGED <<cur, nxt, outCredit, credInbox, injectCredit, peCreditReturn>>
  PROVE  CreditInv'
BY DEF CreditInv, LinkCreditsConserved, InjectCreditsConserved, EdgePortsEmpty

-----------------------------------------------------------------------------
(* What follows from the invariant in any state. *)

LEMMA CreditsBoundFifos ==
  ASSUME RouterTypeOK, CreditInv
  PROVE  FifoNeverOverflows
<1> SUFFICES ASSUME NEW n \in Node, NEW p \in Dir
             PROVE  Len(cur[n][p]) + Len(nxt[n][p]) <= InBufCap
  BY DEF FifoNeverOverflows
<1> DEFINE seen == Len(cur[n][p])
           staged == Len(nxt[n][p])
<1>1. seen \in Nat /\ staged \in Nat
  BY LenProperties DEF RouterTypeOK
<1>2. CreditInit \in Nat /\ CreditInit <= 32 /\ InBufCap = 32
  BY CreditAssumption DEF InBufCap
<1>3. CASE p = Local
  <2>1. injectCredit[n] + peCreditReturn[n] + seen + staged = CreditInit
    BY <1>3 DEF CreditInv, InjectCreditsConserved
  <2>2. injectCredit[n] \in Nat /\ peCreditReturn[n] \in Nat
    BY DEF RouterTypeOK
  <2> HIDE DEF seen, staged
  <2>3. seen + staged <= InBufCap
    BY <1>1, <1>2, <2>1, <2>2
  <2>4. QED
    BY <2>3 DEF seen, staged
<1>4. CASE p \in Cardinal /\ has_neighbor(n, p)
  <2> DEFINE m == step(n, p)
             d == opposite(p)
  <2>1. /\ m \in Node /\ d \in Cardinal /\ has_neighbor(m, d)
        /\ step(m, d) = n /\ opposite(d) = p
    BY <1>4, StepBack
  <2>2. outCredit[m][d] + credInbox[m][d] + seen + staged = CreditInit
    BY <2>1 DEF CreditInv, LinkCreditsConserved
  <2>3. outCredit[m][d] \in Nat /\ credInbox[m][d] \in Nat
    <3>1. d \in Dir
      BY <2>1 DEF Cardinal, Dir, Local, East, South
    <3>2. QED
      BY <2>1, <3>1 DEF RouterTypeOK
  <2> HIDE DEF seen, staged, m, d
  <2>4. seen + staged <= InBufCap
    BY <1>1, <1>2, <2>2, <2>3
  <2>5. QED
    BY <2>4 DEF seen, staged
<1>5. CASE p \in Cardinal /\ ~has_neighbor(n, p)
  <2>1. cur[n][p] = << >> /\ nxt[n][p] = << >>
    BY <1>5 DEF CreditInv, EdgePortsEmpty
  <2>2. seen = 0 /\ staged = 0
    BY <2>1
  <2>3. QED
    BY <1>2, <2>2
<1>6. p = Local \/ p \in Cardinal
  BY DEF Dir, Cardinal, Local, East, South
<1>7. QED
  BY <1>3, <1>4, <1>5, <1>6

LEMMA TypedFlitsStayOnMesh ==
  ASSUME RouterTypeOK
  PROVE  NeverRoutedOffMesh
<1> SUFFICES ASSUME NEW n \in Node, NEW o \in Cardinal, NEW p \in Requests(n, o)
             PROVE  has_neighbor(n, o)
  BY DEF NeverRoutedOffMesh
<1>1. /\ p \in Dir /\ cur[n][p] \in Seq(Flit) /\ cur[n][p] # << >>
      /\ route_xy(n, Head(cur[n][p]).dst) = o
  BY DEF Requests, RouterTypeOK
<1>2. Head(cur[n][p]).dst \in Node
  BY <1>1, HeadTailProperties, FlitAssumption
<1>3. o # Local
  BY DEF Cardinal, Local, East, South
<1>4. QED
  BY <1>1, <1>2, <1>3, RouteOnMesh

-----------------------------------------------------------------------------
(* XY discipline. *)

(* One hop along its route keeps a flit within what XY allows it. *)
LEMMA HopObeysXy ==
  ASSUME NEW n \in Node, NEW f, f.dst \in Node,
         NEW o \in Cardinal, route_xy(n, f.dst) = o
  PROVE  ObeysXy(step(n, o), opposite(o), f)
BY MeshAssumption
   DEF ObeysXy, route_xy, step, opposite, Node, Cardinal, Local, East, West, North, South

(* What the queues of the ports between routers hold after a compute: what
   they held, and what a neighbour has sent. *)
LEMMA ComputeXy ==
  ASSUME RouterTypeOK, XyDiscipline, NEW r \in Node, Compute(r)
  PROVE  XyDiscipline'
<1>0. Cardinal \subseteq Dir
  BY DEF Cardinal, Dir, Local, East, South
<1> SUFFICES ASSUME NEW n \in Node, NEW p \in Cardinal
             PROVE  /\ \A i \in 1 .. Len(cur'[n][p]) : ObeysXy(n, p, cur'[n][p][i])
                    /\ \A i \in 1 .. Len(nxt'[n][p]) : ObeysXy(n, p, nxt'[n][p][i])
  BY DEF XyDiscipline, ObeysXy
<1>1. /\ cur[n][p] \in Seq(Flit) /\ nxt[n][p] \in Seq(Flit)
      /\ \A i \in 1 .. Len(cur[n][p]) : ObeysXy(n, p, cur[n][p][i])
      /\ \A i \in 1 .. Len(nxt[n][p]) : ObeysXy(n, p, nxt[n][p][i])
  BY <1>0 DEF RouterTypeOK, XyDiscipline
<1>2. \A i \in 1 .. Len(cur'[n][p]) : ObeysXy(n, p, cur'[n][p][i])
  <2>1. cur'[n][p] = IF n = r /\ p \in Popped(r) THEN Tail(cur[n][p]) ELSE cur[n][p]
    BY <1>0 DEF Compute, RouterTypeOK
  <2>2. n = r /\ p \in Popped(r) => cur[n][p] # << >>
    BY PoppedHasFlit
  <2>3. QED
    BY <1>1, <2>1, <2>2, HeadTailProperties
<1>3. \A i \in 1 .. Len(nxt'[n][p]) : ObeysXy(n, p, nxt'[n][p][i])
  <2>1. CASE Faces(n, p, r) /\ opposite(p) \in Granted(r)
    <3>1. nxt'[n][p] = Append(nxt[n][p], Sent(r, opposite(p)))
      BY <1>0, <2>1 DEF Compute
    <3>2. /\ Sent(r, opposite(p)) \in Flit
          /\ route_xy(r, Sent(r, opposite(p)).dst) = opposite(p)
      BY <2>1, SentIsFlit
    <3>3. /\ opposite(p) \in Cardinal
          /\ step(r, opposite(p)) = n /\ opposite(opposite(p)) = p
      BY <2>1, StepBack DEF Faces
    <3>4. ObeysXy(n, p, Sent(r, opposite(p)))
      BY <3>2, <3>3, HopObeysXy, FlitAssumption
    <3>5. QED
      BY <1>1, <3>1, <3>2, <3>4, AppendProperties
  <2>2. CASE ~(Faces(n, p, r) /\ opposite(p) \in Granted(r))
    <3>1. nxt'[n][p] = nxt[n][p]
      BY <1>0, <2>2 DEF Compute
    <3>2. QED
      BY <1>1, <3>1
  <2>3. QED
    BY <2>1, <2>2
<1>4. QED
  BY <1>2, <1>3

LEMMA CommitXy ==
  ASSUME RouterTypeOK, XyDiscipline, NEW r \in Node, Commit(r)
  PROVE  XyDiscipline'
<1>0. Cardinal \subseteq Dir
  BY DEF Cardinal, Dir, Local, East, South
<1> SUFFICES ASSUME NEW n \in Node, NEW p \in Cardinal
             PROVE  /\ \A i \in 1 .. Len(cur'[n][p]) : ObeysXy(n, p, cur'[n][p][i])
                    /\ \A i \in 1 .. Len(nxt'[n][p]) : ObeysXy(n, p, nxt'[n][p][i])
  BY DEF XyDiscipline, ObeysXy
<1>1. /\ cur[n][p] \in Seq(Flit) /\ nxt[n][p] \in Seq(Flit)
      /\ \A i \in 1 .. Len(cur[n][p]) : ObeysXy(n, p, cur[n][p][i])
      /\ \A i \in 1 .. Len(nxt[n][p]) : ObeysXy(n, p, nxt[n][p][i])
  BY <1>0 DEF RouterTypeOK, XyDiscipline
<1>2. CASE n = r
  <2>1. cur'[n][p] = cur[n][p] \o nxt[n][p] /\ nxt'[n][p] = << >>
    BY <1>0, <1>2 DEF Commit, RouterTypeOK, Merge
  <2>2. ASSUME NEW i \in 1 .. Len(cur[n][p] \o nxt[n][p])
        PROVE  ObeysXy(n, p, (cur[n][p] \o nxt[n][p])[i])
    <3> DEFINE s == cur[n][p]
               t == nxt[n][p]
    <3>1. s \in Seq(Flit) /\ t \in Seq(Flit) /\ i \in 1 .. Len(s \o t)
      BY <1>1
    <3>2. \/ i \in 1 .. Len(s) /\ (s \o t)[i] = s[i]
          \/ i - Len(s) \in 1 .. Len(t) /\ (s \o t)[i] = t[i - Len(s)]
      <4> HIDE DEF s, t
      <4>1. QED
        BY <3>1, ConcatElement
    <3>3. QED
      BY <1>1, <3>2
  <2>3. \A i \in 1 .. Len(cur'[n][p]) : ObeysXy(n, p, cur'[n][p][i])
    BY <2>1, <2>2
  <2>4. Len(nxt'[n][p]) = 0
    BY <2>1
  <2>5. QED
    BY <2>3, <2>4
<1>3. CASE n # r
  <2>1. cur'[n][p] = cur[n][p] /\ nxt'[n][p] = nxt[n][p]
    BY <1>0, <1>3 DEF Commit, RouterTypeOK
  <2>2. QED
    BY <1>1, <2>1
<1>4. QED
  BY <1>2, <1>3

(* What a PE injects enters a Local port, of which XY asks nothing. *)
LEMMA DrainAndInjectXy ==
  ASSUME RouterTypeOK, XyDiscipline, NEW n \in Node, NEW fs, DrainAndInject(n, fs)
  PROVE  XyDiscipline'
<1>1. Cardinal \subseteq Dir /\ Local \in Dir /\ Local \notin Cardinal
  BY DEF Cardinal, Dir, Local, East, South
<1>2. nxt' = [nxt EXCEPT ![n][Local] = nxt[n][Local] \o fs] /\ cur' = cur
  BY DEF DrainAndInject
<1>3. \A m \in Node, p \in Cardinal : nxt'[m][p] = nxt[m][p]
  BY <1>1, <1>2 DEF RouterTypeOK
<1> SUFFICES ASSUME NEW m \in Node, NEW p \in Cardinal
             PROVE  /\ \A i \in 1 .. Len(cur'[m][p]) : ObeysXy(m, p, cur'[m][p][i])
                    /\ \A i \in 1 .. Len(nxt'[m][p]) : ObeysXy(m, p, nxt'[m][p][i])
  BY DEF XyDiscipline, ObeysXy
<1>4. QED
  BY <1>2, <1>3 DEF XyDiscipline

LEMMA QueuesUnchangedXy ==
  ASSUME XyDiscipline, UNCHANGED <<cur, nxt>>
  PROVE  XyDiscipline'
BY DEF XyDiscipline, ObeysXy

LEMMA InitXy == RouterInit => XyDiscipline
<1>1. Cardinal \subseteq Dir
  BY DEF Cardinal, Dir, Local, East, South
<1>2. QED
  BY <1>1 DEF RouterInit, XyDiscipline

-----------------------------------------------------------------------------
(* Arbitration. *)

(* A waiting port that is not served comes closer to the cursor. *)
LEMMA PassedOverIsCloser ==
  ASSUME RouterTypeOK, NEW r \in Node, Compute(r),
         NEW o \in Granted(r), NEW p \in Requests(r, o), p # Winner(r, o)
  PROVE  Distance(r, o, p)' < Distance(r, o, p)
<1> DEFINE w == Winner(r, o)
           c == rrCursor[r][o]
<1>1. Dir = 0 .. 4
  BY DEF Dir, Local, South
<1>2. o \in Dir /\ p \in Dir /\ c \in Dir
  BY DEF Granted, Requests, RouterTypeOK
<1>3. w \in Requests(r, o)
  BY <1>2, WinnerAsked
<1>4. w \in Dir /\ Distance(r, o, w) <= Distance(r, o, p)
  <2>1. \E x \in Requests(r, o) :
          \A q \in Requests(r, o) : Distance(r, o, x) <= Distance(r, o, q)
    BY <1>2, WinnerIsNearest
  <2>2. \A q \in Requests(r, o) : Distance(r, o, w) <= Distance(r, o, q)
    BY <2>1 DEF Winner
  <2>3. QED
    BY <1>3, <2>2 DEF Requests
<1>5. rrCursor'[r][o] = (w + 1) % 5
  BY <1>2 DEF Compute, RouterTypeOK, NextCursor, PortCount
<1>6. (w + 5 - c) % 5 <= (p + 5 - c) % 5
  BY <1>4 DEF Distance, PortCount
<1>7. (p + 5 - ((w + 1) % 5)) % 5 < (p + 5 - c) % 5
  <2>1. p \in 0 .. 4 /\ w \in 0 .. 4 /\ c \in 0 .. 4 /\ p # w
    BY <1>1, <1>2, <1>4
  <2> HIDE DEF w, c
  <2>2. (w + 1) % 5 = IF w = 4 THEN 0 ELSE w + 1
    BY <2>1
  <2>3. /\ (w + 5 - c) % 5 = IF w < c THEN w + 5 - c ELSE w - c
        /\ (p + 5 - c) % 5 = IF p < c THEN p + 5 - c ELSE p - c
    BY <2>1
  <2>4. QED
    BY <1>6, <2>1, <2>2, <2>3
<1>8. QED
  BY <1>5, <1>7 DEF Distance, PortCount

-----------------------------------------------------------------------------
(* Deadlock freedom.  The channels of the mesh are ranked so that a flit
   only ever waits for a channel below its own: first those along a row,
   then those along a column. *)
ChannelRank(n, p) ==
  IF p = Local THEN H + W + 1
  ELSE IF p = West THEN H + W - n.x
  ELSE IF p = East THEN H + 1 + n.x
  ELSE IF p = North THEN H - n.y
  ELSE 1 + n.y

LEMMA RankFalls ==
  ASSUME NEW n \in Node, NEW p \in Dir, NEW f, f.dst \in Node, ObeysXy(n, p, f),
         NEW o \in Cardinal, route_xy(n, f.dst) = o
  PROVE  /\ ChannelRank(n, p) \in Nat
         /\ ChannelRank(step(n, o), opposite(o)) < ChannelRank(n, p)
<1>1. n.x \in 0 .. W - 1 /\ n.y \in 0 .. H - 1 /\ f.dst.x \in 0 .. W - 1 /\ f.dst.y \in 0 .. H - 1
  BY DEF Node
<1>2. W \in Nat /\ H \in Nat
  BY MeshAssumption
<1>3. QED
  BY <1>1, <1>2
     DEF ChannelRank, ObeysXy, route_xy, step, opposite, Dir, Cardinal,
         Local, East, West, North, South

(* When nothing is staged and no credit is under way, as at the start of a
   cycle, a mesh that holds a flit can move one: otherwise every head would
   wait for a full queue of a lower rank. *)
LEMMA NoCircularWait ==
  ASSUME RouterTypeOK, CreditInv, XyDiscipline,
         \A n \in Node, p \in Dir : nxt[n][p] = << >> /\ credInbox[n][p] = 0
  PROVE  \/ \A n \in Node, p \in Dir : cur[n][p] = << >>
         \/ \E r \in Node : Granted(r) # {}
<1> SUFFICES ASSUME NEW n0 \in Node, NEW p0 \in Dir, cur[n0][p0] # << >>,
                    \A r \in Node : Granted(r) = {}
             PROVE  FALSE
  OBVIOUS
<1> DEFINE Held == {c \in Node \X Dir : cur[c[1]][c[2]] # << >>}
           Ranks == {ChannelRank(c[1], c[2]) : c \in Held}
<1>1. ASSUME NEW n \in Node, NEW p \in Dir, cur[n][p] # << >>
      PROVE  /\ ChannelRank(n, p) \in Nat
             /\ \E m \in Node, q \in Dir :
                  /\ cur[m][q] # << >>
                  /\ ChannelRank(m, q) < ChannelRank(n, p)
  <2> DEFINE f == Head(cur[n][p])
             o == route_xy(n, f.dst)
  <2>1. cur[n][p] \in Seq(Flit) /\ Len(cur[n][p]) >= 1
    <3>1. cur[n][p] \in Seq(Flit)
      BY DEF RouterTypeOK
    <3>2. QED
      BY <1>1, <3>1, EmptySeq
  <2>2. f \in Flit /\ f.dst \in Node /\ f = cur[n][p][1]
    BY <1>1, <2>1, HeadTailProperties, FlitAssumption
  <2>3. ObeysXy(n, p, f)
    <3>1. CASE p = Local
      BY <3>1 DEF ObeysXy, Local, East, West, North, South
    <3>2. CASE p # Local
      <4>1. p \in Cardinal
        BY <3>2 DEF Cardinal, Dir, Local, East, South
      <4>2. QED
        BY <2>1, <2>2, <4>1 DEF XyDiscipline
    <3>3. QED
      BY <3>1, <3>2
  <2>4. o \in Dir /\ p \in Requests(n, o)
    BY <1>1, <2>2, RouteOnMesh DEF Requests
  <2>5. o # Local /\ ~(outCredit[n][o] > 0)
    BY <2>4 DEF Granted
  <2>6. o \in Cardinal /\ has_neighbor(n, o)
    <3>1. has_neighbor(n, o)
      BY <2>2, <2>5, RouteOnMesh
    <3>2. QED
      BY <2>4, <2>5, <3>1 DEF Cardinal, Dir, Local, East, South
  <2> DEFINE m == step(n, o)
             q == opposite(o)
  <2>7. m \in Node /\ q \in Dir
    BY <2>4, <2>6, StepBack, OppositeIsDir
  <2>8. outCredit[n][o] + credInbox[n][o] + Len(cur[m][q]) + Len(nxt[m][q]) = CreditInit
    BY <2>6 DEF CreditInv, LinkCreditsConserved
  <2>9. cur[m][q] # << >>
    <3>1. outCredit[n][o] \in Nat /\ credInbox[n][o] = 0 /\ Len(nxt[m][q]) = 0
      BY <2>4, <2>7 DEF RouterTypeOK
    <3>2. CreditInit \in Nat /\ CreditInit >= 1
      BY CreditAssumption DEF InBufCap
    <3>3. Len(cur[m][q]) \in Nat
      BY <2>7, LenProperties DEF RouterTypeOK
    <3> DEFINE here == outCredit[n][o]
               there == Len(cur[m][q])
               staged == Len(nxt[m][q])
    <3>4. there # 0
      <4> HIDE DEF here, there, staged, m, q, o
      <4>1. here \in Nat /\ ~(here > 0) /\ staged = 0 /\ there \in Nat
        BY <2>5, <3>1, <3>3 DEF here, there, staged
      <4>2. here + 0 + there + staged = CreditInit
        BY <2>8, <3>1 DEF here, there, staged
      <4>3. QED
        BY <3>2, <4>1, <4>2
    <3>5. QED
      BY <3>4
  <2>10. ChannelRank(n, p) \in Nat /\ ChannelRank(m, q) < ChannelRank(n, p)
    BY <2>2, <2>3, <2>6, RankFalls
  <2>11. QED
    BY <2>7, <2>9, <2>10
<1>2. Ranks \in SUBSET Nat /\ Ranks # {}
  <2>1. <<n0, p0>> \in Held
    OBVIOUS
  <2>2. QED
    BY <1>1, <2>1
<1>3. PICK k \in Ranks : \A j \in Ranks : k <= j
  <2> HIDE DEF Ranks
  <2>1. QED
    BY <1>2, LeastNat
<1>4. PICK c \in Held : k = ChannelRank(c[1], c[2])
  OBVIOUS
<1>5. PICK m \in Node, q \in Dir :
        cur[m][q] # << >> /\ ChannelRank(m, q) < ChannelRank(c[1], c[2])
  BY <1>1, <1>4
<1>6. ChannelRank(m, q) \in Ranks
  <2>1. <<m, q>> \in Held
    BY <1>5
  <2>2. QED
    BY <2>1
<1>7. k <= ChannelRank(m, q) /\ ChannelRank(m, q) < k /\ k \in Nat /\ ChannelRank(m, q) \in Nat
  BY <1>2, <1>3, <1>4, <1>5, <1>6
<1>8. QED
  BY <1>7

-----------------------------------------------------------------------------
(* Counting in a queue. *)

LEMMA CountIsNat ==
  ASSUME NEW S, NEW q \in Seq(S), NEW A
  PROVE  /\ IsFiniteSet({k \in DOMAIN q : q[k] \in A})
         /\ Count(q, A) \in Nat
         /\ q = << >> => Count(q, A) = 0
         /\ Count(q, A) = 0 <=> \A k \in DOMAIN q : q[k] \notin A
<1> DEFINE K == {k \in DOMAIN q : q[k] \in A}
<1>1. DOMAIN q = 1 .. Len(q) /\ Len(q) \in Nat
  BY LenProperties
<1>2. IsFiniteSet(DOMAIN q)
  BY <1>1, FS_Interval
<1>3. IsFiniteSet(K)
  BY <1>2, FS_Subset
<1>4. Cardinality(K) \in Nat
  <2> HIDE DEF K
  <2>1. QED
    BY <1>3, FS_CardinalityType
<1>5. q = << >> => K = {}
  OBVIOUS
<1>6. Cardinality(K) = 0 <=> K = {}
  <2> HIDE DEF K
  <2>1. QED
    BY <1>3, FS_EmptySet
<1>7. QED
  BY <1>3, <1>4, <1>5, <1>6 DEF Count

LEMMA CountConcat ==
  ASSUME NEW S, NEW s \in Seq(S), NEW u \in Seq(S), NEW A
  PROVE  Count(s \o u, A) = Count(s, A) + Count(u, A)
<1> DEFINE m == Len(s)
           n == Len(u)
           K == {k \in 1 .. m : s[k] \in A}
           L == {k \in 1 .. n : u[k] \in A}
           M == {k \in 1 .. m + n : (s \o u)[k] \in A}
           R == {k \in M : k > m}
           f == [k \in L |-> k + m]
<1>1. /\ m \in Nat /\ n \in Nat
      /\ DOMAIN s = 1 .. m /\ DOMAIN u = 1 .. n /\ DOMAIN (s \o u) = 1 .. m + n
      /\ \A k \in 1 .. m + n : (s \o u)[k] = IF k <= m THEN s[k] ELSE u[k - m]
  <2>1. s \o u \in Seq(S) /\ Len(s \o u) = m + n
    BY ConcatProperties
  <2>2. QED
    BY <2>1, LenProperties, ConcatProperties
<1>2. M = K \cup R /\ K \cap R = {}
  BY <1>1
<1>3. R = {k + m : k \in L}
  <2>1. ASSUME NEW k \in R PROVE k - m \in L /\ k = (k - m) + m
    BY <1>1
  <2>2. ASSUME NEW k \in L PROVE k + m \in R
    BY <1>1
  <2> HIDE DEF R, L
  <2>3. QED
    BY <2>1, <2>2
<1>4. L \subseteq Nat
  OBVIOUS
<1>5. ExistsBijection(L, R)
  <2> HIDE DEF L, R, m
  <2>1. f \in [L -> R] /\ \A a, b \in L : f[a] = f[b] => a = b
    BY <1>1, <1>3, <1>4
  <2>2. \A r \in R : \E k \in L : f[k] = r
    BY <1>3
  <2>3. f \in Bijection(L, R)
    BY <2>1, <2>2 DEF Bijection, Injection, Surjection, IsInjective
  <2>4. QED
    BY <2>3 DEF ExistsBijection
<1>6. IsFiniteSet(K) /\ IsFiniteSet(L)
  <2>1. IsFiniteSet(1 .. m) /\ IsFiniteSet(1 .. n)
    BY <1>1, FS_Interval
  <2>2. QED
    BY <2>1, FS_Subset
<1>7. IsFiniteSet(R) /\ Cardinality(R) = Cardinality(L)
  <2> HIDE DEF L, R
  <2>1. QED
    BY <1>5, <1>6, FS_Bijection
<1>8. Cardinality(M) = Cardinality(K) + Cardinality(R)
  <2> HIDE DEF K, R, M
  <2>1. Cardinality({}) = 0 /\ Cardinality(K) \in Nat /\ Cardinality(R) \in Nat
    BY <1>6, <1>7, FS_EmptySet, FS_CardinalityType
  <2>2. Cardinality(K \cup R) = Cardinality(K) + Cardinality(R) - Cardinality(K \cap R)
    BY <1>6, <1>7, FS_Union
  <2>3. Cardinality(K \cap R) = 0
    BY <1>2, <2>1
  <2>4. Cardinality(M) = Cardinality(K) + Cardinality(R) - 0
    BY <1>2, <2>2, <2>3
  <2>5. QED
    BY <2>1, <2>4
<1>9. Count(s, A) = Cardinality(K) /\ Count(u, A) = Cardinality(L)
      /\ Count(s \o u, A) = Cardinality(M)
  BY <1>1 DEF Count
<1>10. QED
  BY <1>7, <1>8, <1>9

(* A queue of one. *)
LEMMA CountOne ==
  ASSUME NEW e, NEW A
  PROVE  Count(<<e>>, A) = IF e \in A THEN 1 ELSE 0
<1>1. {k \in DOMAIN <<e>> : <<e>>[k] \in A} = IF e \in A THEN {1} ELSE {}
  OBVIOUS
<1>2. Cardinality({1}) = 1 /\ Cardinality({}) = 0
  BY FS_Singleton, FS_EmptySet
<1>3. QED
  BY <1>1, <1>2 DEF Count

LEMMA CountAppend ==
  ASSUME NEW S, NEW q \in Seq(S), NEW e \in S, NEW A
  PROVE  Count(Append(q, e), A) = Count(q, A) + Count(<<e>>, A)
<1>1. Append(q, e) = q \o <<e>> /\ <<e>> \in Seq(S)
  BY AppendIsConcat
<1>2. QED
  BY <1>1, CountConcat

LEMMA CountTail ==
  ASSUME NEW S, NEW q \in Seq(S), q # << >>, NEW A
  PROVE  Count(q, A) = Count(<<Head(q)>>, A) + Count(Tail(q), A)
<1>1. Head(q) \in S /\ Tail(q) \in Seq(S)
  BY HeadTailProperties
<1>2. <<Head(q)>> \in Seq(S)
  BY <1>1
<1>3. q = <<Head(q)>> \o Tail(q)
  <2>1. Len(q) \in Nat \ {0} /\ q[1] = Head(q)
    BY EmptySeq
  <2>2. SubSeq(q, 1, Len(q)) = <<q[1]>> \o SubSeq(q, 2, Len(q))
    BY <2>1, SubSeqRecursiveFirst
  <2>3. QED
    BY <2>1, <2>2, SubSeqFull, TailIsSubSeq
<1>4. QED
  BY <1>1, <1>2, <1>3, CountConcat

(* What is taken from the front of a queue and what stays behind. *)
LEMMA CountSplit ==
  ASSUME NEW S, NEW q \in Seq(S), NEW m \in 0 .. Len(q), NEW A
  PROVE  /\ SubSeq(q, 1, m) \in Seq(S) /\ SubSeq(q, m + 1, Len(q)) \in Seq(S)
         /\ Len(SubSeq(q, 1, m)) = m /\ Len(SubSeq(q, m + 1, Len(q))) = Len(q) - m
         /\ Count(q, A) = Count(SubSeq(q, 1, m), A) + Count(SubSeq(q, m + 1, Len(q)), A)
<1>1. Len(q) \in Nat /\ m \in Nat /\ m <= Len(q)
  BY LenProperties
<1>2. \A i \in 1 .. Len(q) : q[i] \in S
  BY ElementOfSeq
<1>3. SubSeq(q, 1, m) \in Seq(S) /\ Len(SubSeq(q, 1, m)) = m
  BY <1>1, <1>2, SubSeqProperties
<1>4. SubSeq(q, m + 1, Len(q)) \in Seq(S) /\ Len(SubSeq(q, m + 1, Len(q))) = Len(q) - m
  <2>1. /\ SubSeq(q, m + 1, Len(q)) \in Seq(S)
        /\ Len(SubSeq(q, m + 1, Len(q))) =
             IF m + 1 <= Len(q) THEN Len(q) - (m + 1) + 1 ELSE 0
    BY <1>1, <1>2, SubSeqProperties
  <2>2. QED
    BY <1>1, <2>1
<1>5. SubSeq(q, 1, m) \o SubSeq(q, m + 1, Len(q)) = q
  <2>1. SubSeq(q, 1, m) \o SubSeq(q, m + 1, Len(q)) = SubSeq(q, 1, Len(q))
    <3>1. 1 \in 1 .. Len(q) + 1 /\ m \in 1 - 1 .. Len(q) /\ Len(q) \in m .. Len(q)
      BY <1>1
    <3>2. QED
      BY <3>1, ConcatAdjacentSubSeq
  <2>2. QED
    BY <2>1, SubSeqFull
<1>6. Count(q, A) = Count(SubSeq(q, 1, m), A) + Count(SubSeq(q, m + 1, Len(q)), A)
  <2> DEFINE a == SubSeq(q, 1, m)
             b == SubSeq(q, m + 1, Len(q))
  <2>1. a \in Seq(S) /\ b \in Seq(S) /\ a \o b = q
    BY <1>3, <1>4, <1>5
  <2> HIDE DEF a, b
  <2>2. Count(a \o b, A) = Count(a, A) + Count(b, A)
    BY <2>1, CountConcat
  <2>3. QED
    BY <2>1, <2>2 DEF a, b
<1>7. QED
  BY <1>3, <1>4, <1>6

-----------------------------------------------------------------------------
(* Counting in a family of queues: a function c from the names of the queues
   to the queues. *)
Queues(I, S) == [I -> Seq(S)]
Spots(c, A) ==
  UNION {{<<l, k>> : k \in {j \in DOMAIN c[l] : c[l][j] \in A}} : l \in DOMAIN c}

LEMMA SpotsUnfold ==
  ASSUME NEW c, NEW A
  PROVE  \A s : s \in Spots(c, A) <=>
           \E l \in DOMAIN c : \E k \in DOMAIN c[l] : c[l][k] \in A /\ s = <<l, k>>
<1> DEFINE Here(l) == {<<l, k>> : k \in {j \in DOMAIN c[l] : c[l][j] \in A}}
<1>1. \A s : s \in Spots(c, A) <=> \E l \in DOMAIN c : s \in Here(l)
  <2>1. Spots(c, A) = UNION {Here(l) : l \in DOMAIN c}
    BY DEF Spots
  <2> HIDE DEF Here
  <2>2. QED
    BY <2>1
<1>2. \A s, l : s \in Here(l) <=> \E k \in DOMAIN c[l] : c[l][k] \in A /\ s = <<l, k>>
  OBVIOUS
<1> HIDE DEF Here
<1>3. QED
  BY <1>1, <1>2

LEMMA SpotsFinite ==
  ASSUME NEW S, NEW I, IsFiniteSet(I), NEW c \in Queues(I, S), NEW A
  PROVE  IsFiniteSet(Spots(c, A)) /\ Cardinality(Spots(c, A)) \in Nat
<1> DEFINE Here(l) == {<<l, k>> : k \in {j \in DOMAIN c[l] : c[l][j] \in A}}
           All == {Here(l) : l \in I}
<1>1. ASSUME NEW l \in I PROVE IsFiniteSet(Here(l))
  <2> DEFINE K == {j \in DOMAIN c[l] : c[l][j] \in A}
  <2>1. IsFiniteSet(K)
    BY CountIsNat DEF Queues
  <2>2. [k \in K |-> <<l, k>>] \in Surjection(K, Here(l))
    BY DEF Surjection
  <2> HIDE DEF K, Here
  <2>3. QED
    BY <2>1, <2>2, FS_Surjection
<1> HIDE DEF Here
<1>2. IsFiniteSet(All)
  <2>1. [l \in I |-> Here(l)] \in Surjection(I, All)
    BY DEF Surjection
  <2> HIDE DEF All
  <2>2. QED
    BY <2>1, FS_Surjection
<1>3. \A T \in All : IsFiniteSet(T)
  BY <1>1
<1>4. Spots(c, A) = UNION All
  BY DEF Spots, Here, Queues
<1> HIDE DEF All
<1>5. QED
  BY <1>2, <1>3, <1>4, FS_UNION, FS_CardinalityType

(* The families c and d have the same queues outside J. *)
SameOff(J, c, d) == \A l \in DOMAIN c \ J : d[l] = c[l]

(* When two families differ in one queue only, so do their counts. *)
LEMMA OneQueue ==
  ASSUME NEW S, NEW I, IsFiniteSet(I), NEW c \in Queues(I, S), NEW d \in Queues(I, S),
         NEW i \in I, SameOff({i}, c, d), NEW A
  PROVE  Cardinality(Spots(d, A)) + Count(c[i], A) = Cardinality(Spots(c, A)) + Count(d[i], A)
<1> DEFINE Standing(e) == {<<i, k>> : k \in {j \in DOMAIN e[i] : e[i][j] \in A}}
           Rest == {s \in Spots(c, A) : s[1] # i}
<1>1. ASSUME NEW e \in Queues(I, S), \A l \in I \ {i} : e[l] = c[l]
      PROVE  Cardinality(Spots(e, A)) = Cardinality(Rest) + Count(e[i], A)
  <2> DEFINE K == {j \in DOMAIN e[i] : e[i][j] \in A}
             f == [k \in K |-> <<i, k>>]
  <2>1. IsFiniteSet(K) /\ Count(e[i], A) = Cardinality(K)
    BY CountIsNat DEF Count, Queues
  <2>2. f \in Bijection(K, Standing(e))
    BY DEF Bijection, Injection, Surjection, IsInjective
  <2>3. IsFiniteSet(Standing(e)) /\ Cardinality(Standing(e)) = Cardinality(K)
    <3> HIDE DEF K, f, Standing
    <3>1. QED
      BY <2>1, <2>2, FS_Bijection DEF ExistsBijection
  <2>4. Spots(e, A) = Rest \cup Standing(e) /\ Rest \cap Standing(e) = {}
    <3>1. \A s : s \in Spots(e, A) <=> s \in Rest \/ s \in Standing(e)
      <4>1. DOMAIN e = I /\ DOMAIN c = I
        BY DEF Queues
      <4>2. \A s : s \in Standing(e) <=> \E k \in DOMAIN e[i] : e[i][k] \in A /\ s = <<i, k>>
        OBVIOUS
      <4>3. \A s : s \in Rest <=>
              \E l \in I : l # i /\ \E k \in DOMAIN c[l] : c[l][k] \in A /\ s = <<l, k>>
        BY <4>1, SpotsUnfold
      <4>4. \A s : s \in Spots(e, A) <=>
              \E l \in I : \E k \in DOMAIN e[l] : e[l][k] \in A /\ s = <<l, k>>
        BY <4>1, SpotsUnfold
      <4> HIDE DEF Standing, Rest
      <4>5. QED
        BY <1>1, <4>2, <4>3, <4>4
    <3>2. \A s \in Standing(e) : s[1] = i
      OBVIOUS
    <3>3. \A s \in Rest : s[1] # i
      OBVIOUS
    <3> HIDE DEF Standing, Rest
    <3>4. QED
      BY <3>1, <3>2, <3>3
  <2>5. IsFiniteSet(Rest)
    BY SpotsFinite, FS_Subset
  <2> HIDE DEF Standing, Rest, K, f
  <2>6. /\ Cardinality(Rest \cup Standing(e)) =
             Cardinality(Rest) + Cardinality(Standing(e)) - Cardinality(Rest \cap Standing(e))
        /\ Cardinality({}) = 0 /\ Cardinality(Rest) \in Nat /\ Cardinality(Standing(e)) \in Nat
    BY <2>3, <2>5, FS_Union, FS_EmptySet, FS_CardinalityType
  <2>7. Cardinality(Rest \cap Standing(e)) = 0
    BY <2>4, <2>6
  <2>8. Cardinality(Rest \cup Standing(e)) = Cardinality(Rest) + Cardinality(Standing(e))
    BY <2>6, <2>7
  <2>9. QED
    BY <2>1, <2>3, <2>4, <2>8
<1>2. IsFiniteSet(Rest) /\ Cardinality(Rest) \in Nat
  <2>1. IsFiniteSet(Rest)
    BY SpotsFinite, FS_Subset
  <2> HIDE DEF Rest
  <2>2. QED
    BY <2>1, FS_CardinalityType
<1> HIDE DEF Rest
<1>3. Count(c[i], A) \in Nat /\ Count(d[i], A) \in Nat
  BY CountIsNat DEF Queues
<1>4. /\ Cardinality(Spots(c, A)) = Cardinality(Rest) + Count(c[i], A)
      /\ Cardinality(Spots(d, A)) = Cardinality(Rest) + Count(d[i], A)
  BY <1>1 DEF SameOff, Queues
<1>5. QED
  BY <1>2, <1>3, <1>4

LEMMA TwoQueues ==
  ASSUME NEW S, NEW I, IsFiniteSet(I), NEW c \in Queues(I, S), NEW d \in Queues(I, S),
         NEW i \in I, NEW j \in I, i # j, SameOff({i, j}, c, d), NEW A
  PROVE  Cardinality(Spots(d, A)) + Count(c[i], A) + Count(c[j], A)
           = Cardinality(Spots(c, A)) + Count(d[i], A) + Count(d[j], A)
<1> DEFINE e == [c EXCEPT ![i] = d[i]]
<1>1. /\ e \in Queues(I, S) /\ e[i] = d[i] /\ e[j] = c[j]
      /\ SameOff({i}, c, e) /\ SameOff({j}, e, d)
  BY DEF SameOff, Queues
<1> HIDE DEF e
<1> DEFINE x == Cardinality(Spots(c, A))
           y == Cardinality(Spots(d, A))
           z == Cardinality(Spots(e, A))
<1>2. z + Count(c[i], A) = x + Count(d[i], A)
  BY <1>1, OneQueue
<1>3. y + Count(c[j], A) = z + Count(d[j], A)
  BY <1>1, OneQueue
<1>4. x \in Nat /\ y \in Nat /\ z \in Nat
  BY <1>1, SpotsFinite
<1>5. /\ Count(c[i], A) \in Nat /\ Count(c[j], A) \in Nat
      /\ Count(d[i], A) \in Nat /\ Count(d[j], A) \in Nat
  BY CountIsNat DEF Queues
<1> HIDE DEF x, y, z
<1>6. y + Count(c[i], A) + Count(c[j], A) = x + Count(d[i], A) + Count(d[j], A)
  BY <1>2, <1>3, <1>4, <1>5
<1>7. QED
  BY <1>6 DEF x, y

(* Flits handed from one queue to another, for up to five disjoint pairs of
   queues at once: the moves of one router. *)
LEMMA PairsOfQueues ==
  ASSUME NEW S, NEW I, IsFiniteSet(I), NEW c \in Queues(I, S), NEW d \in Queues(I, S),
         NEW K \in SUBSET Dir, NEW from \in [K -> I], NEW to \in [K -> I], NEW A,
         \A a, b \in K : a # b => from[a] # from[b] /\ to[a] # to[b],
         \A a, b \in K : from[a] # to[b],
         \A l \in I : (\A a \in K : l # from[a] /\ l # to[a]) => d[l] = c[l],
         \A a \in K : Count(c[from[a]], A) + Count(c[to[a]], A)
                        = Count(d[from[a]], A) + Count(d[to[a]], A)
  PROVE  Cardinality(Spots(d, A)) = Cardinality(Spots(c, A))
<1> DEFINE Done(m, l) == \E a \in K : a < m /\ (l = from[a] \/ l = to[a])
           e(m) == [l \in I |-> IF Done(m, l) THEN d[l] ELSE c[l]]
<1>0. K \subseteq 0 .. 4
  BY DEF Dir, Local, South
<1>1. ASSUME NEW m \in 0 .. 4
      PROVE  Cardinality(Spots(e(m + 1), A)) = Cardinality(Spots(e(m), A))
  <2>1. e(m) \in Queues(I, S) /\ e(m + 1) \in Queues(I, S)
    BY DEF Queues
  <2>2. CASE m \notin K
    <3>1. \A l \in I : Done(m + 1, l) <=> Done(m, l)
      BY <1>0, <2>2
    <3> HIDE DEF Done
    <3>2. e(m + 1) = e(m)
      BY <3>1
    <3>3. QED
      BY <3>2
  <2>3. CASE m \in K
    <3> DEFINE i == from[m]
               j == to[m]
    <3>1. i \in I /\ j \in I /\ i # j
      BY <2>3
    <3>2. ~Done(m, i) /\ ~Done(m, j) /\ Done(m + 1, i) /\ Done(m + 1, j)
      BY <1>0, <2>3
    <3>3. \A l \in I \ {i, j} : Done(m + 1, l) <=> Done(m, l)
      BY <1>0, <2>3
    <3>4. Count(c[i], A) + Count(c[j], A) = Count(d[i], A) + Count(d[j], A)
      BY <2>3
    <3> HIDE DEF Done, i, j
    <3>5. /\ e(m)[i] = c[i] /\ e(m)[j] = c[j]
          /\ e(m + 1)[i] = d[i] /\ e(m + 1)[j] = d[j]
          /\ SameOff({i, j}, e(m), e(m + 1))
      BY <3>1, <3>2, <3>3 DEF SameOff
    <3>6. /\ Count(c[i], A) \in Nat /\ Count(c[j], A) \in Nat
          /\ Count(d[i], A) \in Nat /\ Count(d[j], A) \in Nat
      BY <3>1, CountIsNat DEF Queues
    <3> HIDE DEF e
    <3>7. Cardinality(Spots(e(m + 1), A)) + Count(c[i], A) + Count(c[j], A)
            = Cardinality(Spots(e(m), A)) + Count(d[i], A) + Count(d[j], A)
      <4> DEFINE x == e(m)
                 y == e(m + 1)
      <4>0. x \in Queues(I, S) /\ y \in Queues(I, S) /\ SameOff({i, j}, x, y)
        BY <2>1, <3>5
      <4> HIDE DEF x, y
      <4>1. Cardinality(Spots(y, A)) + Count(x[i], A) + Count(x[j], A)
              = Cardinality(Spots(x, A)) + Count(y[i], A) + Count(y[j], A)
        BY <3>1, <4>0, TwoQueues
      <4>2. QED
        BY <3>5, <4>1 DEF x, y
    <3>8. Cardinality(Spots(e(m), A)) \in Nat /\ Cardinality(Spots(e(m + 1), A)) \in Nat
      BY <2>1, SpotsFinite
    <3>9. QED
      BY <3>4, <3>6, <3>7, <3>8
  <2>4. QED
    BY <2>2, <2>3
<1>2. e(0) = c
  <2>1. \A l \in I : ~Done(0, l)
    BY <1>0
  <2> HIDE DEF Done
  <2>2. QED
    BY <2>1 DEF Queues
<1>3. e(5) = d
  <2>1. \A l \in I : ~Done(5, l) => d[l] = c[l]
    BY <1>0
  <2> HIDE DEF Done
  <2>2. QED
    BY <2>1 DEF Queues
<1> HIDE DEF e
<1>4. /\ Cardinality(Spots(e(1), A)) = Cardinality(Spots(e(0), A))
      /\ Cardinality(Spots(e(2), A)) = Cardinality(Spots(e(1), A))
      /\ Cardinality(Spots(e(3), A)) = Cardinality(Spots(e(2), A))
      /\ Cardinality(Spots(e(4), A)) = Cardinality(Spots(e(3), A))
      /\ Cardinality(Spots(e(5), A)) = Cardinality(Spots(e(4), A))
  <2>1. /\ Cardinality(Spots(e(0 + 1), A)) = Cardinality(Spots(e(0), A))
        /\ Cardinality(Spots(e(1 + 1), A)) = Cardinality(Spots(e(1), A))
        /\ Cardinality(Spots(e(2 + 1), A)) = Cardinality(Spots(e(2), A))
        /\ Cardinality(Spots(e(3 + 1), A)) = Cardinality(Spots(e(3), A))
        /\ Cardinality(Spots(e(4 + 1), A)) = Cardinality(Spots(e(4), A))
    BY <1>1
  <2>2. 0 + 1 = 1 /\ 1 + 1 = 2 /\ 2 + 1 = 3 /\ 3 + 1 = 4 /\ 4 + 1 = 5
    OBVIOUS
  <2>3. QED
    BY <2>1, <2>2
<1>5. QED
  BY <1>2, <1>3, <1>4

LEMMA FourQueues ==
  ASSUME NEW S, NEW I, IsFiniteSet(I), NEW c \in Queues(I, S), NEW d \in Queues(I, S),
         NEW i \in I, NEW j \in I, NEW k \in I, NEW l \in I,
         i # j, i # k, i # l, j # k, j # l, k # l,
         SameOff({i, j, k, l}, c, d), NEW A
  PROVE  Cardinality(Spots(d, A))
             + Count(c[i], A) + Count(c[j], A) + Count(c[k], A) + Count(c[l], A)
           = Cardinality(Spots(c, A))
             + Count(d[i], A) + Count(d[j], A) + Count(d[k], A) + Count(d[l], A)
<1> DEFINE e == [c EXCEPT ![i] = d[i], ![j] = d[j]]
<1>1. /\ e \in Queues(I, S) /\ e[i] = d[i] /\ e[j] = d[j] /\ e[k] = c[k] /\ e[l] = c[l]
      /\ SameOff({i, j}, c, e) /\ SameOff({k, l}, e, d)
  BY DEF SameOff, Queues
<1> HIDE DEF e
<1> DEFINE x == Cardinality(Spots(c, A))
           y == Cardinality(Spots(d, A))
           z == Cardinality(Spots(e, A))
<1>2. z + Count(c[i], A) + Count(c[j], A) = x + Count(d[i], A) + Count(d[j], A)
  <2>1. z + Count(c[i], A) + Count(c[j], A) = x + Count(e[i], A) + Count(e[j], A)
    BY <1>1, TwoQueues
  <2>2. QED
    BY <1>1, <2>1
<1>3. y + Count(c[k], A) + Count(c[l], A) = z + Count(d[k], A) + Count(d[l], A)
  <2>1. y + Count(e[k], A) + Count(e[l], A) = z + Count(d[k], A) + Count(d[l], A)
    BY <1>1, TwoQueues
  <2>2. QED
    BY <1>1, <2>1
<1>4. x \in Nat /\ y \in Nat /\ z \in Nat
  BY <1>1, SpotsFinite
<1>5. \A m \in {i, j, k, l} : Count(c[m], A) \in Nat /\ Count(d[m], A) \in Nat
  BY CountIsNat DEF Queues
<1> HIDE DEF x, y, z
<1>6. y + Count(c[i], A) + Count(c[j], A) + Count(c[k], A) + Count(c[l], A)
        = x + Count(d[i], A) + Count(d[j], A) + Count(d[k], A) + Count(d[l], A)
  BY <1>2, <1>3, <1>4, <1>5
<1>7. QED
  BY <1>6 DEF x, y

LEMMA TriplesFinite ==
  ASSUME NEW X, NEW Y, NEW Z, IsFiniteSet(X), IsFiniteSet(Y), IsFiniteSet(Z)
  PROVE  IsFiniteSet(X \X Y \X Z)
<1> DEFINE P == (X \X Y) \X Z
           f == [p \in P |-> <<p[1][1], p[1][2], p[2]>>]
<1>1. IsFiniteSet(X \X Y)
  BY FS_Product
<1>2. IsFiniteSet(P)
  BY <1>1, FS_Product
<1>3. f \in [P -> X \X Y \X Z]
  OBVIOUS
<1>4. ASSUME NEW q \in X \X Y \X Z PROVE \E p \in P : f[p] = q
  <2>1. PICK x \in X, y \in Y, z \in Z : q = <<x, y, z>>
    OBVIOUS
  <2>2. <<<<x, y>>, z>> \in P /\ f[<<<<x, y>>, z>>] = <<x, y, z>>
    OBVIOUS
  <2>3. QED
    BY <2>1, <2>2
<1>5. f \in Surjection(P, X \X Y \X Z)
  BY <1>3, <1>4 DEF Surjection
<1> HIDE DEF P, f
<1>6. QED
  BY <1>2, <1>5, FS_Surjection

-----------------------------------------------------------------------------
(* The queues of the mesh within a larger family, one that also has what the
   processing elements hold back. *)
MeshLine == ({"eject", "ejectNxt"} \X Node \X {Local}) \cup ({"cur", "nxt"} \X Node \X Dir)

Carries(c, I, visible, staged, home, homeNxt) ==
  /\ c \in Queues(I, Flit) /\ MeshLine \subseteq I
  /\ \A n \in Node :
       /\ c[<<"eject", n, Local>>] = home[n]
       /\ c[<<"ejectNxt", n, Local>>] = homeNxt[n]
       /\ \A p \in Dir : /\ c[<<"cur", n, p>>] = visible[n][p]
                         /\ c[<<"nxt", n, p>>] = staged[n][p]

LEMMA InMeshLine ==
  ASSUME NEW n \in Node
  PROVE  /\ <<"eject", n, Local>> \in MeshLine /\ <<"ejectNxt", n, Local>> \in MeshLine
         /\ \A p \in Dir : <<"cur", n, p>> \in MeshLine /\ <<"nxt", n, p>> \in MeshLine
         /\ Local \in Dir
BY DEF MeshLine, Dir, Local, South

(* Two families differ in J and what is not of the mesh only. *)
LEMMA MeshSameOff ==
  ASSUME NEW I, NEW c, NEW d, NEW J, NEW K,
         Carries(c, I, cur, nxt, eject, ejectNxt),
         Carries(d, I, cur', nxt', eject', ejectNxt'),
         SameOff(MeshLine \cup K, c, d), K \subseteq J,
         \A n \in Node :
           /\ <<"eject", n, Local>> \in J \/ eject'[n] = eject[n]
           /\ <<"ejectNxt", n, Local>> \in J \/ ejectNxt'[n] = ejectNxt[n]
           /\ \A p \in Dir : /\ <<"cur", n, p>> \in J \/ cur'[n][p] = cur[n][p]
                             /\ <<"nxt", n, p>> \in J \/ nxt'[n][p] = nxt[n][p]
  PROVE  SameOff(J, c, d)
<1>1. DOMAIN c = I
  BY DEF Carries, Queues
<1>2. ASSUME NEW l \in I, l \notin J PROVE d[l] = c[l]
  <2>1. CASE l \notin MeshLine
    BY <1>1, <1>2, <2>1 DEF SameOff
  <2>2. CASE l \in {"eject", "ejectNxt"} \X Node \X {Local}
    <3>1. PICK n \in Node : l = <<"eject", n, Local>> \/ l = <<"ejectNxt", n, Local>>
      BY <2>2
    <3>2. CASE l = <<"eject", n, Local>>
      BY <1>2, <3>2 DEF Carries
    <3>3. CASE l = <<"ejectNxt", n, Local>>
      BY <1>2, <3>3 DEF Carries
    <3>4. QED
      BY <3>1, <3>2, <3>3
  <2>3. CASE l \in {"cur", "nxt"} \X Node \X Dir
    <3>1. PICK n \in Node, p \in Dir : l = <<"cur", n, p>> \/ l = <<"nxt", n, p>>
      BY <2>3
    <3>2. CASE l = <<"cur", n, p>>
      <4>1. cur'[n][p] = cur[n][p]
        BY <1>2, <3>2
      <4>2. QED
        BY <3>2, <4>1 DEF Carries
    <3>3. CASE l = <<"nxt", n, p>>
      <4>1. nxt'[n][p] = nxt[n][p]
        BY <1>2, <3>3
      <4>2. QED
        BY <3>3, <4>1 DEF Carries
    <3>4. QED
      BY <3>1, <3>2, <3>3
  <2>4. QED
    BY <2>1, <2>2, <2>3 DEF MeshLine
<1>3. QED
  BY <1>1, <1>2 DEF SameOff

(* What a router grants moves; nothing else does. *)
LEMMA ComputeMovesFlits ==
  ASSUME RouterTypeOK, NEW r \in Node, Compute(r),
         NEW I, IsFiniteSet(I), NEW c, NEW d,
         Carries(c, I, cur, nxt, eject, ejectNxt),
         Carries(d, I, cur', nxt', eject', ejectNxt'),
         SameOff(MeshLine, c, d), NEW A
  PROVE  Cardinality(Spots(d, A)) = Cardinality(Spots(c, A))
<1> DEFINE K == Granted(r)
           at(o) == <<"cur", r, Winner(r, o)>>
           on(o) == IF o = Local THEN <<"ejectNxt", r, Local>>
                    ELSE <<"nxt", step(r, o), opposite(o)>>
           from == [o \in K |-> at(o)]
           to == [o \in K |-> on(o)]
<1>1. K \in SUBSET Dir
  BY DEF Granted
<1>2. ASSUME NEW o \in K
      PROVE  /\ o \in Dir /\ Winner(r, o) \in Requests(r, o) /\ Winner(r, o) \in Dir
             /\ Winner(r, o) \in Popped(r)
             /\ cur[r][Winner(r, o)] # << >> /\ Sent(r, o) \in Flit
             /\ route_xy(r, Head(cur[r][Winner(r, o)]).dst) = o
             /\ o # Local => /\ o \in Cardinal /\ has_neighbor(r, o)
                             /\ step(r, o) \in Node /\ opposite(o) \in Cardinal
                             /\ opposite(o) \in Dir /\ opposite(opposite(o)) = o
                             /\ Faces(step(r, o), opposite(o), r)
  <2>1. o \in Dir /\ Winner(r, o) \in Requests(r, o)
    BY <1>1, WinnerAsked DEF Granted
  <2>2. Sent(r, o) \in Flit /\ (o # Local => has_neighbor(r, o))
    BY <1>1, SentIsFlit
  <2>3. o # Local => o \in Cardinal
    BY <2>1 DEF Dir, Cardinal, Local, East, South
  <2>4. QED
    BY <2>1, <2>2, <2>3, StepBack, FacesIsLink, OppositeIsDir DEF Popped, Requests
<1>3. /\ from \in [K -> I] /\ to \in [K -> I]
      /\ \A o \in K : from[o] = at(o) /\ to[o] = on(o)
  <2>1. \A o \in K : at(o) \in MeshLine /\ on(o) \in MeshLine
    BY <1>2, InMeshLine
  <2>2. QED
    BY <2>1 DEF Carries
<1>4. \A a, b \in K : a # b => from[a] # from[b] /\ to[a] # to[b]
  <2>1. ASSUME NEW a \in K, NEW b \in K, a # b PROVE at(a) # at(b) /\ on(a) # on(b)
    <3>1. Winner(r, a) # Winner(r, b)
      BY <1>2, <2>1
    <3>2. a # Local /\ b # Local => opposite(a) # opposite(b)
      BY <1>2, <2>1
    <3>3. QED
      BY <2>1, <3>1, <3>2
  <2>2. QED
    BY <1>3, <2>1
<1>5. \A a, b \in K : from[a] # to[b]
  BY <1>3
<1>6. SameOff({from[o] : o \in K} \cup {to[o] : o \in K}, c, d)
  <2> DEFINE J == {from[o] : o \in K} \cup {to[o] : o \in K}
  <2>1. ASSUME NEW n \in Node, NEW p \in Dir, <<"cur", n, p>> \notin J
        PROVE  cur'[n][p] = cur[n][p]
    <3>1. n = r => p \notin Popped(r)
      <4>1. SUFFICES ASSUME n = r, p \in Popped(r) PROVE FALSE
        OBVIOUS
      <4>2. PICK o \in K : p = Winner(r, o)
        BY <4>1 DEF Popped
      <4>3. from[o] = <<"cur", n, p>>
        BY <1>3, <4>1, <4>2
      <4>4. QED
        BY <2>1, <4>3
    <3>2. QED
      BY <3>1 DEF Compute, RouterTypeOK
  <2>2. ASSUME NEW n \in Node, NEW p \in Dir, <<"nxt", n, p>> \notin J
        PROVE  nxt'[n][p] = nxt[n][p]
    <3>1. ~(Faces(n, p, r) /\ opposite(p) \in K)
      <4>1. SUFFICES ASSUME Faces(n, p, r), opposite(p) \in K PROVE FALSE
        OBVIOUS
      <4>2. /\ p \in Cardinal /\ has_neighbor(n, p) /\ step(n, p) = r
            /\ opposite(p) # Local
        BY <4>1 DEF Faces, Cardinal, opposite, Local, East, West, North, South
      <4>3. step(r, opposite(p)) = n /\ opposite(opposite(p)) = p
        BY <4>2, StepBack
      <4>4. to[opposite(p)] = <<"nxt", n, p>>
        BY <1>3, <4>1, <4>2, <4>3
      <4>5. QED
        BY <2>2, <4>1, <4>4
    <3>2. QED
      BY <3>1 DEF Compute, RouterTypeOK
  <2>3. ASSUME NEW n \in Node, <<"ejectNxt", n, Local>> \notin J
        PROVE  ejectNxt'[n] = ejectNxt[n]
    <3>1. ~(n = r /\ Local \in K)
      <4>1. SUFFICES ASSUME n = r, Local \in K PROVE FALSE
        OBVIOUS
      <4>2. to[Local] = <<"ejectNxt", n, Local>>
        BY <1>3, <4>1
      <4>3. QED
        BY <2>3, <4>1, <4>2
    <3>2. QED
      BY <3>1 DEF Compute, RouterTypeOK
  <2>4. UNCHANGED eject
    BY DEF Compute
  <2>5. SameOff(MeshLine \cup {}, c, d) /\ {} \subseteq J
    BY DEF SameOff
  <2> HIDE DEF J
  <2>6. SameOff(J, c, d)
    BY <2>1, <2>2, <2>3, <2>4, <2>5, MeshSameOff
  <2>7. QED
    BY <2>6 DEF J
<1>7. c \in Queues(I, Flit) /\ d \in Queues(I, Flit)
  BY DEF Carries
<1>8. ASSUME NEW o \in K
      PROVE  Count(c[from[o]], A) + Count(c[to[o]], A)
               = Count(d[from[o]], A) + Count(d[to[o]], A)
  <2> DEFINE q == cur[r][Winner(r, o)]
             z == IF o = Local THEN ejectNxt[r] ELSE nxt[step(r, o)][opposite(o)]
  <2>1. q \in Seq(Flit) /\ q # << >> /\ z \in Seq(Flit) /\ Sent(r, o) = Head(q)
    BY <1>2 DEF RouterTypeOK, Sent
  <2>2. c[from[o]] = q /\ c[to[o]] = z
    <3>1. c[from[o]] = q
      BY <1>2, <1>3 DEF Carries
    <3>2. CASE o = Local
      <4>1. to[o] = <<"ejectNxt", r, Local>>
        BY <1>3, <3>2
      <4>2. QED
        BY <3>1, <3>2, <4>1 DEF Carries
    <3>3. CASE o # Local
      <4>1. to[o] = <<"nxt", step(r, o), opposite(o)>>
        BY <1>3, <3>3
      <4>2. step(r, o) \in Node /\ opposite(o) \in Dir
        BY <1>2, <3>3
      <4>3. QED
        BY <3>1, <3>3, <4>1, <4>2 DEF Carries
    <3>4. QED
      BY <3>2, <3>3
  <2>3. d[from[o]] = Tail(q)
    <3>1. cur'[r][Winner(r, o)] = Tail(q)
      BY <1>2 DEF Compute, RouterTypeOK
    <3>2. QED
      BY <1>2, <1>3, <3>1 DEF Carries
  <2>4. d[to[o]] = Append(z, Sent(r, o))
    <3>1. CASE o = Local
      <4>1. ejectNxt'[r] = Append(z, Sent(r, o))
        BY <3>1 DEF Compute, RouterTypeOK
      <4>2. QED
        BY <1>3, <3>1, <4>1 DEF Carries
    <3>2. CASE o # Local
      <4>1. nxt'[step(r, o)][opposite(o)] = Append(z, Sent(r, o))
        BY <1>2, <3>2 DEF Compute
      <4>2. d[to[o]] = nxt'[step(r, o)][opposite(o)]
        <5>1. to[o] = <<"nxt", step(r, o), opposite(o)>>
          BY <1>3, <3>2
        <5>2. step(r, o) \in Node /\ opposite(o) \in Dir
          BY <1>2, <3>2
        <5>3. QED
          BY <5>1, <5>2 DEF Carries
      <4>3. QED
        BY <4>1, <4>2
    <3>3. QED
      BY <3>1, <3>2
  <2> HIDE DEF q, z
  <2>5. Tail(q) \in Seq(Flit) /\ <<Head(q)>> \in Seq(Flit)
    BY <1>2, <2>1, HeadTailProperties
  <2>6. Count(q, A) = Count(<<Head(q)>>, A) + Count(Tail(q), A)
    BY <2>1, CountTail
  <2>7. Count(Append(z, Sent(r, o)), A) = Count(z, A) + Count(<<Head(q)>>, A)
    BY <1>2, <2>1, CountAppend
  <2>8. /\ Count(Tail(q), A) \in Nat /\ Count(<<Head(q)>>, A) \in Nat
        /\ Count(z, A) \in Nat
    BY <2>1, <2>5, CountIsNat
  <2>9. QED
    BY <2>2, <2>3, <2>4, <2>6, <2>7, <2>8
<1> HIDE DEF K, from, to
<1>9. \A l \in I : (\A o \in K : l # from[o] /\ l # to[o]) => d[l] = c[l]
  BY <1>6, <1>7 DEF SameOff, Queues
<1>10. QED
  BY <1>1, <1>3, <1>4, <1>5, <1>7, <1>8, <1>9, PairsOfQueues

LEMMA CommitMovesFlits ==
  ASSUME RouterTypeOK, NEW r \in Node, Commit(r),
         NEW I, IsFiniteSet(I), NEW c, NEW d,
         Carries(c, I, cur, nxt, eject, ejectNxt),
         Carries(d, I, cur', nxt', eject', ejectNxt'),
         SameOff(MeshLine, c, d), NEW A
  PROVE  Cardinality(Spots(d, A)) = Cardinality(Spots(c, A))
<1> DEFINE from == [p \in Dir |-> <<"nxt", r, p>>]
           to == [p \in Dir |-> <<"cur", r, p>>]
<1>1. from \in [Dir -> I] /\ to \in [Dir -> I]
  BY InMeshLine DEF Carries
<1>2. c \in Queues(I, Flit) /\ d \in Queues(I, Flit)
  BY DEF Carries
<1>3. SameOff({from[p] : p \in Dir} \cup {to[p] : p \in Dir}, c, d)
  <2> DEFINE J == {from[p] : p \in Dir} \cup {to[p] : p \in Dir}
  <2>1. ASSUME NEW n \in Node, NEW p \in Dir
        PROVE  /\ <<"cur", n, p>> \in J \/ cur'[n][p] = cur[n][p]
               /\ <<"nxt", n, p>> \in J \/ nxt'[n][p] = nxt[n][p]
    <3>1. CASE n = r
      <4>1. from[p] = <<"nxt", n, p>> /\ to[p] = <<"cur", n, p>>
        BY <3>1
      <4> HIDE DEF from, to
      <4>2. QED
        BY <4>1
    <3>2. CASE n # r
      BY <3>2 DEF Commit, RouterTypeOK
    <3>3. QED
      BY <3>1, <3>2
  <2>2. UNCHANGED <<eject, ejectNxt>>
    BY DEF Commit
  <2>3. SameOff(MeshLine \cup {}, c, d) /\ {} \subseteq J
    BY DEF SameOff
  <2> HIDE DEF J
  <2>4. SameOff(J, c, d)
    BY <2>1, <2>2, <2>3, MeshSameOff
  <2>5. QED
    BY <2>4 DEF J
<1>4. ASSUME NEW p \in Dir
      PROVE  Count(c[from[p]], A) + Count(c[to[p]], A)
               = Count(d[from[p]], A) + Count(d[to[p]], A)
  <2> DEFINE x == nxt[r][p]
             y == cur[r][p]
  <2>1. x \in Seq(Flit) /\ y \in Seq(Flit)
    BY DEF RouterTypeOK
  <2>2. c[from[p]] = x /\ c[to[p]] = y
    BY DEF Carries
  <2>3. d[from[p]] = << >> /\ d[to[p]] = y \o x
    <3>1. nxt'[r][p] = << >> /\ cur'[r][p] = y \o x
      BY DEF Commit, Merge, RouterTypeOK
    <3>2. QED
      BY <3>1 DEF Carries
  <2> HIDE DEF x, y
  <2>4. Count(y \o x, A) = Count(y, A) + Count(x, A)
    BY <2>1, CountConcat
  <2>41. Count(x, A) \in Nat /\ Count(y, A) \in Nat
    BY <2>1, CountIsNat
  <2>5. << >> \in Seq(Flit)
    BY EmptySeq
  <2>6. Count(<< >>, A) = 0
    BY <2>5, CountIsNat
  <2> HIDE DEF from, to
  <2>7. QED
    BY <2>2, <2>3, <2>4, <2>41, <2>6
<1>5. /\ \A a, b \in Dir : a # b => from[a] # from[b] /\ to[a] # to[b]
      /\ \A a, b \in Dir : from[a] # to[b]
  OBVIOUS
<1>6. Dir \in SUBSET Dir
  OBVIOUS
<1> HIDE DEF from, to
<1>7. \A l \in I : (\A p \in Dir : l # from[p] /\ l # to[p]) => d[l] = c[l]
  BY <1>2, <1>3 DEF SameOff, Queues
<1>8. QED
  BY <1>1, <1>2, <1>4, <1>5, <1>6, <1>7, PairsOfQueues

LEMMA CommitEjectMovesFlits ==
  ASSUME RouterTypeOK, NEW n \in Node, CommitEject(n),
         NEW I, IsFiniteSet(I), NEW c, NEW d,
         Carries(c, I, cur, nxt, eject, ejectNxt),
         Carries(d, I, cur', nxt', eject', ejectNxt'),
         SameOff(MeshLine, c, d), NEW A
  PROVE  Cardinality(Spots(d, A)) = Cardinality(Spots(c, A))
<1> DEFINE i == <<"ejectNxt", n, Local>>
           j == <<"eject", n, Local>>
           x == ejectNxt[n]
           y == eject[n]
<1>1. i \in I /\ j \in I /\ i # j
  BY InMeshLine DEF Carries
<1>2. c \in Queues(I, Flit) /\ d \in Queues(I, Flit)
  BY DEF Carries
<1>3. SameOff({i, j}, c, d)
  <2>1. \A m \in Node \ {n} : eject'[m] = eject[m] /\ ejectNxt'[m] = ejectNxt[m]
    BY DEF CommitEject, RouterTypeOK
  <2>2. UNCHANGED <<cur, nxt>>
    BY DEF CommitEject
  <2>3. SameOff(MeshLine \cup {}, c, d) /\ {} \subseteq {i, j}
    BY DEF SameOff
  <2>4. QED
    BY <2>1, <2>2, <2>3, MeshSameOff
<1>4. x \in Seq(Flit) /\ y \in Seq(Flit) /\ << >> \in Seq(Flit)
  BY EmptySeq DEF RouterTypeOK
<1>5. c[i] = x /\ c[j] = y
  BY DEF Carries
<1>6. d[i] = << >> /\ d[j] = y \o x
  <2>1. ejectNxt'[n] = << >> /\ eject'[n] = y \o x
    BY DEF CommitEject, Merge, RouterTypeOK
  <2>2. QED
    BY <2>1 DEF Carries
<1> HIDE DEF i, j, x, y
<1>7. /\ Count(y \o x, A) = Count(y, A) + Count(x, A)
      /\ Count(x, A) \in Nat /\ Count(y, A) \in Nat /\ Count(<< >>, A) = 0
  <2>1. Count(y \o x, A) = Count(y, A) + Count(x, A)
    BY <1>4, CountConcat
  <2>2. Count(x, A) \in Nat /\ Count(y, A) \in Nat
    BY <1>4, CountIsNat
  <2>3. Count(<< >>, A) = 0
    BY <1>4, CountIsNat
  <2>4. QED
    BY <2>1, <2>2, <2>3
<1>8. Cardinality(Spots(d, A)) + Count(c[i], A) + Count(c[j], A)
        = Cardinality(Spots(c, A)) + Count(d[i], A) + Count(d[j], A)
  BY <1>1, <1>2, <1>3, TwoQueues
<1>9. Cardinality(Spots(d, A)) \in Nat /\ Cardinality(Spots(c, A)) \in Nat
  BY <1>2, SpotsFinite
<1>10. Cardinality(Spots(d, A)) + Count(x, A) + Count(y, A)
         = Cardinality(Spots(c, A)) + 0 + (Count(y, A) + Count(x, A))
  BY <1>5, <1>6, <1>7, <1>8
<1>11. QED
  BY <1>7, <1>9, <1>10

(* A PE drains its ingress and injects what its credits allow of the sync
   flits, those it held back and those it emits, then of the spikes; the rest
   is what it holds back then. *)
Injects(n, held, wires, waiting, new, heldNext, waitingNext) ==
  \E s \in 0 .. Len(held \o wires), k \in 0 .. Len(waiting \o new) :
    /\ DrainAndInject(n, SubSeq(held \o wires, 1, s) \o SubSeq(waiting \o new, 1, k))
    /\ heldNext = SubSeq(held \o wires, s + 1, Len(held \o wires))
    /\ waitingNext = SubSeq(waiting \o new, k + 1, Len(waiting \o new))

LEMMA InjectMovesFlits ==
  ASSUME RouterTypeOK, NEW n \in Node,
         NEW I, IsFiniteSet(I), NEW c, NEW d,
         Carries(c, I, cur, nxt, eject, ejectNxt),
         Carries(d, I, cur', nxt', eject', ejectNxt'),
         NEW i \in I, i \notin MeshLine, NEW j \in I, j \notin MeshLine, i # j,
         SameOff(MeshLine \cup {i, j}, c, d),
         NEW new \in Seq(Flit), NEW wires \in Seq(Flit),
         Injects(n, c[j], wires, c[i], new, d[j], d[i]), NEW A
  PROVE  Cardinality(Spots(d, A)) + Count(eject[n], A)
           = Cardinality(Spots(c, A)) + Count(wires, A) + Count(new, A)
<1> DEFINE held == c[j]
           waiting == c[i]
           sync == held \o wires
           spikes == waiting \o new
           g == <<"eject", n, Local>>
           h == <<"nxt", n, Local>>
<1>1. c \in Queues(I, Flit) /\ d \in Queues(I, Flit) /\ Local \in Dir
  BY InMeshLine DEF Carries
<1>2. /\ held \in Seq(Flit) /\ waiting \in Seq(Flit)
      /\ sync \in Seq(Flit) /\ spikes \in Seq(Flit)
  <2>1. held \in Seq(Flit) /\ waiting \in Seq(Flit)
    BY <1>1 DEF Queues
  <2> HIDE DEF held, waiting
  <2>2. QED
    BY <2>1, ConcatProperties
<1>3. /\ i \in I /\ j \in I /\ g \in I /\ h \in I
      /\ i # j /\ i # g /\ i # h /\ j # g /\ j # h /\ g # h
  <2>1. g \in MeshLine /\ h \in MeshLine
    BY InMeshLine
  <2>2. QED
    BY <2>1 DEF Carries
<1>4. SameOff({i, j, g, h}, c, d)
  <2>1. PICK fs : DrainAndInject(n, fs)
    BY DEF Injects
  <2>2. \A m \in Node \ {n} : eject'[m] = eject[m]
    BY <2>1 DEF DrainAndInject, RouterTypeOK
  <2>3. \A m \in Node, p \in Dir : m # n \/ p # Local => nxt'[m][p] = nxt[m][p]
    BY <2>1 DEF DrainAndInject, RouterTypeOK
  <2>4. UNCHANGED <<cur, ejectNxt>>
    BY <2>1 DEF DrainAndInject
  <2>5. {i, j} \subseteq {i, j, g, h}
    OBVIOUS
  <2>6. \A m \in Node :
           /\ <<"eject", m, Local>> \in {i, j, g, h} \/ eject'[m] = eject[m]
           /\ <<"ejectNxt", m, Local>> \in {i, j, g, h} \/ ejectNxt'[m] = ejectNxt[m]
           /\ \A p \in Dir : /\ <<"cur", m, p>> \in {i, j, g, h} \/ cur'[m][p] = cur[m][p]
                             /\ <<"nxt", m, p>> \in {i, j, g, h} \/ nxt'[m][p] = nxt[m][p]
    BY <2>2, <2>3, <2>4
  <2>7. QED
    BY <2>5, <2>6, MeshSameOff
<1>5. Cardinality(Spots(d, A))
           + Count(c[i], A) + Count(c[j], A) + Count(c[g], A) + Count(c[h], A)
         = Cardinality(Spots(c, A))
           + Count(d[i], A) + Count(d[j], A) + Count(d[g], A) + Count(d[h], A)
  <2> HIDE DEF g, h
  <2>1. i \in I /\ j \in I /\ g \in I /\ h \in I
    BY <1>3
  <2>2. c \in Queues(I, Flit) /\ d \in Queues(I, Flit) /\ IsFiniteSet(I)
    BY <1>1
  <2>3. i # j /\ i # g /\ i # h /\ j # g /\ j # h /\ g # h
    BY <1>3
  <2>4. QED
    BY <1>4, <2>1, <2>2, <2>3, FourQueues
<1>6. PICK s \in 0 .. Len(sync), k \in 0 .. Len(spikes) :
        /\ DrainAndInject(n, SubSeq(sync, 1, s) \o SubSeq(spikes, 1, k))
        /\ d[j] = SubSeq(sync, s + 1, Len(sync))
        /\ d[i] = SubSeq(spikes, k + 1, Len(spikes))
  BY DEF Injects
<1> DEFINE front == SubSeq(sync, 1, s)
           back == SubSeq(sync, s + 1, Len(sync))
           head == SubSeq(spikes, 1, k)
           rest == SubSeq(spikes, k + 1, Len(spikes))
           old == nxt[n][Local]
<1>7. /\ eject' = [eject EXCEPT ![n] = << >>]
      /\ nxt' = [nxt EXCEPT ![n][Local] = old \o (front \o head)]
      /\ UNCHANGED <<cur, ejectNxt>>
  BY <1>6 DEF DrainAndInject, Drained
<1>8. /\ c[g] = eject[n] /\ c[h] = old
      /\ d[i] = rest /\ d[j] = back /\ d[g] = << >> /\ d[h] = old \o (front \o head)
  <2>1. eject'[n] = << >> /\ nxt'[n][Local] = old \o (front \o head)
    BY <1>1, <1>7 DEF RouterTypeOK
  <2>2. QED
    BY <1>6, <1>1, <2>1 DEF Carries
<1> HIDE DEF held, waiting, sync, spikes
<1>9. /\ s \in 0 .. Len(sync) /\ k \in 0 .. Len(spikes)
      /\ c[j] = held /\ c[i] = waiting
  BY <1>6 DEF held, waiting
<1>10. /\ front \in Seq(Flit) /\ back \in Seq(Flit)
      /\ head \in Seq(Flit) /\ rest \in Seq(Flit)
      /\ Count(sync, A) = Count(front, A) + Count(back, A)
      /\ Count(spikes, A) = Count(head, A) + Count(rest, A)
  <2>1. /\ front \in Seq(Flit) /\ back \in Seq(Flit)
        /\ Count(sync, A) = Count(front, A) + Count(back, A)
    BY <1>2, <1>9, CountSplit
  <2>2. /\ head \in Seq(Flit) /\ rest \in Seq(Flit)
        /\ Count(spikes, A) = Count(head, A) + Count(rest, A)
    BY <1>2, <1>9, CountSplit
  <2>3. QED
    BY <2>1, <2>2
<1>11. old \in Seq(Flit) /\ eject[n] \in Seq(Flit) /\ << >> \in Seq(Flit)
  BY <1>1, EmptySeq DEF RouterTypeOK
<1> HIDE DEF front, back, head, rest, old
<1>12. front \o head \in Seq(Flit)
  BY <1>10, ConcatProperties
<1>13. /\ Count(sync, A) = Count(held, A) + Count(wires, A)
       /\ Count(spikes, A) = Count(waiting, A) + Count(new, A)
       /\ Count(old \o (front \o head), A)
            = Count(old, A) + (Count(front, A) + Count(head, A))
       /\ Count(<< >>, A) = 0
  <2>1. Count(sync, A) = Count(held, A) + Count(wires, A)
    BY <1>2, CountConcat DEF sync
  <2>2. Count(spikes, A) = Count(waiting, A) + Count(new, A)
    BY <1>2, CountConcat DEF spikes
  <2>3. Count(front \o head, A) = Count(front, A) + Count(head, A)
    BY <1>10, CountConcat
  <2>4. Count(old \o (front \o head), A) = Count(old, A) + Count(front \o head, A)
    BY <1>11, <1>12, CountConcat
  <2>5. Count(<< >>, A) = 0
    BY <1>11, CountIsNat
  <2>6. QED
    BY <2>1, <2>2, <2>3, <2>4, <2>5
<1> DEFINE a1 == Count(waiting, A)
           a2 == Count(held, A)
           a3 == Count(eject[n], A)
           a4 == Count(old, A)
           b1 == Count(rest, A)
           b2 == Count(back, A)
           b3 == Count(front, A)
           b4 == Count(head, A)
           w == Count(wires, A)
           v == Count(new, A)
           x == Cardinality(Spots(c, A))
           y == Cardinality(Spots(d, A))
<1>14. /\ a1 \in Nat /\ a2 \in Nat /\ a3 \in Nat /\ a4 \in Nat
       /\ b1 \in Nat /\ b2 \in Nat /\ b3 \in Nat /\ b4 \in Nat
       /\ w \in Nat /\ v \in Nat
  BY <1>2, <1>10, <1>11, CountIsNat
<1>15. x \in Nat /\ y \in Nat
  BY <1>1, SpotsFinite
<1>16. y + a1 + a2 + a3 + a4 = x + b1 + b2 + 0 + (a4 + (b3 + b4))
  BY <1>8, <1>9, <1>5, <1>13
<1>17. a2 + w = b3 + b2 /\ a1 + v = b4 + b1
  BY <1>10, <1>13
<1> HIDE DEF a1, a2, a3, a4, b1, b2, b3, b4, w, v, x, y
<1>18. y + a3 = x + w + v
  BY <1>14, <1>15, <1>16, <1>17
<1>19. QED
  BY <1>18 DEF a3, w, v, x, y

-----------------------------------------------------------------------------
(* Sums over a finite set, as a fold takes them. *)

(* Induction over the subsets of a finite set: the collection C has those all
   of whose one-element-smaller subsets it has. *)
LEMMA SubsetInduction ==
  ASSUME NEW S, IsFiniteSet(S), NEW C,
         \A s \in SUBSET S : (\A x \in s : s \ {x} \in C) => s \in C
  PROVE  \A s \in SUBSET S : s \in C
<1> DEFINE Bad == {s \in SUBSET S : s \notin C}
           T == {Cardinality(s) : s \in Bad}
<1>1. \A s \in SUBSET S : IsFiniteSet(s) /\ Cardinality(s) \in Nat
  BY FS_Subset, FS_CardinalityType
<1> SUFFICES ASSUME Bad # {} PROVE FALSE
  OBVIOUS
<1>2. T \in SUBSET Nat /\ T # {}
  BY <1>1
<1>3. PICK n \in T : \A m \in T : n <= m
  <2> HIDE DEF T
  <2>1. QED
    BY <1>2, LeastNat
<1>4. PICK s \in Bad : n = Cardinality(s)
  BY <1>3
<1>5. PICK x \in s : s \ {x} \notin C
  BY <1>4
<1>6. Cardinality(s \ {x}) = Cardinality(s) - 1 /\ Cardinality(s) \in Nat
  BY <1>1, <1>4, <1>5, FS_RemoveElement
<1>7. s \ {x} \in Bad
  BY <1>4, <1>5
<1>8. Cardinality(s \ {x}) \in T
  BY <1>7
<1>9. n <= Cardinality(s \ {x})
  BY <1>3, <1>8
<1>10. QED
  BY <1>4, <1>6, <1>9

Pick(s) == CHOOSE x \in s : TRUE

(* The sums of w over the subsets of its domain, as a fold takes them. *)
IsSums(w, r) ==
  r = [s \in SUBSET DOMAIN w |->
         IF s = {} THEN 0 ELSE w[Pick(s)] + r[s \ {Pick(s)}]]
Sums(w) == CHOOSE r : IsSums(w, r)
Total(w) == Sums(w)[DOMAIN w]

LEMMA SumsExist ==
  ASSUME NEW S, IsFiniteSet(S), NEW w \in [S -> Int]
  PROVE  \E r \in [SUBSET S -> Int] : IsSums(w, r)
<1> DEFINE Size(m) == {s \in SUBSET S : Cardinality(s) <= m}
           Eq(r, s) == r[s] = IF s = {} THEN 0 ELSE w[Pick(s)] + r[s \ {Pick(s)}]
           Upto(m) == \E r \in [Size(m) -> Int] : \A s \in Size(m) : Eq(r, s)
           Bad == {m \in Nat : ~Upto(m)}
<1>1. \A s \in SUBSET S : IsFiniteSet(s) /\ Cardinality(s) \in Nat
  BY FS_Subset, FS_CardinalityType
<1>2. \A s \in SUBSET S : s # {} => /\ Pick(s) \in s /\ s \ {Pick(s)} \in SUBSET S
                                    /\ w[Pick(s)] \in Int
                                    /\ Cardinality(s \ {Pick(s)}) = Cardinality(s) - 1
  <2> SUFFICES ASSUME NEW s \in SUBSET S, s # {}
               PROVE  /\ Pick(s) \in s /\ s \ {Pick(s)} \in SUBSET S
                      /\ w[Pick(s)] \in Int
                      /\ Cardinality(s \ {Pick(s)}) = Cardinality(s) - 1
    OBVIOUS
  <2>1. Pick(s) \in s
    BY DEF Pick
  <2>2. QED
    BY <1>1, <2>1, FS_RemoveElement
<1>3. \A m \in Nat : Upto(m)
  <2> SUFFICES ASSUME Bad # {} PROVE FALSE
    OBVIOUS
  <2>1. PICK m \in Bad : \A n \in Bad : m <= n
    <3>1. Bad \in SUBSET Nat
      OBVIOUS
    <3> HIDE DEF Bad
    <3>2. QED
      BY <3>1, LeastNat
  <2>2. m \in Nat /\ ~Upto(m)
    BY <2>1
  <2>3. CASE m = 0
    <3>1. Size(0) = {{}}
      <4>1. \A s \in SUBSET S : Cardinality(s) <= 0 <=> s = {}
        BY <1>1, FS_EmptySet
      <4>2. QED
        BY <4>1
    <3>2. [s \in Size(0) |-> 0] \in [Size(0) -> Int]
      OBVIOUS
    <3>3. \A s \in Size(0) : Eq([x \in Size(0) |-> 0], s)
      BY <3>1
    <3>4. Upto(0)
      BY <3>2, <3>3
    <3>5. QED
      BY <2>2, <2>3, <3>4
  <2>4. CASE m # 0
    <3>0. m - 1 \in Nat /\ ~(m <= m - 1)
      BY <2>2, <2>4
    <3>1. m - 1 \in Nat /\ m - 1 \notin Bad
      <4> HIDE DEF Bad
      <4>1. QED
        BY <2>1, <3>0
    <3>2. PICK r \in [Size(m - 1) -> Int] : \A s \in Size(m - 1) : Eq(r, s)
      BY <3>1
    <3> DEFINE h == [s \in Size(m) |->
                       IF s \in Size(m - 1) THEN r[s]
                       ELSE IF s = {} THEN 0 ELSE w[Pick(s)] + r[s \ {Pick(s)}]]
    <3>3. \A s \in Size(m) : s # {} => s \ {Pick(s)} \in Size(m - 1)
                                       /\ s \ {Pick(s)} \in Size(m)
      <4> SUFFICES ASSUME NEW s \in Size(m), s # {}
                   PROVE  s \ {Pick(s)} \in Size(m - 1) /\ s \ {Pick(s)} \in Size(m)
        OBVIOUS
      <4>1. Cardinality(s \ {Pick(s)}) = Cardinality(s) - 1 /\ Cardinality(s) \in Nat
            /\ s \ {Pick(s)} \in SUBSET S /\ Cardinality(s) <= m
        BY <1>1, <1>2
      <4>2. QED
        BY <2>2, <4>1
    <3>4. h \in [Size(m) -> Int]
      <4>1. ASSUME NEW s \in Size(m) PROVE h[s] \in Int
        BY <1>2, <3>2, <3>3
      <4>2. QED
        BY <4>1
    <3>5. ASSUME NEW s \in Size(m) PROVE Eq(h, s)
      <4>1. CASE s = {}
        <5>1. h[s] = 0
          BY <3>2, <4>1
        <5>2. QED
          BY <4>1, <5>1
      <4>2. CASE s # {}
        <5>1. s \ {Pick(s)} \in Size(m - 1) /\ s \ {Pick(s)} \in Size(m)
          BY <3>3, <4>2
        <5>2. h[s \ {Pick(s)}] = r[s \ {Pick(s)}]
          BY <5>1
        <5>3. s \in Size(m - 1) => r[s] = w[Pick(s)] + r[s \ {Pick(s)}]
          BY <3>2, <4>2
        <5>4. h[s] = w[Pick(s)] + r[s \ {Pick(s)}]
          BY <4>2, <5>3
        <5>5. QED
          BY <4>2, <5>2, <5>4
      <4>3. QED
        BY <4>1, <4>2
    <3> HIDE DEF h
    <3>6. Upto(m)
      BY <3>4, <3>5
    <3>7. QED
      BY <2>2, <3>6
  <2>5. QED
    BY <2>3, <2>4
<1>4. PICK r \in [Size(Cardinality(S)) -> Int] : \A s \in Size(Cardinality(S)) : Eq(r, s)
  <2>1. Cardinality(S) \in Nat
    BY <1>1
  <2>2. Upto(Cardinality(S))
    BY <1>3, <2>1
  <2>3. QED
    BY <2>2
<1>5. Size(Cardinality(S)) = SUBSET S
  BY FS_Subset
<1>6. r \in [SUBSET S -> Int]
  BY <1>4, <1>5
<1>7. \A s \in SUBSET S : r[s] = IF s = {} THEN 0 ELSE w[Pick(s)] + r[s \ {Pick(s)}]
  BY <1>4, <1>5
<1>8. IsSums(w, r)
  <2>1. DOMAIN w = S
    OBVIOUS
  <2>2. QED
    BY <1>6, <1>7, <2>1 DEF IsSums
<1>9. QED
  BY <1>6, <1>8


LEMMA SumsUnfold ==
  ASSUME NEW S, IsFiniteSet(S), NEW w \in [S -> Int]
  PROVE  /\ Sums(w) \in [SUBSET S -> Int]
         /\ Sums(w)[{}] = 0
         /\ \A s \in SUBSET S : s # {} =>
              /\ Pick(s) \in s
              /\ Sums(w)[s] = w[Pick(s)] + Sums(w)[s \ {Pick(s)}]
<1>1. PICK r \in [SUBSET S -> Int] : IsSums(w, r)
  BY SumsExist
<1>2. IsSums(w, Sums(w))
  BY <1>1 DEF Sums
<1> DEFINE q == Sums(w)
<1> HIDE DEF q
<1>3. q = [s \in SUBSET S |-> IF s = {} THEN 0 ELSE w[Pick(s)] + q[s \ {Pick(s)}]]
  <2>1. DOMAIN w = S
    OBVIOUS
  <2>2. QED
    BY <1>2, <2>1 DEF IsSums, q
<1>4. /\ DOMAIN q = SUBSET S
      /\ \A s \in SUBSET S : q[s] = IF s = {} THEN 0 ELSE w[Pick(s)] + q[s \ {Pick(s)}]
  BY <1>3
<1>5. q[{}] = 0
  BY <1>4
<1>6. ASSUME NEW s \in SUBSET S, s # {}
      PROVE  Pick(s) \in s /\ q[s] = w[Pick(s)] + q[s \ {Pick(s)}]
  BY <1>4, <1>6 DEF Pick
<1> DEFINE C == {s \in SUBSET S : q[s] \in Int}
<1>7. \A s \in SUBSET S : s \in C
  <2>1. ASSUME NEW s \in SUBSET S, \A x \in s : s \ {x} \in C PROVE s \in C
    <3>1. CASE s = {}
      BY <1>5, <3>1
    <3>2. CASE s # {}
      <4>1. Pick(s) \in s /\ w[Pick(s)] \in Int
        BY <1>6, <3>2
      <4>2. q[s \ {Pick(s)}] \in Int
        BY <2>1, <4>1
      <4>3. QED
        BY <1>6, <3>2, <4>1, <4>2
    <3>3. QED
      BY <3>1, <3>2
  <2> HIDE DEF C
  <2>2. QED
    BY <2>1, SubsetInduction
<1>8. q \in [SUBSET S -> Int]
  BY <1>3, <1>4, <1>7
<1>9. QED
  BY <1>5, <1>6, <1>8 DEF q

(* The order in which a sum is taken does not matter. *)
LEMMA AnyOrder ==
  ASSUME NEW S, IsFiniteSet(S), NEW w \in [S -> Int]
  PROVE  \A s \in SUBSET S : \A y \in s : Sums(w)[s] = w[y] + Sums(w)[s \ {y}]
<1> DEFINE q == Sums(w)
           C == {s \in SUBSET S : \A y \in s : q[s] = w[y] + q[s \ {y}]}
<1>1. /\ q \in [SUBSET S -> Int]
      /\ \A s \in SUBSET S : s # {} =>
           Pick(s) \in s /\ q[s] = w[Pick(s)] + q[s \ {Pick(s)}]
  BY SumsUnfold
<1> HIDE DEF q
<1>2. ASSUME NEW s \in SUBSET S, \A x \in s : s \ {x} \in C PROVE s \in C
  <2> SUFFICES ASSUME NEW y \in s PROVE q[s] = w[y] + q[s \ {y}]
    OBVIOUS
  <2> DEFINE x == Pick(s)
  <2>1. x \in s /\ q[s] = w[x] + q[s \ {x}]
    BY <1>1
  <2> HIDE DEF x
  <2>2. CASE x = y
    BY <2>1, <2>2
  <2>3. CASE x # y
    <3>1. q[s \ {x}] = w[y] + q[(s \ {x}) \ {y}]
      <4>1. s \ {x} \in C /\ y \in s \ {x}
        BY <1>2, <2>1, <2>3
      <4>2. QED
        BY <4>1
    <3>2. q[s \ {y}] = w[x] + q[(s \ {y}) \ {x}]
      <4>1. s \ {y} \in C /\ x \in s \ {y}
        BY <1>2, <2>1, <2>3
      <4>2. QED
        BY <4>1
    <3>3. (s \ {x}) \ {y} = (s \ {y}) \ {x}
      OBVIOUS
    <3>4. q[(s \ {y}) \ {x}] \in Int /\ w[x] \in Int /\ w[y] \in Int
      BY <1>1, <2>1
    <3> DEFINE z == q[(s \ {y}) \ {x}]
    <3>5. q[s \ {x}] = w[y] + z /\ q[s \ {y}] = w[x] + z /\ z \in Int
      BY <3>1, <3>2, <3>3, <3>4
    <3> HIDE DEF z
    <3>6. QED
      BY <2>1, <3>4, <3>5
  <2>4. QED
    BY <2>2, <2>3
<1>3. \A s \in SUBSET S : s \in C
  <2> HIDE DEF C
  <2>1. QED
    BY <1>2, SubsetInduction
<1>4. QED
  BY <1>3 DEF q

LEMMA TotalType ==
  ASSUME NEW S, IsFiniteSet(S), NEW w \in [S -> Int]
  PROVE  Total(w) \in Int /\ (S = {} => Total(w) = 0)
<1>1. DOMAIN w = S /\ S \in SUBSET S
  OBVIOUS
<1>2. Sums(w) \in [SUBSET S -> Int] /\ Sums(w)[{}] = 0
  BY SumsUnfold
<1>3. QED
  BY <1>1, <1>2 DEF Total

(* b pairs the members of S off with those of T. *)
PairsOff(b, S, T) ==
  /\ b \in [S -> T]
  /\ \A x, y \in S : b[x] = b[y] => x = y
  /\ \A y \in T : \E x \in S : b[x] = y

LEMMA ImageFinite ==
  ASSUME NEW S, IsFiniteSet(S), NEW f, DOMAIN f = S
  PROVE  IsFiniteSet({f[x] : x \in S})
<1> DEFINE T == {f[x] : x \in S}
           g == [x \in S |-> f[x]]
<1>1. g \in Surjection(S, T)
  BY DEF Surjection
<1> HIDE DEF T, g
<1>2. IsFiniteSet(T)
  BY <1>1, FS_Surjection
<1>3. QED
  BY <1>2 DEF T

LEMMA PairsOffFinite ==
  ASSUME NEW S, IsFiniteSet(S), NEW T, NEW b, PairsOff(b, S, T)
  PROVE  IsFiniteSet(T)
<1>1. b \in Surjection(S, T)
  BY DEF PairsOff, Surjection
<1>2. QED
  BY <1>1, FS_Surjection

(* A pairing carries sums over. *)
LEMMA TotalCarried ==
  ASSUME NEW S, IsFiniteSet(S), NEW T, NEW w \in [T -> Int],
         NEW b, PairsOff(b, S, T), NEW v \in [S -> Int],
         \A x \in S : v[x] = w[b[x]]
  PROVE  Total(v) = Total(w)
<1> DEFINE Over(s) == {b[x] : x \in s}
           C == {s \in SUBSET S : Sums(v)[s] = Sums(w)[Over(s)]}
<1>1. /\ b \in [S -> T] /\ \A x, y \in S : b[x] = b[y] => x = y
      /\ \A y \in T : \E x \in S : b[x] = y
  BY DEF PairsOff
<1>2. IsFiniteSet(T)
  BY PairsOffFinite
<1>3. ASSUME NEW s \in SUBSET S, \A x \in s : s \ {x} \in C PROVE s \in C
  <2>1. CASE s = {}
    <3>1. Over(s) = {}
      BY <2>1
    <3>2. Sums(v)[{}] = 0 /\ Sums(w)[{}] = 0
      BY <1>2, SumsUnfold
    <3>3. QED
      BY <2>1, <3>1, <3>2
  <2>2. CASE s # {}
    <3>1. PICK x \in s : TRUE
      BY <2>2
    <3>2. Sums(v)[s] = v[x] + Sums(v)[s \ {x}]
      BY AnyOrder
    <3>3. Over(s) \in SUBSET T /\ b[x] \in Over(s)
      BY <1>1
    <3>4. Sums(w)[Over(s)] = w[b[x]] + Sums(w)[Over(s) \ {b[x]}]
      <4> HIDE DEF Over
      <4>1. QED
        BY <1>2, <3>3, AnyOrder
    <3>5. Over(s) \ {b[x]} = Over(s \ {x})
      BY <1>1
    <3>6. Sums(v)[s \ {x}] = Sums(w)[Over(s \ {x})]
      BY <1>3
    <3>7. v[x] = w[b[x]]
      OBVIOUS
    <3>8. Sums(v)[s] = Sums(w)[Over(s)]
      BY <3>2, <3>4, <3>5, <3>6, <3>7
    <3>9. QED
      BY <3>8
  <2>3. QED
    BY <2>1, <2>2
<1>4. S \in C
  <2> HIDE DEF C
  <2>1. QED
    BY <1>3, SubsetInduction
<1>5. Over(S) = T
  BY <1>1
<1>6. DOMAIN v = S /\ DOMAIN w = T
  OBVIOUS
<1>7. QED
  BY <1>4, <1>5, <1>6 DEF Total

(* The sums of a restriction. *)
LEMMA TotalWithout ==
  ASSUME NEW S, IsFiniteSet(S), NEW w \in [S -> Int], NEW x \in S,
         NEW v \in [S \ {x} -> Int], \A y \in S \ {x} : v[y] = w[y]
  PROVE  Total(w) = w[x] + Total(v)
<1> DEFINE R == S \ {x}
           C == {s \in SUBSET R : Sums(v)[s] = Sums(w)[s]}
<1>1. IsFiniteSet(R)
  BY FS_RemoveElement
<1>2. ASSUME NEW s \in SUBSET R, \A y \in s : s \ {y} \in C PROVE s \in C
  <2>1. CASE s = {}
    <3>1. Sums(v)[{}] = 0 /\ Sums(w)[{}] = 0
      BY <1>1, SumsUnfold
    <3>2. QED
      BY <2>1, <3>1
  <2>2. CASE s # {}
    <3>1. PICK y \in s : TRUE
      BY <2>2
    <3>2. Sums(v)[s] = v[y] + Sums(v)[s \ {y}]
      BY <1>1, AnyOrder
    <3>3. Sums(w)[s] = w[y] + Sums(w)[s \ {y}]
      <4>1. s \in SUBSET S
        OBVIOUS
      <4>2. QED
        BY <4>1, AnyOrder
    <3>4. Sums(v)[s \ {y}] = Sums(w)[s \ {y}] /\ v[y] = w[y]
      BY <1>2
    <3>5. QED
      BY <3>2, <3>3, <3>4
  <2>3. QED
    BY <2>1, <2>2
<1>3. R \in C
  <2> HIDE DEF C, R
  <2>1. \A s \in SUBSET R : (\A y \in s : s \ {y} \in C) => s \in C
    BY <1>2
  <2>2. \A s \in SUBSET R : s \in C
    BY <1>1, <2>1, SubsetInduction
  <2>3. QED
    BY <2>2
<1>4. Sums(w)[S] = w[x] + Sums(w)[R]
  BY AnyOrder
<1>5. DOMAIN v = R /\ DOMAIN w = S
  OBVIOUS
<1>6. QED
  BY <1>3, <1>4, <1>5 DEF Total

LEMMA TotalZero ==
  ASSUME NEW S, IsFiniteSet(S), NEW w \in [S -> Int], \A x \in S : w[x] = 0
  PROVE  Total(w) = 0
<1> DEFINE C == {s \in SUBSET S : Sums(w)[s] = 0}
<1>0. \A s \in SUBSET S :
        IF s = {} THEN Sums(w)[s] = 0
        ELSE Pick(s) \in s /\ Sums(w)[s] = w[Pick(s)] + Sums(w)[s \ {Pick(s)}]
  <2>1. Sums(w)[{}] = 0
    BY SumsUnfold
  <2>2. \A s \in SUBSET S : s # {} =>
          Pick(s) \in s /\ Sums(w)[s] = w[Pick(s)] + Sums(w)[s \ {Pick(s)}]
    BY SumsUnfold
  <2> DEFINE q == Sums(w)
  <2> HIDE DEF q
  <2>3. QED
    BY <2>1, <2>2 DEF q
<1>1. ASSUME NEW s \in SUBSET S, \A x \in s : s \ {x} \in C PROVE s \in C
  <2>1. CASE s = {}
    BY <1>0, <2>1
  <2>2. CASE s # {}
    <3>1. Pick(s) \in s /\ Sums(w)[s] = w[Pick(s)] + Sums(w)[s \ {Pick(s)}]
      BY <1>0, <2>2
    <3>2. w[Pick(s)] = 0 /\ Sums(w)[s \ {Pick(s)}] = 0
      BY <1>1, <3>1
    <3>3. QED
      BY <3>1, <3>2
  <2>3. QED
    BY <2>1, <2>2
<1>2. S \in C
  <2> HIDE DEF C
  <2>1. QED
    BY <1>1, SubsetInduction
<1>3. DOMAIN w = S
  OBVIOUS
<1>4. QED
  BY <1>2, <1>3 DEF Total

-----------------------------------------------------------------------------
(* The members of A in a family of queues, each with its place. *)
Standing(c, s) == c[s[1]][s[2]]
Flights(c, A) == {<<s, Standing(c, s)>> : s \in Spots(c, A)}

LEMMA FlightsFinite ==
  ASSUME NEW S, NEW I, IsFiniteSet(I), NEW c \in Queues(I, S), NEW A
  PROVE  IsFiniteSet(Flights(c, A))
<1> DEFINE u == [s \in Spots(c, A) |-> <<s, Standing(c, s)>>]
<1>1. IsFiniteSet(Spots(c, A))
  BY SpotsFinite
<1>2. DOMAIN u = Spots(c, A) /\ Flights(c, A) = {u[s] : s \in Spots(c, A)}
  BY DEF Flights
<1> HIDE DEF u
<1>3. QED
  BY <1>1, <1>2, ImageFinite

(* The families c and d have as many of each member of A. *)
SameCounts(c, d, A) ==
  \A f \in A : Cardinality(Spots(c, {f})) = Cardinality(Spots(d, {f}))

(* They hold the same then, elsewhere. *)
LEMMA SameCountsPairOff ==
  ASSUME NEW S, NEW I, IsFiniteSet(I), NEW c \in Queues(I, S), NEW d \in Queues(I, S),
         NEW A, SameCounts(c, d, A)
  PROVE  /\ IsFiniteSet(Flights(c, A)) /\ IsFiniteSet(Flights(d, A))
         /\ \E b : PairsOff(b, Flights(c, A), Flights(d, A))
                     /\ \A x \in Flights(c, A) : b[x][2] = x[2]
<1> DEFINE X == Spots(c, A)
           Y == Spots(d, A)
           g == [f \in A |-> CHOOSE h : h \in Bijection(Spots(c, {f}), Spots(d, {f}))]
           to(s) == g[Standing(c, s)][s]
           b == [x \in Flights(c, A) |-> <<to(x[1]), x[2]>>]
<1>1. ASSUME NEW e
      PROVE  /\ \A s \in Spots(e, A) : Standing(e, s) \in A /\ s \in Spots(e, {Standing(e, s)})
             /\ \A f \in A : \A s \in Spots(e, {f}) : s \in Spots(e, A) /\ Standing(e, s) = f
  <2>1. ASSUME NEW s \in Spots(e, A) PROVE Standing(e, s) \in A /\ s \in Spots(e, {Standing(e, s)})
    <3>1. PICK l \in DOMAIN e : \E k \in DOMAIN e[l] : e[l][k] \in A /\ s = <<l, k>>
      BY SpotsUnfold
    <3>2. PICK k \in DOMAIN e[l] : e[l][k] \in A /\ s = <<l, k>>
      BY <3>1
    <3>3. Standing(e, s) = e[l][k]
      BY <3>2 DEF Standing
    <3>4. e[l][k] \in {Standing(e, s)}
      BY <3>3
    <3>5. QED
      BY <3>2, <3>3, <3>4, SpotsUnfold
  <2>2. ASSUME NEW f \in A, NEW s \in Spots(e, {f}) PROVE s \in Spots(e, A) /\ Standing(e, s) = f
    <3>1. PICK l \in DOMAIN e : \E k \in DOMAIN e[l] : e[l][k] \in {f} /\ s = <<l, k>>
      BY SpotsUnfold
    <3>2. PICK k \in DOMAIN e[l] : e[l][k] = f /\ s = <<l, k>>
      BY <3>1
    <3>3. Standing(e, s) = f
      BY <3>2 DEF Standing
    <3>4. e[l][k] \in A
      BY <3>2
    <3>5. QED
      BY <3>2, <3>3, <3>4, SpotsUnfold
  <2>3. QED
    BY <2>1, <2>2
<1>2. ASSUME NEW f \in A
      PROVE  /\ g[f] \in [Spots(c, {f}) -> Spots(d, {f})]
             /\ \A s, u \in Spots(c, {f}) : g[f][s] = g[f][u] => s = u
             /\ \A y \in Spots(d, {f}) : \E s \in Spots(c, {f}) : g[f][s] = y
  <2>1. IsFiniteSet(Spots(c, {f})) /\ IsFiniteSet(Spots(d, {f}))
    BY SpotsFinite
  <2>2. ExistsBijection(Spots(c, {f}), Spots(d, {f}))
    BY <2>1, FS_SameCardinalityBij DEF SameCounts
  <2>3. g[f] \in Bijection(Spots(c, {f}), Spots(d, {f}))
    BY <2>2 DEF ExistsBijection
  <2> HIDE DEF g
  <2>4. QED
    BY <2>3 DEF Bijection, Injection, Surjection, IsInjective
<1> HIDE DEF g
<1>3. ASSUME NEW s \in X PROVE to(s) \in Y /\ Standing(d, to(s)) = Standing(c, s)
  <2>1. Standing(c, s) \in A /\ s \in Spots(c, {Standing(c, s)})
    BY <1>1
  <2>2. to(s) \in Spots(d, {Standing(c, s)})
    BY <1>2, <2>1
  <2> HIDE DEF to
  <2>3. QED
    BY <1>1, <2>1, <2>2
<1>4. ASSUME NEW s \in X, NEW u \in X, to(s) = to(u) PROVE s = u
  <2>1. Standing(c, s) = Standing(c, u)
    BY <1>3, <1>4
  <2>2. Standing(c, s) \in A /\ s \in Spots(c, {Standing(c, s)}) /\ u \in Spots(c, {Standing(c, s)})
    BY <1>1, <2>1
  <2>3. QED
    BY <1>2, <1>4, <2>1, <2>2
<1>5. ASSUME NEW y \in Y PROVE \E s \in X : to(s) = y /\ Standing(c, s) = Standing(d, y)
  <2>1. Standing(d, y) \in A /\ y \in Spots(d, {Standing(d, y)})
    BY <1>1
  <2>2. PICK s \in Spots(c, {Standing(d, y)}) : g[Standing(d, y)][s] = y
    BY <1>2, <2>1
  <2>3. s \in X /\ Standing(c, s) = Standing(d, y)
    BY <1>1, <2>1
  <2>4. QED
    BY <2>2, <2>3
<1> HIDE DEF to, X, Y
<1>6. /\ \A x \in Flights(c, A) : x = <<x[1], x[2]>> /\ x[1] \in X /\ x[2] = Standing(c, x[1])
      /\ \A y \in Flights(d, A) : y = <<y[1], y[2]>> /\ y[1] \in Y /\ y[2] = Standing(d, y[1])
      /\ \A s \in X : <<s, Standing(c, s)>> \in Flights(c, A)
      /\ \A s \in Y : <<s, Standing(d, s)>> \in Flights(d, A)
  BY DEF Flights, X, Y
<1>7. b \in [Flights(c, A) -> Flights(d, A)]
  <2>1. ASSUME NEW x \in Flights(c, A) PROVE <<to(x[1]), x[2]>> \in Flights(d, A)
    <3>1. x[1] \in X /\ x[2] = Standing(c, x[1])
      BY <1>6
    <3>2. to(x[1]) \in Y /\ Standing(d, to(x[1])) = x[2]
      BY <1>3, <3>1
    <3>3. QED
      BY <1>6, <3>2
  <2>2. QED
    BY <2>1
<1>8. ASSUME NEW x \in Flights(c, A), NEW z \in Flights(c, A), b[x] = b[z] PROVE x = z
  <2>1. to(x[1]) = to(z[1]) /\ x[2] = z[2]
    BY <1>8
  <2>2. x[1] = z[1]
    BY <1>4, <1>6, <2>1
  <2>3. QED
    BY <1>6, <2>1, <2>2
<1>9. ASSUME NEW y \in Flights(d, A) PROVE \E x \in Flights(c, A) : b[x] = y
  <2>1. y = <<y[1], y[2]>> /\ y[1] \in Y /\ y[2] = Standing(d, y[1])
    BY <1>6
  <2>2. PICK s \in X : to(s) = y[1] /\ Standing(c, s) = y[2]
    BY <1>5, <2>1
  <2>3. <<s, Standing(c, s)>> \in Flights(c, A)
    BY <1>6
  <2>4. b[<<s, Standing(c, s)>>] = <<to(s), Standing(c, s)>>
    BY <2>3
  <2>5. QED
    BY <2>1, <2>2, <2>3, <2>4
<1>10. \A x \in Flights(c, A) : b[x][2] = x[2]
  OBVIOUS
<1>11. PairsOff(b, Flights(c, A), Flights(d, A))
  BY <1>7, <1>8, <1>9 DEF PairsOff
<1>12. IsFiniteSet(Flights(c, A)) /\ IsFiniteSet(Flights(d, A))
  BY FlightsFinite
<1> HIDE DEF b
<1>13. QED
  BY <1>10, <1>11, <1>12
=============================================================================
