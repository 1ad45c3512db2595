----------------------------- MODULE AxonTable -----------------------------
(***************************************************************************)
(* Compression of the axon entries into nested arithmetic lattices         *)
(* (mapping/partition.py, from _run_len on).  A point is a triple of the   *)
(* source neuron and the two offsets of the spike it sends.                *)
(***************************************************************************)
EXTENDS Routing

CONSTANT MAX_AXON_DELAY   \* the longest delay a flit can carry, 15 in the code

LOCAL INSTANCE FiniteSetsExt
LOCAL INSTANCE SequencesExt

ASSUME DelayAssumption == MAX_AXON_DELAY \in Nat

MAX_AXON_LEVELS == 3

sub(a, b) == <<a[1] - b[1], a[2] - b[2], a[3] - b[3]>>
times(a, k) == <<a[1] * k, a[2] * k, a[3] * k>>

(* faulty: only the sources of a run are compared. *)
run_len_sources(pts, i) ==
  LET s == sub(pts[i + 1], pts[i])
  IN  IF i = Len(pts) \/ s[1] <= 0 THEN [count |-> 1, step |-> <<1, 0, 0>>]
      ELSE [count |-> 1 + Max({k \in 1 .. Len(pts) - i :
                                 \A j \in 1 .. k : pts[i + j][1] - pts[i + j - 1][1] = s[1]}),
            step |-> s]

(* The longest arithmetic run from point i on: its length and its step. *)
run_len(pts, i) ==
  LET s == sub(pts[i + 1], pts[i])
  IN  IF i = Len(pts) \/ s[1] <= 0 THEN [count |-> 1, step |-> <<1, 0, 0>>]
      ELSE [count |-> 1 + Max({k \in 1 .. Len(pts) - i :
                                 \A j \in 1 .. k : sub(pts[i + j], pts[i + j - 1]) = s}),
            step |-> s]

(* How often the block of points from i on repeats, shifted each time. *)
block_repeats(pts, i, block, outer) ==
  Max({k \in 1 .. (Len(pts) - i + 1) \div block :
         \A m \in 1 .. k - 1, j \in 0 .. block - 1 :
           sub(pts[i + m * block + j], pts[i + j]) = times(outer, m)})

(* The levels of the lattice from point i on, innermost first. *)
build_levels(pts, i) ==
  LET run == run_len(pts, i)
      upto[L \in 1 .. MAX_AXON_LEVELS] ==
        IF L = 1 THEN [levels |-> <<run>>, block |-> run.count]
        ELSE LET inner == upto[L - 1]
                 block == inner.block
                 outer == sub(pts[i + block], pts[i])
                 k     == block_repeats(pts, i, block, outer)
             IN  IF \/ Len(inner.levels) < L - 1 \/ i + 2 * block - 1 > Len(pts)
                    \/ outer[1] <= 0 \/ k <= 1
                 THEN inner
                 ELSE [levels |-> Append(inner.levels, [count |-> k, step |-> outer]),
                       block |-> block * k]
  IN  upto[MAX_AXON_LEVELS]

(* _compress_pe_axons: the entries of a PE, by target, delay and descriptor;
   of equal entries one is kept. *)
compress_pe_axons(axons) ==
  LET channel(a) == <<a.dst_pe, a.dendrite_id, a.delay, a.meta>>
      before(p, q) == \/ p[1] < q[1]
                      \/ p[1] = q[1] /\ (p[2] < q[2] \/ (p[2] = q[2] /\ p[3] < q[3]))
      groups(ch) ==
        LET pts == sorted({<<a.src, a.go1, a.go2>> : a \in {x \in axons : channel(x) = ch}},
                          before)
            from[i \in 1 .. Len(pts) + 1] ==
              IF i > Len(pts) THEN << >>
              ELSE LET b == build_levels(pts, i)
                   IN  <<[base |-> pts[i], levels |-> b.levels, dst_pe |-> ch[1],
                          dendrite_id |-> ch[2], delay |-> ch[3], meta |-> ch[4]]>>
                         \o from[i + b.block]
        IN  from[1]
  IN  FoldSet(LAMBDA ch, so_far : so_far \o groups(ch), << >>, {channel(a) : a \in axons})

compress_axons(axons) == [i \in DOMAIN axons |-> compress_pe_axons(axons[i])]

(* The points of a group. *)
decompress_axon_group(g) ==
  LET upto[L \in 0 .. Len(g.levels)] ==
        IF L = 0 THEN {g.base}
        ELSE {sub(p, times(g.levels[L].step, -r)) :
                p \in upto[L - 1], r \in 0 .. g.levels[L].count - 1}
  IN  {[src |-> p[1], dst_pe |-> g.dst_pe, dendrite_id |-> g.dendrite_id,
        go1 |-> p[2], go2 |-> p[3], delay |-> g.delay, meta |-> g.meta] :
         p \in upto[Len(g.levels)]}

(* verify_axons. *)
Lossless(axons, groups) ==
  \A i \in DOMAIN axons :
    {[src |-> a.src, dst_pe |-> a.dst_pe, dendrite_id |-> a.dendrite_id,
      go1 |-> a.go1, go2 |-> a.go2, delay |-> a.delay, meta |-> a.meta] : a \in axons[i]}
      = UNION {decompress_axon_group(groups[i][k]) : k \in DOMAIN groups[i]}

(* validate_axon_groups: whether it lists no error. *)
GroupsValid(pes, groups) ==
  \A i \in DOMAIN groups : \A k \in DOMAIN groups[i] :
    LET g == groups[i][k]
        last == g.base[1] + FoldLeft(LAMBDA sum, l : sum + (l.count - 1) * l.step[1],
                                     0, g.levels)
    IN  /\ g.dst_pe \in DOMAIN pes
        /\ g.dendrite_id \in DOMAIN pes[g.dst_pe].dendrites
        /\ g.delay \in 0 .. MAX_AXON_DELAY
        /\ Len(g.levels) \in 1 .. MAX_AXON_LEVELS
        /\ g.base[1] >= 0 /\ last \in 0 .. pes[i].neuron_count - 1
=============================================================================
