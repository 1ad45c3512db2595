------------------------------- MODULE Export -------------------------------
(***************************************************************************)
(* The compiled network as it is written (export/writer.py) and checked    *)
(* (export/schema.py), and as the simulator loads it                       *)
(* (NetworkImage::load).  A blob is the sequence of its weights or         *)
(* records.  A weight is a whole multiple of a unit; quantized and scaled  *)
(* again it is one of a 127th of the unit.                                 *)
(***************************************************************************)
EXTENDS AxonTable

CONSTANT OffsetLimit   \* the offsets a flit can carry lie below, 2^16 in the code

LOCAL INSTANCE FiniteSetsExt
LOCAL INSTANCE SequencesExt

AXON_REC == 66   \* bytes of a record

magnitude(x) == IF x < 0 THEN -x ELSE x

(* quantize_int8: round half to even of w / scale, where 127 * scale is the
   largest magnitude. *)
quantize_int8(w) ==
  LET amax == Max({magnitude(w[i]) : i \in DOMAIN w})
      unit == IF amax = 0 THEN 127 ELSE amax
      round(x) ==
        LET low  == x \div unit
            rest == 2 * (x % unit)
        IN  IF rest < unit \/ (rest = unit /\ low % 2 = 0) THEN low ELSE low + 1
  IN  [q |-> [i \in DOMAIN w |-> round(127 * w[i])], scale |-> unit]

(* build_manifest.  PE i's weights and records follow those of the PEs before
   it; levels a group does not use are factors of one. *)
build_manifest(pes, groups) ==
  LET level(l) == [count |-> l.count, src_stride |-> l.step[1],
                   go1_stride |-> l.step[2], go2_stride |-> l.step[3]]
      unused == [count |-> 1, src_stride |-> 0, go1_stride |-> 0, go2_stride |-> 0]
      record(g) ==
        [src_base |-> g.base[1], go1_base |-> g.base[2], go2_base |-> g.base[3],
         levels |-> [L \in 1 .. MAX_AXON_LEVELS |->
                       IF L <= Len(g.levels) THEN level(g.levels[L]) ELSE unused],
         dst_pe |-> g.dst_pe, meta |-> g.meta, dendrite_id |-> g.dendrite_id,
         delay |-> g.delay]
      weights(i) == LET q == quantize_int8(pes[i].weights).q
                    IN  [k \in 1 .. Cardinality(DOMAIN q) |-> q[k - 1]]
      records(i) == [k \in DOMAIN groups[i] |-> record(groups[i][k])]
      first(n, blob(_)) == FlattenSeq([k \in 1 .. n |-> blob(k - 1)])
      all == Cardinality(DOMAIN pes)
  IN  [weight_blob |-> first(all, weights), axon_blob |-> first(all, records),
       pes |-> [i \in DOMAIN pes |->
         [coord |-> <<i % MESH_W, i \div MESH_W>>,
          neuron_base |-> pes[i].neuron_base, neuron_count |-> pes[i].neuron_count,
          dendrites |-> pes[i].dendrites,
          axon_span |-> [offset |-> AXON_REC * Len(first(i, records)),
                         groups |-> Len(groups[i])],
          weight_span |-> [offset |-> Len(first(i, weights)),
                           scale |-> quantize_int8(pes[i].weights).scale,
                           bytes |-> Cardinality(DOMAIN pes[i].weights)]]]]

(* The checks that writer and loader share: those of validate_manifest. *)
ManifestValid(m) ==
  LET before(i, size(_)) == MapThenSumSet(size, 0 .. i - 1)
      bytes(i)   == m.pes[i].weight_span.bytes
      records(i) == AXON_REC * m.pes[i].axon_span.groups
  IN  /\ \A i \in DOMAIN m.pes :
           LET pe == m.pes[i]
           IN  /\ i < NUM_PE
               /\ pe.coord = <<i % MESH_W, i \div MESH_W>>
               /\ Cardinality(DOMAIN pe.dendrites) <= DENDRITE_MAX
               /\ \A id \in DOMAIN pe.dendrites :
                    LET dend == pe.dendrites[id]
                    IN  /\ id < DENDRITE_MAX /\ dend.repeat >= 1
                        /\ Len(dend.nlist) <= COUNT_MAX
                        /\ Len(dend.wlist) = Len(dend.nlist)
               /\ pe.axon_span.offset = before(i, records)
               /\ bytes(i) + 2 * pe.neuron_count <= SRAM_BYTES
      /\ Len(m.weight_blob) = before(Cardinality(DOMAIN m.pes), bytes)
      /\ AXON_REC * Len(m.axon_blob) = before(Cardinality(DOMAIN m.pes), records)

-----------------------------------------------------------------------------
(* NetworkImage::load: each PE's tables, cut out of the blobs. *)
load(m) ==
  [i \in DOMAIN m.pes |->
     LET pe  == m.pes[i]
         woff == pe.weight_span.offset
         aoff == pe.axon_span.offset \div AXON_REC
     IN  [neuron_base |-> pe.neuron_base, neuron_count |-> pe.neuron_count,
          dendrites |-> pe.dendrites,
          axon_groups |-> SubSeq(m.axon_blob, aoff + 1, aoff + pe.axon_span.groups),
          weights |-> [k \in 0 .. pe.weight_span.bytes - 1 |->
                         m.weight_blob[woff + k + 1] * pe.weight_span.scale]]]

(* What load() checks beyond validate_manifest. *)
Loads(m) ==
  /\ \A i \in DOMAIN m.pes :
       m.pes[i].weight_span.offset
         = MapThenSumSet(LAMBDA k : m.pes[k].weight_span.bytes, 0 .. i - 1)
  /\ \A i \in DOMAIN m.pes : \A k \in DOMAIN load(m)[i].axon_groups :
       LET g == load(m)[i].axon_groups[k]
           last == g.src_base + MapThenSumSet(
                     LAMBDA L : (g.levels[L].count - 1) * g.levels[L].src_stride,
                     DOMAIN g.levels)
       IN  /\ \A L \in DOMAIN g.levels : g.levels[L].count >= 1
           /\ g.delay <= MAX_AXON_DELAY
           /\ g.dst_pe \in DOMAIN m.pes
           /\ {g.src_base, last} \subseteq 0 .. m.pes[i].neuron_count - 1
           /\ g.dendrite_id \in DOMAIN m.pes[g.dst_pe].dendrites
=============================================================================
