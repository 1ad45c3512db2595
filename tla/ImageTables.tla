----------------------------- MODULE ImageTables -----------------------------
(***************************************************************************)
(* What the tables of a compiled network                                   *)
(* (sim/include/neurort/network/network_image.hpp) mean: where a neuron's  *)
(* spikes go and what current one spike brings.  Weights are whole         *)
(* multiples of a unit, scale included; the quotient of an average is      *)
(* rounded down to one, where the code rounds to a double.                 *)
(***************************************************************************)
EXTENDS Datapath

neurons(image, i) == 0 .. image[i].neuron_count - 1

(* The neurons' targets, decoded once, by the constructor of AxonOut. *)
decoded(image) == [i \in DOMAIN image |->
                     [n \in neurons(image, i) |-> targets(image[i].axon_groups, n)]]

(* The per-edge combine descriptor, unpacked. *)
combine(meta) == meta % 4
term(meta)    == (meta \div 4) % 64
avg_n(meta)   == (meta \div 256) % 256
is_max(meta)  == combine(meta) = 1

(* The current a spike into dendrite id of PE i brings to neuron n. *)
contribution(image, i, id, go1, go2, meta, n) ==
  LET synapses == decompress(image[i].dendrites[id], go1, go2)
      sum == Sets!MapThenSumSet(LAMBDA s : image[i].weights[synapses[s].weight],
                                {s \in DOMAIN synapses : synapses[s].neuron = n})
  IN  IF combine(meta) = 2 THEN sum \div avg_n(meta) ELSE sum

(* The window a spike with MAX is for: it counts once, per term. *)
Window(s) == [term |-> term(s.meta), dendrite_id |-> s.dendrite_id,
              go1 |-> s.go1, go2 |-> s.go2]

(* What spikes, pairs of a place and a spike, make of the current and the
   windows that were there before, in PE i, whose neurons in skipped get none. *)
received(image, i, skipped, before, spikes) ==
  LET brings(s, meta, n) ==
        IF n \in skipped THEN 0
        ELSE contribution(image, i, s.dendrite_id, s.go1, s.go2, meta, n)
      plain  == {s \in spikes : ~is_max(s[2].meta)}
      opened == {Window(s[2]) : s \in spikes \ plain}
  IN  [current |-> [n \in neurons(image, i) |->
         before.current[n]
           + Sets!MapThenSumSet(LAMBDA s : brings(s[2], s[2].meta, n), plain)
           + Sets!MapThenSumSet(LAMBDA x : brings(x, 1, n), opened \ before.windows)],
       windows |-> before.windows \cup opened]

(* A spike takes effect this many timesteps after it was sent. *)
due_in(delay) == IF delay <= 0 THEN 1 ELSE delay

all_groups(image) ==
  UNION {{image[i].axon_groups[g] : g \in DOMAIN image[i].axon_groups} : i \in DOMAIN image}

longest_delay(image) == Sets!Max({1} \cup {g.delay : g \in all_groups(image)})

-----------------------------------------------------------------------------
(* Attention.  A PE of a token-wise layer holds, for all tokens, a slice of
   the dimensions. *)

width(image, i, u) == image[i].neuron_count \div u.n_tok
first_dim(image, i, u) == image[i].neuron_base \div u.n_tok

(* set_qkv: the pairs <<token, dimension>> of the PEs' fired neurons. *)
set_qkv(image, u, pes, fired) ==
  UNION {{<<n \div width(image, i, u), first_dim(image, i, u) + (n % width(image, i, u))>> :
            n \in fired[i]} : i \in pes}

(* coproc_read's result. *)
attention(image, u, fired) ==
  ssa_out(u, set_qkv(image, u, u.q_pes, fired), set_qkv(image, u, u.k_pes, fired),
          set_qkv(image, u, u.v_pes, fired))

NoAttention(u) == [x \in (0 .. u.n_tok - 1) \X (0 .. u.embed - 1) |-> 0]

(* coproc_feed's input current for the projection PE i. *)
projection(image, i, u, out) ==
  [n \in neurons(image, i) |->
     Sets!MapThenSumSet(
       LAMBDA e : out[<<n \div width(image, i, u), e>>]
                    * image[i].weights[(n % width(image, i, u)) * u.embed + e],
       0 .. u.embed - 1)]

projection_pes(coprocs) == UNION {coprocs[c].proj_pes : c \in DOMAIN coprocs}
-----------------------------------------------------------------------------
(* What is run: the image and its decoded tables, the attention blocks, the
   PEs that never fire, and how many physical slots each PE has. *)
network(image, coprocs, inert, slots) ==
  [image |-> image, to |-> decoded(image), delays |-> longest_delay(image),
   coprocs |-> coprocs, inert |-> inert, slots |-> slots]
=============================================================================
