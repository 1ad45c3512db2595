# NeuronRT: specification, model checking and proofs

NeuronRT is a compiler (`src/frontend`, Python) that maps a spiking neural network
onto a mesh of processing elements (PEs), and a cycle-stepped multi-threaded
simulator of that mesh (`src/sim`, C++). This directory models both in TLA+.
Of the simulator: the on-chip network, the decentralised timestep barrier, the
engine that drives them under synthetic traffic, the virtual memory in which PEs
keep their neurons, and the runner that executes a compiled network on all of it. Of
the compiler: every pass from a trained model to the files the simulator loads, and
the functional simulator its results are compared with.

## 1. Inventory

| Component | State it keeps | Operations | Interacts through |
|---|---|---|---|
| Mesh, routing (`mesh.cpp`, `routing.hpp`) | none after `build` | `route_xy`, `opposite`, `step` | called by routers |
| Router (`router.cpp`, `ports.hpp`) | five double-buffered input FIFOs, output and injection credits with a staged delta, round-robin cursors | `try_inject`, `compute`, `commit` | pushes into neighbours' staged halves and staged credits, ejects to its PE |
| Barrier controller (`sync_fsm.cpp`, `tree_topology.hpp`) | state, timestep, children reported, next received | `on_received`, `step`, `begin_next_timestep` | REPORTs up and NEXTTIMESTEPs down a binary tree, as flits |
| PE stub (`pe_stub.cpp`), traffic (`traffic.hpp`) | ingress FIFO, spikes and sync flits held back | `compute`, `commit` | router, controller |
| Engine (`engine.cpp`) | cycle, deadlock flag | `run`, `run_timestep`, `drain` | sweeps over all PEs and routers with OpenMP |
| Soma, DNP (`soma.hpp`, `dnp.cpp`) | membranes; slots, maps, a free list | `step`, `reset`, `reset_metrics` | called by the network PE |
| Network PE (`network_pe.cpp`) | ring of delay slots, MAX windows seen, spikes held back | `begin_timestep`, `accumulate`, `compute` | router, controller, soma or DNP |
| Network runner (`network_runner.cpp`) | absolute timestep, coprocessor queues | `run`, `coproc_read`, `coproc_feed` | PEs, mesh |
| Dendrite, axon, attention (`dendrite.cpp`, `axon_out.hpp`, `attention_unit.hpp`) | tables | pure functions | network PE, runner |
| Image, config (`network_image.cpp`, `config.cpp`) | none | `load` | files |
| Statistics, energy | counters | `bump`, sums | everything, never read back |
| Models, builders (`models/`, `graph/builders.py`) | the graph under construction | `build_vgg`, `build_resnet`, `build_spikformer`, `fold_bn`; `forward` | torch modules |
| Graph (`graph/dag.py`) | nodes; in-degrees and heap of a sort | `add`, `topo`, `validate` | every later pass |
| Connectivity (`synapse/`) | none | `enumerate`, `compress`, `decompress`, `reconstruct` | placement |
| Placement, routing (`mapping/`) | PEs, spike entries, axon groups | `partition_dag`, `locate`, `route_dag`, `compress_axons`, `channel_perm`, `build_masks` | graph in, tables out |
| Export (`export/`) | none | `quantize_int8`, `build_manifest`, `validate_manifest`, `write_network` | files |
| Functional simulator (`funcsim.py`) | membranes, activations of a timestep | `reassemble_weight`, `nrt_forward`, `sj_reference` | graph, PEs |
| Command line, scripts (`cli.py`, `run_*.py`) | none between passes | `main`, `compile_trained`, `write_input_bin`, `write_attention_bin` | files, the simulator as a process |

What is hard here: within one sweep PEs and routers of different threads write
into each other's staged halves; back-pressure with finite buffers can deadlock;
controllers drop flits of another timestep silently and trust that none comes;
the engine starts a timestep while spikes of the last are still queued; the DNP
leaves stale map entries behind and recycles slots in the middle of a step; a
network PE counts a spike's delay from the timestep it is itself in when the spike
arrives, and reuses the slots of its ring; attention leaves the network, waits in a
queue and comes back as an input. In the compiler a neuron has four numbers (in its
map, in its tensor, in its PE, in a token's slice) and a spike's way goes through
pools, adds and reshapes that are not there on the chip: each pass numbers and
traces again, and nothing but agreement at the end says that they all did it alike.
`PROJECT.json` lists each hazard at its line.

What makes each component correct:

- *network*: nothing lost, doubled, reordered within a pair, misdelivered or
  starved; buffers never overflow; never deadlocked; the result of a cycle does
  not depend on the schedule.
- *barrier*: nobody is released while somebody works; no flit is stale, sent or
  counted twice; every timestep ends.
- *engine*: what the barrier was proved to do over an abstract network holds over
  the real one; spikes survive barriers; a run ends without the watchdog.
- *DNP*: maps are a bijection, the free list is exact, slots are invisible to the
  neurons, and with room for everyone it equals the dense soma.
- *network PE and runner*: a spike takes effect exactly its axon's delay later, once
  per MaxPool window, whatever the mesh does; nothing crosses a timestep; the split
  into a warm-up and a measured run is invisible; attention joins at its stage.
- *graph*: sorted, every node after its producers, whenever there is no cycle.
- *compression, placement, routing*: every synapse of every layer is found again, with
  its weight, from the tables as they are written, and no other is.
- *functional simulator and pipeline*: without rounding the first fires as the trained
  model does, reordered or not; the second fires as the first does, depth - 1
  timesteps later.

## 2. Modules

Each entry says which code a module stands for and how state and actions
correspond; `PROJECT.json` maps every definition to its lines.

The simulator:

- `MeshTopology`: coordinates, ports, `route_xy`, neighbours.
- `Router`: the state and the operations of all routers, without a schedule.
  `cur` and `nxt` are the two halves of every input FIFO, `outCredit` and
  `credInbox` the credits and their staged returns. `Compute(r)`, `Commit(r)`
  and `DrainAndInject(n, flits)` are the code's `Router::compute`,
  `Router::commit` and the PE's draining and `try_inject` loop. A router sends
  from each input at most once, to the output its head flit asks for.
- `Noc`: routers with PEs that inject a fixed backlog, under the engine's two
  sweeps. Each tickable's compute or commit is an action; `todo` holds those the
  sweep still has to run, so every order, hence every division among threads, is
  a behaviour. `EndCompute` and `EndCycle` are the barriers of the OpenMP loop.
- `NocLockstep`: the abstract network, in which all routers and PEs act at once
  on the state the cycle began with. `Noc` implements it.
- `SyncController`: the controllers of all PEs. A PE's compute hands the received
  sync flits and `local_done` to `SyncStep`, which is `on_received` for each and
  then `step`, whose three stages may follow each other in one call. The module begins
  with the tree: parent, children, `child_count`.
- `SyncProtocol`: the controllers over a network that keeps a bag of sync flits
  and delivers them in any order. `TimestepBarrier`: what a barrier promises.
- `BspEngine`: routers, controllers and PE stubs under `run`, `run_timestep` and
  `drain`, watchdog included. `PeStep` is one whole `ProcessingElementStub::compute`.
  Its first part is the synthetic traffic; on a mesh one column wide the destination of
  the random source can be the sender, as in the code.
- `Lif`, `DenseSoma`: the membrane step and the plain soma. `Dnp`: `Dnp::step` as
  its loops, those that share the free list one iteration per action. `NeuronStore`:
  the abstract store, a partial function from neurons to membranes.
- `NeuronSteps`: one timestep of a PE's neurons as a function, dense or pruned; the
  steps of `DenseSoma`, of `NeuronStore` and of the network PEs.
- `Datapath`: the targets a lattice of axon groups stands for, the synapses of a
  spike, the attention of a timestep. `ImageTables`: the tables of a compiled network
  and the current one spike brings. `NetworkImage`: the image of a run, with what
  the compiler and `NetworkImage::load` promise of it as an assumption.
- `NetworkPe`: the ring of delay slots (`ring[i][slot]` holds `ring_` and `seen_`), the
  neurons, the spikes held back. `PeStep(i)` is `NetworkPe::compute`, `BeginTimestep`
  is `begin_timestep` of all PEs, which the runner calls one after the other and
  between which nothing is exchanged.
- `NetworkRunner`: `run(warmup); reset_counts(); run(measure)`. `ran` is how far the
  cycle `step_cycle` is in has come, `phase` says which of the two loops of `run` it
  belongs to, `GiveUp` is the watchdog.
- `Pipeline`: a timestep as running a network promises it, a synchronous network in
  which every current is due its delay later. What spikes bring is `received` of
  `ImageTables`, a sum over a set of them in no order; `NetworkPe` accumulates one by one, in the order of arrival. `DelayLine`: the behaviour made of such
  timesteps, which `NetworkRunner` implements and `EndToEnd` runs.

The compiler. Passes are operators on records that have the code's fields, since
each is a pure function of the one before; the actions are the passes and, where the
code loops over state, the iterations.

- `Dag`: nodes, consumers, sources behind relays, the checks of `validate`. `TopoSort`: `topo`, one
  pop of its heap an action; `indeg`, `ready` and `order` are its variables.
- `Synapse`: connectivity of convolutions and dense layers, compression into base
  lists with repetitions, and its inverses. It uses `decompress` of `Datapath`: the
  compiler's and the simulator's are the same function in two languages.
- `Builders`: the graphs of the three families of models, batch norms folded.
- `Placement`: `partition_dag` with its budget, and `locate` and `local_to_global`.
  `FiringPlacement`: the reordering of channels by firing rate.
- `Routing`: which spikes a layer gets through pools, adds and attention, with which
  delay and combination. `AxonTable`: the folding of entries into lattices, with
  the greedy choices of the code.
- `Export`: quantization and the manifest, what the writer refuses, what the loader
  checks, and the image as loaded.
- `FuncSim`: `nrt_forward`, a node of a timestep an action. `SpikingModels`: a timestep
  of the trained models.
- `Compiler`: `cli.py` and `compile_trained` as actions, refusals included; `phase`
  says how far a compilation is. `EndToEnd` goes on from what is written: the
  functional simulator and the model see an image, and the pipeline runs on the
  chip's tables (`run_e2e.py`).

Proofs and instances:
- `RouterProofs`, `NocProofs`, `SyncControllerProofs`, `SyncProtocolProofs`,
  `BspEngineProofs`, `NetworkRunnerProofs`, `DnpProofs`, `TopoSortProofs`: the proofs.
- `MCNoc`, `MCBspEngine`, `MCDnp`, `MCNetworkRunner`, `MCEndToEnd`: loads, images,
  models and constants for TLC.

Definitions whose comment calls them *faulty* are plausible mistakes, used only
to show that a property can fail; no specification refers to them.

Abstractions. Flits are records without identifiers that nothing reads; cycle
stamps, statistics and energy are left out. Membranes and currents are integers
and the LIF quotient and an average are rounded down; no property depends on the
rounding. In the compiler weights are whole numbers, and a spike is `Unit` = 4 of them,
so that no average over two or four neurons is rounded and the currents of chip,
functional simulator and model can be compared exactly; a weight that went
through int8 is a whole multiple of a 127th, as its scale is. Names are their
positions in the lexicographic order that the heap uses. A
timestep is bounded by `NumTimesteps` as in the code. `MaxAge` bounds `Dnp`: no
step begins once a slot is that old.

## 3. What is checked

| Run | Instance | What it shows |
|---|---|---|
| `noc` | 2x2, 2 credits; all hotspots and a transpose load, 3 flits a node | link and injection credits; each flit in exactly one place at every point of a sweep; per-pair order; one ejection a cycle; X before Y; some flit can always move; arbitration starves nobody; `NocLockstep` implemented; delivery |
| `sync_protocol` | 5 PEs, depth 2, 2 timesteps | the barrier properties; `TimestepBarrier` implemented; every timestep ends |
| `bsp_line` | 3x1, 1 credit, 2 timesteps, bursts of 2 between the ends | the engine implements `SyncProtocol`; no spike ahead of the sync flits; the run ends |
| `bsp_overtaken` | 2x2, 16 credits, 2 timesteps, streams of 12 and 24 to a hotspot, which sends anywhere | spikes cross the barrier or are left to `drain`; none lost, doubled or left behind |
| `dnp` | 3 neurons, 2 slots, inputs 0 and 9, both pruning rules | maps, free list and occupancy; `NeuronStore` implemented |
| `dnp_golden` | 2 neurons, 3 slots, inputs -4, 0 and 9, thresholds out of reach | equals `DenseSoma` |
| `network_block` | 7 PEs on 4x2, 1 credit, 4 timesteps (1 of warm-up): attention of 2 tokens and 2 heads, v in two slices, a queue of 2; a skip of delay 3 around it; MaxPool windows of two terms, an average; slots for some of the neurons, sticky skip | `DelayLine` implemented; the run ends |
| `network_streams` | 4 PEs on 2x2, 16 credits, 2 timesteps, streams of 4, 12, 24 and 40 spikes, watchdog of 34 cycles | every spike is accumulated in its timestep, also when a run is given up; mesh and PEs are empty between timesteps; `DelayLine` implemented |
| `e2e` | a VGG (with two firing profiles), a residual network (also with a bias), a Spikformer, graphs with pools before an add and with a layer added to itself, and 15 models that one pass or another refuses; 24 PEs of 34 bytes; 12 timesteps, 8 of warm-up | sorting; nothing lost or invented by placement, routing, compression, writing and loading; the most active channels kept; currents, spikes and counts agree |
| `network_source`, `network_pruned`, `token_mean` | as `network_streams`; 2 PEs with pruning; a Spikformer | *violations*: see below |

Why the bounds suffice to make the interesting cases happen: on the square every turn XY routing
allows is taken, and three flits of a source exceed two credits, so links stall and
flits of a pair queue behind one another. Five
PEs give an inner node with two children and leaves at different depths. The
bursts of `bsp_line` make REPORTs compete with spikes for every link, and no
timestep needs more than its watchdog of 17 cycles. In `bsp_overtaken` one flit is ejected per
cycle at the corner where 36 meet, so the barrier is over before the longer
stream is. Three neurons over two slots make the ring wrap, reject and recycle.

The networks are the smallest with the feature in question: a spike of the skip and
one of the main path meet in one slot, and in one window that must count once per
term; a current of delay 2 outlives the neuron it is for; the projection must not
see the attention of a neighbouring timestep. The runner builds its mesh with the
default of 32 credits; fewer make it stall, which the results must not show. In
`network_streams` the shorter stream delays the longer one at the corner, so that
spikes are left for the drain, and the longest exceeds the watchdog. The refinement maps what is `due` to the ring as it
will be when the spikes under way are accumulated, and an attention queue that is
still filling to one filled with zeros.

The models of `e2e` are as small as their features allow: strides and paddings that
leave a border, a second stage that projects its shortcut, two heads, layers
that a PE cannot hold, so that they are split into blocks, those of the
transformer's MLP with a shorter last one. The constants that bound a PE, a dendrite, a delay, a count and an
offset are scaled down, and the models that are refused exceed them one by one; the warm-up covers
the delay of the deepest pipeline, so that every layer fires while counts are kept.
`ComputesLayer` compares currents for spikes of
all, of every second and of every fifth neuron; the code's own spot check samples.

Fairness. `Noc` and `BspEngine` assume weak fairness of the next-state relation as
a whole: a worksharing loop runs every iteration, a barrier releases every
thread, and `run` is a loop. `SyncProtocol` assumes that every PE computes again
and again with its local work finished in the end, that every flit is delivered
in the end (checked on `Noc` as `AllDelivered`), and that `run` goes on once all
are released. `NetworkRunner` is one thread whose loops go on until their conditions
fail: weak fairness of its next-state relation. Deadlock checking is off where the
program ends (`BspEngine`, `NetworkRunner`, `EndToEnd`).

Three violations.

- A flit's `src` is its "origin PE (latency accounting + deterministic tie-break)"
  (`flit.hpp:29`). `NetworkPe` computes it with the default mesh width of 24
  (`network_pe.cpp:114`) and not with that of the image; on a mesh of another width
  it names another PE, or none (`network_source`). Nothing in the simulator reads
  the field of a spike but the trace.
- Skipping pruned neurons is said to be "STICKY after prune": such a neuron "no longer
  receives input, so UpdateFSM's allocate-on-input never re-maps it" (`dnp.hpp:65`).
  The skip is decided when a spike arrives (`network_pe.cpp:78`). A current of delay
  2 that arrived while the neuron was mapped is due after it was pruned, and
  `Dnp::step` maps the neuron again (`network_pruned`).
- "Through AvgPool(s) -> AVG (sum / window)", says `_edge_terms` of spikes on their way
  to a layer (`partition.py:334`), and the functional simulator takes the mean over
  the tokens of a Spikformer before its head (`funcsim.py:151`). The window is a quotient of
  map areas, and that of a shape without a map is 1 (`partition.py:350`): the chip
  adds the tokens up (`token_mean`). `ChipComputesLayers` holds of every other layer.

Narrower places, which no builder's model reaches or which a property excludes by
name. Of several paths from one source through different pools the last one found
decides how its spikes combine (`partition.py:344`). Entries are compressed as
sets, so that a layer added to itself, which `dag.py:128` calls sound, counts once
(`partition.py:544`). The files carry no bias (`funcsim.py:90`): the chip adds only
that of the first layer, in its input current, and `PipelineMatches` is about models
whose other layers have none.

Stale texts. Where a text of the repository contradicts the code, and another text
beside the code agrees with it, the models follow the code:

- Pools: "the dendrite SUMS the window" (`svgg.py:52`). What the code does is in
  `partition.py:334` and `network_pe.hpp:31`: a MaxPool window counts once, an average is divided.
- Placement by firing rate: each block holds "a firing-balanced mix (round-robin over
  rate-sorted channels)" (`firing_placement.py:8`). `channel_perm` sorts "WITHOUT moving channels across PEs"
  (`firing_placement.py:20`), which is what `ActiveKept` is about.
- Axon records of 32 bytes (`format.md:39`, `writer.py:5`, the text of the check at
  `network_image.cpp:120`) or of 64 (`format.md:74`, `network_image.hpp:32`). Writer and
  loader agree on 66 (`writer.py:20`), with a field for how spikes combine (`meta`) that the
  table of `format.md` lacks. `Export` keeps the fields of a record and not its layout.

## 4. What is proved

With TLAPS, for every mesh, any numbers of PEs, timesteps, neurons and slots, any
credits the configuration admits and any traffic:

- `NocProofs` (over `RouterProofs`), for every mesh and any load:
  - *Credits.* Link and injection credits are conserved; hence no input buffer
    overflows, although `push_next` does not look. The invariant is the credit
    equation of each link: the sender's credits, their staged returns and the
    flits in both halves of the receiver's buffer add up to `CreditInit`. It is
    inductive with the types, because a step of a router changes two terms of at
    most one equation per port. `CreditInit <= InBufCap`, which `Config::parse`
    enforces, turns it into the absence of overflow.
  - *Routing and deadlock.* No flit is routed off the mesh, and each stands where XY
    routing lets it stand (`XyDiscipline`; one hop along the route establishes it at
    the next port). The channels are ranked, rows before columns, so that a flit only
    waits for a channel of lower rank. At the start of a cycle nothing is staged, so
    that a sender without credits faces a full queue; a queue of least rank among
    those that hold flits can then always be served (`SomeFlitCanMove`).
  - *Arbitration.* A waiting port that is passed over comes closer to the cursor
    (`WaitersGetCloser`).
  - *Sweeps.* `SweepInv` says what the tickables that have run have emptied; the
    eject FIFO, which has no credits, holds one flit at most (`EjectAtMostOne`).
  - *Order and uniqueness.* A FIFO and what is staged behind it are seen as one line,
    a PE's backlog as the end of its local line; only a router's compute moves
    anything between lines. `FlowInv` says that every flit stands on its one route,
    that two flits of a pair are in order within each line and along the route, and
    which of them the destination has had. `InOrderPerPair` and `ExactlyOnePlace`
    follow.
  - *Threads.* `NocLockstep` is refined: at each point of a cycle every variable is
    either as it was at the start or as the one simultaneous step makes it, depending
    on which tickables have run (`InStep`). No order of the sweeps, and so no
    number of OpenMP threads, makes a difference.
- `SyncProtocolProofs`: `IInv` is inductive. None of the barrier properties is by
  itself: that nobody is released early needs to know that a count of reports
  equals the children whose REPORT was sent and is no longer under way
  (`CountInv`), that a PE that has reported has had its whole subtree's reports
  (`SubtreeInv`), and that a flit's sender and receiver are in the states in which
  it makes sense (`NetInv`). From it follow that the barrier holds, that no flit is
  stale or counted twice, that the network is silent at the barrier, and the
  refinement of `TimestepBarrier`. That the root has everybody's report is proved
  by descending the tree: if some PE had not reported, the smallest such index
  would have a parent that had.
- `BspEngineProofs` (over `RouterProofs` and `SyncControllerProofs`), for every mesh, credits, traffic and watchdog:
  - *Counting.* The queues of the engine are one function from `Line` to sequences,
    and a property of flits is counted over all of them (`RouterProofs`). Each operation moves flits
    between a few queues, so that the count over all stays as it was but for what a
    PE drains, generates and emits (`PeStepMoves`, `ComputeMoves`, `CommitMoves`).
    With spikes it gives conservation, with one sync flit at a time the network of
    `SyncProtocol`.
  - *Invariant.* `EngineInv` says that the state is well formed with all PEs in `run`'s
    timestep, that a PE is ejected only what is addressed to it, and, sweep by sweep,
    what is still staged (`SweepInv`): one ejected flit at most, which is what
    `SyncProtocol` assumes of a compute, and nothing between cycles.
  - *Protocol.* Under the mapping of `ImplementsProtocol` a PE's compute is `Work` or
    `Receive`, `NextTimestep` is `Begin`, and nothing else changes anything the
    controllers see. The order in which `step` emits parent, left and right child is
    the only one a sorted sequence can have (`OnlyOrder`, in `SyncControllerProofs`).
  - *What the protocol gives back.* Its theorems, cited of this instance, give that no
    flit in a queue is stale (`SpikesBehindSync`) and, with `SweepInv`, that the
    drain's look at the visible halves is enough (`DrainLeavesNothing`): held-back
    spikes are excluded by the barrier, held-back sync flits by its silence.
- `NetworkRunnerProofs` (over the same two), for every mesh, image, credits, input and
  watchdog: `SilentBetween` and `SpikesOfThisTimestep`. Neither is inductive. That nothing
  is left when a timestep ends depends on what happened to the spikes of that timestep,
  and that they have its stamp on there having been nothing when it began. `RunnerInv`
  closes the circle:
  - *Clocks.* All controllers are in the runner's timestep, and the drain begins only when
    all of them are ready to advance.
  - *Nothing kept back.* A PE that is not computing has sent or queued every spike it had
    (`SentAll`); no spike can be generated in a drain.
  - *Stamps.* What stands in any queue has the stamp of this timestep (`Stamped`). A PE
    stamps what it sends with its controller's timestep, and routers only pass on.
  - *Sweeps.* `Swept` says which staged halves and eject FIFOs the first `ran` steps of
    the cycle have emptied, `EjectHome` that a router without a PE ejects nothing.
  - *Held-back flits.* `mesh_empty` looks at the routers, not at what a PE could not
    inject. A PE holds a sync flit back only for want of credits, and by the credit equation
    of `RouterProofs` its router's local input is then full. What is there stays there, or
    moves to the next router's staged half, for the rest of the cycle
    (`HeldBack`, `Loaded`). So an empty mesh at the end of a cycle leaves nothing held back.
  At the end of a timestep these give `SilentBetween`; the next one begins on empty queues,
  which gives `Stamped` again. The packets of a PE are a flattened sequence of sequences;
  that they are flits (`FlattenType`) is shown by a least counterexample.

  The same module proves `ImplementsDelayLine`: for every network, with pruning or
  without, with any attention blocks, the mesh computes timestep by timestep what the
  synchronous network of `DelayLine` does. The mapping does not hide the spikes on their way:
  what is `due` in a PE is what the ring holds *plus* what those spikes will bring. So the
  proof has to show that no cycle changes that sum, and that a `Begin` does to it what
  a step of `DelayLine` does.
  - *Invariant.* `LineInv` adds to `RunnerInv` what the sum depends on. `Handed`: a PE is
    handed at most one flit in a cycle, which is addressed to it, and drains it before
    the next. `Slotted`: the slot that is `max_delay` ahead is blank when a timestep begins,
    which is why the ring has one slot more than the longest delay. `Fed`: a queue of
    attention never outgrows its delay, and until it is full its PEs are given zeros.
    `Firing`: only neurons of a PE fire in it.
  - *In the mesh.* Routers and commits carry flits from queue to queue: as many copies of
    each spike are on their way after a step as before (`ComputeMovesFlits`,
    `CommitMovesFlits`, `CommitEjectMovesFlits`), and `received` depends on no more than those numbers (`SameCounts`).
    Places are counted and not spikes, because two equal flits bring their current twice.
  - *Arrivals.* The spike a PE drains moves from the flying ones to the slot it is due in
    (`PeComputeDue`). That slot is no other delay's: two delays of at most `max_delay`
    never agree modulo the ring's size (`RingSlots`). Currents are sums over
    finite sets, from which one spike at a time is taken; of a MaxPool window it matters
    only whether it is open, not which spike opened it, so the order of arrival is nothing
    anyone can see.
  - *Timesteps.* By `SilentBetween` nothing flies when a timestep begins, so `due` is the ring
    (`DueBetween`). The packets that are sent correspond one to one to the pairs of a fired
    neuron and one of its targets (`PacketsFrom`, `PacketsArrive`); the slot consumed is
    blank and becomes the one of the longest delay (`BeginDue`). A queue that is still
    filling shifts like one padded with zeros (`Padded`), and zeros project to no current
    (`NothingProjected`).
  - All other steps of the runner, the watchdog's included, are stutters; `reset_counts`
    is `DelayLine`'s.
- `DnpProofs`:
  - *Maps.* Types, the bijection of the maps and the exactness of the free list
    are inductive together: allocation takes a slot that has no owner because the
    list holds only invalid slots, and reclaim has room for the slot it pushes
    because, by the pigeonhole principle, a full ring would hold every slot while
    this one is valid.
  - *Counters.* `Tidy` relates occupancy, pending flags and leftovers of the last step
    to the point the step has reached; `OccupancyExact` is a part of it.
  - *Slots.* `Stored` relates the slots to the store that was shown last: before
    a step they agree through the map; in UpdateFSM those that have had their turn
    and found room have entered; in PRUNE the slots visited hold only those that stay.
    The code's loop gives room to neurons one by one, `NeuronStore` to those with
    fewer competitors below them than there is room: `Turn` shows that these are
    the same, because the mapped neurons and the valid slots are equally many.
  - *Golden.* With `NPhys >= NLog`, an age threshold beyond `MaxAge` and a potential
    threshold below a bound of the currents, `Dnp` implements `DenseSoma`. That bound is
    what "pruning off" means for potentials: a membrane is a mean of currents and
    never falls below the lowest of them or zero, whichever is less.
- `TopoSortProofs`: for every finite graph, the order is topological, and the sort stops
  early exactly if there is a cycle. The invariant says that a node's in-degree
  counts its *distinct* producers not yet taken and that the heap holds the
  untaken nodes that have none; a step takes one node, which is one producer less for
  each of its consumers. No node of a cycle is ever taken, because it would need
  another one of the cycle before it; and if the heap is empty, each node left has a
  producer that is left.

Assumptions: `MeshAssumption`, `CreditAssumption` and their like, named in the
modules that declare the constants and evaluated by TLC; `NumPe <= 32767`, so that
child indices fit the 16 bits of `PeId`. Those of the runner say what it is given:
`WireAssumption` that the axons of an image lead to PEs on the mesh,
`ImageSizeAssumption` and `RunAssumption` that sizes and the lengths of a run are numbers.
Those of the refinement say what an image that loads decodes to: `DelayAssumption` that a
delay is at most 15 (`network_image.cpp:213`), `SpikeAssumption` that targets are PEs, that
offsets fit the 16 bits they travel in, and that spikes bring numbers; and
`FeedAssumption` what `run_network` passes on beside the image: whole periods of frames
for PEs that no attention feeds, blocks that share no PE and whose delay is at least one
timestep, weights for every product a projection takes. `coproc_feed` asks nothing of this:
with a delay of 0 it would take the front of an empty queue. The compiler gives the
difference of two depths of the pipeline (`run_e2e.py`), which is at least one.

Only model-checked: liveness (delivery, the end of timesteps and runs) and all of the
compiler but its sort. Liveness under fairness is out of the prover's reach, and so is what a fold or a
recursive function computes for every input, which the passes of the compiler are
made of.

## 5. What is not modelled

- Statistics, energy and the simulator's command line keep no state that a control
  decision reads.
- The parsing of JSON and of configuration files, and the `dnp` block of a manifest.
  What config validation promises is an assumption (`CreditAssumption`).
- The stand-alone `Dendrite` class with its count of ALU cycles, which the runner does
  not use.
- The numerics of tensors: floating-point rounding, NaN, the layers and the
  recording hooks of torch and spikingjelly, which are modelled from their use.
- Training, accuracy and profiling scripts, which loop over the operations above and
  print tables; the strided and the VGG16 variants of SVGG9, which are the same
  forward pass and builder at other sizes.
- The compiler's metrics, summaries and counts of entries, which nothing reads.

## 6. Plan

1. *Done*: network, barrier, engine, DNP, network PE and runner; the compiler from
   models to files, the functional simulator and the comparison of both with the
   pipeline on the chip; the proofs above.
2. Theorems that would come next: that `locate` and `local_to_global` are inverse, and that
   an image that `Loads` satisfies `SpikeAssumption`.
