------------------------------ MODULE Compiler ------------------------------
(***************************************************************************)
(* The compiler from a model to the files the simulator loads: cli.py, and *)
(* compile_trained of run_dnp_sweep.py, which refuses a network over       *)
(* budget where the command line warns.  Before, run_dnp_placement_e2e.py  *)
(* may reorder the channels of a VGG by how often they fire.               *)
(***************************************************************************)
EXTENDS TopoSort, FiringPlacement, Export

LOCAL INSTANCE Functions

CONSTANTS
  Models,    \* the trained models
  Profiles   \* for each layer how often its channels fire

VARIABLES
  phase,     \* how far the compiler is
  trained,   \* the trained model
  profile,   \* its channels' firing, when they are reordered by it,
  reordering,  \* and for each layer their new order
  deployed,  \* the model that is compiled
  net,       \* its PEs
  entries,   \* their spike entries,
  tables,    \*   compressed
  manifest   \* the files

placementVars == <<profile, reordering, deployed>>
tableVars     == <<net, entries, tables, manifest>>
compilerVars  == <<topoVars, phase, trained, placementVars, tableVars>>

CompilerInit ==
  /\ phase = "model"
  /\ trained \in Models /\ deployed = trained
  /\ profile = << >> /\ reordering = << >>
  /\ dag = << >> /\ indeg = << >> /\ ready = {} /\ order = << >>
  /\ net = << >> /\ entries = << >> /\ tables = << >> /\ manifest = << >>

(* compile_variant "PLACED": the blocks are those of the model as trained. *)
Place ==
  /\ phase = "model" /\ trained.family = "vgg" /\ reordering = << >>
  /\ \E firing \in Profiles, d \in {build_dag(trained)} :
     \E layers \in {spiking_layers(d)} :
     \E fits \in {[i \in DOMAIN layers |-> channel_perm(firing[i], block_sizes(d, layers[i]))]} :
     \E p \in [DOMAIN layers -> UNION Range(fits)] :
       /\ \A i \in DOMAIN layers : p[i] \in fits[i]
       /\ profile' = firing /\ reordering' = p
       /\ deployed' = apply_firing_placement(trained, p)
  /\ UNCHANGED <<topoVars, phase, trained, tableVars>>

(* build_dag, and validate up to the sort. *)
Build ==
  /\ phase = "model"
  /\ \E d \in IF Supported(deployed) THEN {build_dag(deployed)} ELSE {} :
       IF \A n \in DOMAIN d : NodeOk(d, n)
       THEN phase' = "sorting" /\ dag' = d /\ indeg' = in_degrees(d) /\ ready' = roots(d)
            /\ UNCHANGED order
       ELSE phase' = "refused" /\ UNCHANGED topoVars
  /\ UNCHANGED <<trained, placementVars, tableVars>>

(* NotImplementedError of build_resnet. *)
RefuseModel ==
  /\ phase = "model" /\ ~Supported(deployed)
  /\ phase' = "refused"
  /\ UNCHANGED <<topoVars, trained, placementVars, tableVars>>

Sort == phase = "sorting" /\ Pop /\ UNCHANGED <<phase, trained, placementVars, tableVars>>

(* The end of topo and the rest of validate. *)
CheckStructure ==
  /\ phase = "sorting" /\ ready = {}
  /\ phase' = IF Len(order) = Cardinality(DOMAIN dag) /\ StructureOk(dag)
              THEN "graph" ELSE "refused"
  /\ UNCHANGED <<topoVars, trained, placementVars, tableVars>>

Partition ==
  /\ phase = "graph"
  /\ IF \E n \in of_op(dag, SOURCE_OPS) : Unplaceable(dag, n)
     THEN phase' = "refused" /\ UNCHANGED net
     ELSE phase' = "placed" /\ net' = partition_dag(dag, order)
  /\ UNCHANGED <<topoVars, trained, placementVars, entries, tables, manifest>>

Route ==
  /\ phase = "placed"
  /\ IF \E n \in DOMAIN dag : Unroutable(dag, n)
     THEN phase' = "refused" /\ UNCHANGED entries
     ELSE phase' = "routed" /\ entries' = route_dag(dag, net)
  /\ UNCHANGED <<topoVars, trained, placementVars, net, tables, manifest>>

Compress ==
  /\ phase = "routed"
  /\ phase' = "compressed" /\ tables' = compress_axons(entries)
  /\ UNCHANGED <<topoVars, trained, placementVars, net, entries, manifest>>

(* The command line goes on with a warning, the scripts stop. *)
CheckBudget ==
  /\ phase = "compressed"
  /\ phase' \in IF Fits(net) THEN {"checked"} ELSE {"checked", "refused"}
  /\ UNCHANGED <<topoVars, trained, placementVars, tableVars>>

(* write_network. *)
Write ==
  /\ phase = "checked"
  /\ LET m == build_manifest(net.pes, tables)
     IN  IF GroupsValid(net.pes, tables) /\ ManifestValid(m)
         THEN phase' = "written" /\ manifest' = m
         ELSE phase' = "refused" /\ UNCHANGED manifest
  /\ UNCHANGED <<topoVars, trained, placementVars, net, entries, tables>>

Compile ==
  \/ Place \/ Build \/ RefuseModel \/ Sort \/ CheckStructure
  \/ Partition \/ Route \/ Compress \/ CheckBudget \/ Write
=============================================================================
