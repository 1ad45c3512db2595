---------------------------- MODULE MeshTopology ----------------------------
(***************************************************************************)
(* The geometry every other module stands on: the W x H mesh of routers    *)
(* and dimension-order (XY) routing.  Pure operators, no state.            *)
(*   sim/include/neurort/common/types.hpp       Coord, PeId, Dir           *)
(*   sim/include/neurort/functional/routing.hpp route_xy, opposite, step   *)
(***************************************************************************)
EXTENDS Integers

CONSTANTS W, H     \* noc.width and noc.height

(***************************************************************************)
(* Config::parse wants both at least 1.  A Coord holds them in two bytes   *)
(* and a PeId in two bytes, so 256 x 256 is the largest mesh whose         *)
(* identifiers do not wrap; within it no arithmetic below can overflow.    *)
(***************************************************************************)
ASSUME MeshAssumption == W \in 1 .. 256 /\ H \in 1 .. 256

(* A Coord: x is the column, y the row. *)
Node == [x : 0 .. W - 1, y : 0 .. H - 1]

(* Ports, numbered as in the enum: the order in which outputs are served. *)
Local == 0
East  == 1
West  == 2
North == 3
South == 4
Dir == Local .. South
Cardinal == East .. South
PortCount == 5

(* faulty: y is resolved first. *)
route_yx(here, dst) ==
  IF dst.y # here.y THEN IF dst.y > here.y THEN South ELSE North
  ELSE IF dst.x # here.x THEN IF dst.x > here.x THEN East ELSE West
  ELSE Local

(* X is resolved first, then y; Local at the destination. *)
route_xy(here, dst) ==
  IF dst.x # here.x THEN IF dst.x > here.x THEN East ELSE West
  ELSE IF dst.y # here.y THEN IF dst.y > here.y THEN South ELSE North
  ELSE Local

opposite(d) ==
  IF d = East THEN West ELSE IF d = West THEN East
  ELSE IF d = North THEN South ELSE IF d = South THEN North ELSE Local

step(c, d) ==
  [x |-> IF d = East THEN c.x + 1 ELSE IF d = West THEN c.x - 1 ELSE c.x,
   y |-> IF d = South THEN c.y + 1 ELSE IF d = North THEN c.y - 1 ELSE c.y]

has_neighbor(c, d) ==
  \/ d = East  /\ c.x + 1 < W
  \/ d = West  /\ c.x > 0
  \/ d = South /\ c.y + 1 < H
  \/ d = North /\ c.y > 0

-----------------------------------------------------------------------------
(* PeIds are row-major. *)

PeId == 0 .. W * H - 1
to_id(c) == c.y * W + c.x
to_coord(i) == [x |-> i % W, y |-> i \div W]
=============================================================================
