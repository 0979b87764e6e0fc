---------------------------- MODULE MCTileRender -----------------------------
(* Instances of TileRender for TLC: two rows of tiles, and the threads of     *)
(* the machines the runs model.                                              *)
EXTENDS TileRender

(* A row of tiles, numbered from left to right. *)
Row3 == 0 .. 2
Row4 == 0 .. 3
RowNeighbor(T) == [t \in T |-> {u \in T : u - t \in -1 .. 1}]
Row3Neighbor == RowNeighbor(Row3)
Row4Neighbor == RowNeighbor(Row4)

(* All tiles on the only list; or split between two devices. *)
OneDevice == [t \in Tile |-> 0]
TwoDevices == [t \in Tile |-> IF t < Cardinality(Tile) \div 2 THEN 0 ELSE 1]

(* Two threads of one CPU device. *)
CPUThreads == {"t1", "t2"}
CPUDeviceNumber == [w \in CPUThreads |-> 0]

(* Two GPUs, one thread each. *)
GPUs == {"g0", "g1"}
GPUDeviceNumber == [w \in GPUs |-> IF w = "g0" THEN 0 ELSE 1]

(* One rendering device and one that only denoises, numbered after it. *)
RenderAndDenoiser == {"r0", "d1"}
RenderAndDenoiserNumber == [w \in RenderAndDenoiser |-> IF w = "r0" THEN 0 ELSE 1]
Denoiser == {"d1"}
Renderer == {"r0"}

(* range_num_samples of a render without a sample range. *)
NoRange == -1
=============================================================================
