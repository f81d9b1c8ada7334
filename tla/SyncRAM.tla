------------------------------ MODULE SyncRAM ------------------------------
(***************************************************************************)
(* The single-port synchronous memories of lab 4.  s_memory.vhd and        *)
(* d_memory.vhd wrap one altsyncram each: address, data and wren are        *)
(* captured at the clock edge, and the output q is the cell captured at     *)
(* that edge.  A write seen by q at the same edge shows the new data        *)
(* (NEW_DATA_NO_NBE_READ); the simulation model RAM.v used by the test      *)
(* benches shows the old data instead.                                      *)
(*                                                                         *)
(* The operators are functions of the values held before the edge; the      *)
(* composition assigns them to the memory and to its q at the edge.         *)
(***************************************************************************)
CONSTANT NewDataOnWrite   \* TRUE: altsyncram as configured; FALSE: RAM.v

(* The cells after an edge. *)
CellsAfter(mem, wren, address, data) ==
  IF wren THEN [mem EXCEPT ![address] = data] ELSE mem

(* The output q after an edge. *)
QAfter(mem, wren, address, data) ==
  IF wren /\ NewDataOnWrite THEN data ELSE mem[address]
=============================================================================
