----------------------------- MODULE MCAllocator -----------------------------
(* Any MaxCalls calls and writes in a memory that has room for three blocks.  *)
(* Of the sizes one is zero, two fit, one is refused as a layout, one wraps   *)
(* around a word; of the products of two sizes some exceed a word.            *)
EXTENDS Allocator

CONSTANT MaxCalls

VARIABLE calls

MCSizes == {0, 1, 3, MaxWord - 2 * Align, MaxWord - 4}

MCInit == Init /\ calls = 0

MCNext ==
  /\ calls < MaxCalls /\ calls' = calls + 1
  /\ Malloc \/ Calloc \/ Free \/ Realloc \/ Write

MCSpec == MCInit /\ [][MCNext]_<<vars, calls>>
=============================================================================
