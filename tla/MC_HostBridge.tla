---------------------------- MODULE MC_HostBridge ----------------------------
(***************************************************************************)
(* Model-checking instance of HostBridge with 5-bit guest integers (i32    *)
(* scaled down: I32Max = 15) and a 20-byte guest memory, larger than       *)
(* I32Max as a wasm32 memory may be larger than 2 GiB.  Pointers and       *)
(* lengths cover the negative, in-bounds, exact-fit and out-of-bounds      *)
(* cases.                                                                  *)
(***************************************************************************)
EXTENDS HostBridge, TLC

CONSTANTS k1, k2

MCKeys == {k1, k2}

\* A negative value, zero, and values that fit or overrun the 20-byte memory.
MCPtrs == {-1, 0, 13}
MCLens == {-1, 0, 4, 8}
MCTtls == {-1, 0, 60}
\* u64 rows-affected counts, one of them past i32::MAX.
MCRowCounts == {0, 2, 20}

\* Payload sizes below 2^31 (all of Redis: a value is at most 512 MiB).
SmallPayloads == {0, 4, 5}
\* pg_query payloads of 2 GiB and more (here 2^(Width-1) and beyond).
LargePayloads == {4, 17}

\* The wrap run passes in-bounds output pointers only, so that a call whose
\* size check wrapped reaches the write.
WrapPtrs == {0}

=============================================================================
