-------------------------------- MODULE MCMm --------------------------------
(***************************************************************************)
(* Module Mm for TLC: three free lists (below 32 bytes, below 64, the       *)
(* others), a heap that grows from 24 bytes to 72, and requests that need   *)
(* blocks of 16, 24 and 48 bytes: the rest of a split may be too small to   *)
(* be a block, and a request may be larger than CHUNKSIZE.                  *)
(***************************************************************************)
EXTENDS MmProperties
=============================================================================
