----------------------------- MODULE MCTransfer -----------------------------
(***************************************************************************)
(* Two keys of one section and one of another, each section in its chunk.  *)
(***************************************************************************)
EXTENDS Transfer, TLC

CONSTANTS k1, k2, k3, x, y

MCSectionOf == (k1 :> 1) @@ (k2 :> 1) @@ (k3 :> 2)
MCChunkOf == (1 :> 1) @@ (2 :> 2)
TransferSymmetry == Permutations(Values) \cup Permutations({k1, k2})
=============================================================================
