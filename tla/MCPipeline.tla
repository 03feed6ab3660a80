---------------------------- MODULE MCPipeline -------------------------------
(* Pipeline on a small slab, with more clients than slots. *)
EXTENDS Pipeline, TLC

ClientSymmetry == Permutations(Clients)
=============================================================================
