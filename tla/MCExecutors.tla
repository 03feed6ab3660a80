---------------------------- MODULE MCExecutors ------------------------------
(* Two executors, three ids and queues with room for one, so that pushes fail. *)
(* No symmetry: a temporal property is checked.                                *)
EXTENDS Executors
=============================================================================
