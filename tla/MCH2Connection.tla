--------------------------- MODULE MCH2Connection ----------------------------
(* H2Connection with ids as a client numbers them. *)
EXTENDS H2Connection
=============================================================================
