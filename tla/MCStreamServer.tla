--------------------------- MODULE MCStreamServer ---------------------------
(* StreamServer with few peers; the constants are given in each .cfg. *)
EXTENDS StreamServer
=============================================================================
