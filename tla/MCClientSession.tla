--------------------------- MODULE MCClientSession --------------------------
(***************************************************************************)
(* Small instances of ClientSession; see the cfg files.                    *)
(***************************************************************************)
EXTENDS ClientSession
=============================================================================
