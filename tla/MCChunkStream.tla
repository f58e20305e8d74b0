---------------------------- MODULE MCChunkStream ---------------------------
(* Packets for ChunkStream, chosen around the boundaries of the chunk layer. *)
EXTENDS ChunkStream

Packet(id, channel, type, size, ts, large) ==
    [id |-> id, channel |-> channel, type |-> type, size |-> size, ts |-> ts,
     large |-> large]

(* Sizes below, at and above the chunk sizes; timestamps that grow, repeat, *)
(* go back and need the extension; packets alike enough to be compressed.   *)
StreamMedia == { Packet("v1", 6, "video", 5, 1, TRUE),
                 Packet("v2", 6, "video", 3, 3, FALSE),
                 Packet("v3", 6, "video", 3, 3, FALSE),
                 Packet("v4", 6, "video", 3, 14, FALSE),
                 Packet("a1", 7, "audio", 3, 9, FALSE) }

(* packets longer than some chunk sizes, of which one may follow another    *)
(* with a shortened header, whose timestamp grows                           *)
MixedMedia == { Packet("v1", 6, "video", 4, 1, TRUE),
                Packet("v2", 6, "video", 4, 3, FALSE),
                Packet("a1", 7, "audio", 2, 2, TRUE) }

(* videos with the size of the SPS packet and the same timestamp, so that   *)
(* one shortens the header of the other, and audio packets of two sizes     *)
ResendMedia == { Packet("w1", 6, "video", 3, 1, TRUE),
                 Packet("w2", 6, "video", 3, 1, FALSE),
                 Packet("b1", 7, "audio", 2, 2, FALSE),
                 Packet("b2", 7, "audio", 1, 3, FALSE) }

(* bound: the packets of a behaviour are of the one kind or the other, and  *)
(* the chunk size is changed beside the first only                          *)
AllMedia == MixedMedia \cup ResendMedia
OneKind == LET given == popped \cup ({front} \cap AllMedia)
           IN  given \subseteq MixedMedia \/ (given \subseteq ResendMedia /\ apiCalls = 0)
=============================================================================
