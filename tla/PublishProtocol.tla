--------------------------- MODULE PublishProtocol --------------------------
(***************************************************************************)
(* What a connection promises the server: its commands come in the order   *)
(* of the protocol, each once, and a new connection starts over.           *)
(***************************************************************************)
VARIABLE stage

PPInit == stage = "open"

Reconnect == stage' = "open"
Command(from, to) == stage = from /\ stage' = to

PPNext == \/ Reconnect
          \/ Command("open", "connected")
          \/ Command("connected", "created")
          \/ Command("created", "published")

PPSpec == PPInit /\ [][PPNext]_stage
=============================================================================
