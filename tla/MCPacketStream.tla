--------------------------- MODULE MCPacketStream ---------------------------
(* Instances of PacketStream for TLC. *)
EXTENDS PacketStream

(* Two leading bytes that differ, as those of packet_magic do. *)
MCLeading == <<1, 2>>
=============================================================================
