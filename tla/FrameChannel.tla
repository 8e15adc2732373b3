---------------------------- MODULE FrameChannel ----------------------------
(***************************************************************************)
(* One direction of the control socket as Worker sees it: a queue of whole *)
(* packets.  A packet arrives after it was sent completely, once, and in   *)
(* order, whatever happens to the bytes.  PacketStream implements this.    *)
(***************************************************************************)
EXTENDS Naturals, Sequences

VARIABLES queue,    \* packets sent and not received yet
          taken     \* the last packet received, 0 before the first

fvars == <<queue, taken>>

FInit == queue = <<>> /\ taken = 0

(* send_packet() returned *)
Put == queue' = Append(queue, taken + Len(queue) + 1) /\ UNCHANGED taken

(* receive() returned *)
Take ==
    /\ queue # <<>>
    /\ taken' = Head(queue)
    /\ queue' = Tail(queue)

FSpec == FInit /\ [][Put \/ Take]_fvars
=============================================================================
