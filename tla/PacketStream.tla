---------------------------- MODULE PacketStream ----------------------------
(***************************************************************************)
(* protocol/packet_manager.hpp over protocol/io_utils.hpp: one direction   *)
(* of the socket pair, byte by byte.  A packet is a header followed by a   *)
(* payload whose size the header names; the two halves share one deadline. *)
(* A byte is known by the packet and the place it was written for.  The    *)
(* receiver does not see that: it compares the leading bytes of a header,  *)
(* the same in every packet, and takes the rest as it comes.               *)
(*                                                                         *)
(* The descriptors are blocking: after poll() a send() stays in the kernel *)
(* until it has copied everything.  A side whose operation failed closes   *)
(* its end (worker::send(), child_loop(), worker::receive() all do).       *)
(***************************************************************************)
EXTENDS Naturals, Sequences, FiniteSetsExt

CONSTANTS HeaderLen,    \* sizeof(packet_header)
          Leading,      \* the values of magic, version and header_size
          MaxPayload,   \* bound: size of a payload
          MaxPackets,   \* bound: packets sent
          MaxNoise,     \* bound: bytes the target writes by itself
          Capacity      \* what the kernel buffers

ASSUME StreamAssumption ==
    /\ HeaderLen \in Nat \ {0} /\ Capacity \in Nat \ {0}
    /\ Leading \in Seq(Nat) /\ Len(Leading) <= HeaderLen
    /\ MaxPayload \in Nat /\ MaxPackets \in Nat /\ MaxNoise \in Nat

VARIABLES
    sendTimed,  \* the sender's timeout is not zero
    recvTimed,  \* the receiver's timeout is not zero
    buf,        \* bytes in the socket
    spc,        \* the sender: "outside", "test" (loop head), "write", "closed"
    sizes,      \* payload sizes of the packets begun so far
    out,        \* bytes of the last one handed to the kernel
    sLate,      \* the deadline of send_packet() has passed
    rpc,        \* the receiver: "outside", "test", "read", "check", "closed"
    got,        \* bytes of the packet being received
    body,       \* its payload size, once its header has passed
    rLate,      \* the deadline of receive() has passed
    noise, sent, received,  \* history: noise written, packets sent, packets received
    clean                   \* history: packets sent before the first foreign byte

timed    == <<sendTimed, recvTimed>>
sender   == <<spc, sizes, out, sLate>>
receiver == <<rpc, got, body, rLate>>
history  == <<noise, sent, received, clean>>
vars     == <<timed, buf, sender, receiver, history>>

-----------------------------------------------------------------------------
Byte(n, i) == [packet |-> n, at |-> i]
Noise      == Byte(0, 0)

Current  == Len(sizes)                       \* the packet being sent
PartEnd  == IF out < HeaderLen THEN HeaderLen ELSE HeaderLen + sizes[Current]

Wanted == (IF Len(got) < HeaderLen THEN HeaderLen ELSE HeaderLen + body) - Len(got)

(* A leading byte holds what stands at its place in every header; a task   *)
(* id, a payload or a foreign byte may hold anything.                      *)
IsLeading(b) == b.packet # 0 /\ b.at \in DOMAIN Leading
MayPass(h) ==
    \A i \in DOMAIN Leading : IsLeading(h[i]) => Leading[h[i].at] = Leading[i]

(* One packet as it was written.                                           *)
IsPacket(s, n) == n \in DOMAIN sizes /\ s = [i \in 1..(HeaderLen + sizes[n]) |-> Byte(n, i)]
IsHeader(h) ==
    h[1].packet \in DOMAIN sizes /\ \A i \in 1..HeaderLen : h[i] = Byte(h[1].packet, i)

(* validate_header(): the payload sizes with which these bytes pass.  The  *)
(* kinds, flags, task id and size are not compared with anything, so bytes *)
(* out of step that hold the leading ones pass with some size or other.    *)
PassesWith(h) ==
    IF IsHeader(h) THEN {sizes[h[1].packet]}
    ELSE IF MayPass(h) THEN 0..MaxPayload ELSE {}

Init ==
    /\ sendTimed \in BOOLEAN /\ recvTimed \in BOOLEAN
    /\ buf = <<>>
    /\ spc = "outside" /\ sizes = <<>> /\ out = 0 /\ sLate = FALSE
    /\ rpc = "outside" /\ got = <<>> /\ body = 0 /\ rLate = FALSE
    /\ noise = 0 /\ sent = 0 /\ received = <<>> /\ clean = 0

-----------------------------------------------------------------------------
(* send_packet(): write_all_for() or, without a timeout, write_all()       *)

StartWrite == IF sendTimed THEN "test" ELSE "write"

SendBegin(k) ==
    /\ spc = "outside" /\ Current < MaxPackets
    /\ sizes' = Append(sizes, k)
    /\ out' = 0 /\ sLate' = FALSE
    /\ spc' = StartWrite
    /\ UNCHANGED <<buf, receiver, history>>

(* Mutant: the sender goes on with the next packet. *)
SendFails_KeepsChannel == spc' = "outside" /\ UNCHANGED <<sizes, out, sLate>>

(* timeout_error or disconnected_error: the user gives the channel up.     *)
SendFails == spc' = "closed" /\ UNCHANGED <<sizes, out, sLate>>

(* Mutant: poll() waits without a limit. *)
WriteTest_NoDeadline ==
    /\ spc = "test"
    /\ \/ rpc = "closed" /\ SendFails
       \/ rpc # "closed" /\ Len(buf) < Capacity /\ spc' = "write" /\ UNCHANGED <<sizes, out, sLate>>
    /\ UNCHANGED <<buf, receiver, history>>

(* The deadline, then poll(POLLOUT) for what is left of it.                *)
WriteTest ==
    /\ spc = "test"
    /\ \/ (sLate \/ rpc = "closed") /\ SendFails
       \/ /\ ~sLate /\ rpc # "closed" /\ Len(buf) < Capacity
          /\ spc' = "write"
          /\ UNCHANGED <<sizes, out, sLate>>
    /\ UNCHANGED <<buf, receiver, history>>

(* Inside send(): the kernel takes bytes as room appears, EPIPE if nobody  *)
(* is left to read them; the call ends with the last byte of its part.     *)
WriteByte ==
    /\ spc = "write" /\ rpc # "closed" /\ Len(buf) < Capacity
    /\ buf' = Append(buf, Byte(Current, out + 1))
    /\ out' = out + 1
    /\ IF out + 1 = HeaderLen + sizes[Current]
       THEN /\ spc' = "outside"
            /\ sent' = sent + 1
            /\ clean' = IF noise = 0 THEN sent + 1 ELSE clean
       ELSE /\ spc' = IF out + 1 = PartEnd THEN StartWrite ELSE "write"
            /\ UNCHANGED <<sent, clean>>
    /\ UNCHANGED <<sizes, sLate, receiver, noise, received>>

WriteBroken ==
    /\ spc = "write" /\ rpc = "closed"
    /\ SendFails
    /\ UNCHANGED <<buf, receiver, history>>

SendDeadline ==
    /\ spc \in {"test", "write"} /\ sendTimed /\ ~sLate
    /\ sLate' = TRUE
    /\ UNCHANGED <<buf, spc, sizes, out, receiver, history>>

-----------------------------------------------------------------------------
(* receive(): read_all_for() or, without a timeout, read_all()             *)

(* Mutant: no time left for the payload is no timeout for the payload. *)
StartRead_ZeroIsForever == IF recvTimed /\ ~rLate THEN "test" ELSE "read"

StartRead == IF recvTimed THEN "test" ELSE "read"

(* The parent calls receive() on a readable descriptor, the child always.  *)
ReceiveBegin ==
    /\ rpc = "outside"
    /\ recvTimed => buf # <<>> \/ spc = "closed"
    /\ rpc' = StartRead
    /\ got' = <<>> /\ body' = 0 /\ rLate' = FALSE
    /\ UNCHANGED <<buf, sender, history>>

ReceiveFails == rpc' = "closed" /\ UNCHANGED <<got, body, rLate>>

(* The deadline, then poll(POLLIN) for what is left of it.                 *)
ReadTest ==
    /\ rpc = "test"
    /\ \/ rLate /\ ReceiveFails
       \/ /\ ~rLate /\ (buf # <<>> \/ spc = "closed")
          /\ rpc' = "read"
          /\ UNCHANGED <<got, body, rLate>>
    /\ UNCHANGED <<buf, sender, history>>

(* Mutant: what the first read() returns is taken for the whole payload.   *)
ReadBytes_OneReadIsAll ==
    /\ rpc = "read" /\ buf # <<>>
    /\ \E k \in 1..Min({Len(buf), Wanted}) :
          /\ got' = got \o SubSeq(buf, 1, k)
          /\ buf' = SubSeq(buf, k + 1, Len(buf))
          /\ rpc' = IF k = Wanted \/ Len(got) >= HeaderLen THEN "check" ELSE StartRead
    /\ UNCHANGED <<body, rLate, sender, history>>

(* read() returns some of what is there, at most what is missing.          *)
ReadBytes ==
    /\ rpc = "read" /\ buf # <<>>
    /\ \E k \in 1..Min({Len(buf), Wanted}) :
          /\ got' = got \o SubSeq(buf, 1, k)
          /\ buf' = SubSeq(buf, k + 1, Len(buf))
          /\ rpc' = IF k = Wanted THEN "check" ELSE StartRead
    /\ UNCHANGED <<body, rLate, sender, history>>

(* read() returns 0. *)
ReadEof ==
    /\ rpc = "read" /\ buf = <<>> /\ spc = "closed"
    /\ ReceiveFails
    /\ UNCHANGED <<buf, sender, history>>

(* The number of the packet, 0 if the bytes are not those of one packet.   *)
Content == IF IsPacket(got, got[1].packet) THEN got[1].packet ELSE 0

Deliver ==
    /\ received' = Append(received, Content)
    /\ rpc' = "outside"
    /\ got' = <<>> /\ body' = 0
    /\ UNCHANGED <<rLate, noise, sent, clean>>

CheckHeader ==
    /\ rpc = "check" /\ Len(got) = HeaderLen
    /\ \/ ~IsHeader(got) /\ ReceiveFails /\ UNCHANGED history
       \/ 0 \in PassesWith(got) /\ Deliver
       \/ /\ body' \in PassesWith(got) \ {0}
          /\ rpc' = StartRead
          /\ UNCHANGED <<got, rLate, history>>
    /\ UNCHANGED <<buf, sender>>

(* decode_packet() accepts the payload, or throws protocol_error.          *)
CheckPayload ==
    /\ rpc = "check" /\ Len(got) > HeaderLen
    /\ Deliver \/ (ReceiveFails /\ UNCHANGED history)
    /\ UNCHANGED <<buf, sender>>

RecvDeadline ==
    /\ rpc \in {"test", "read", "check"} /\ recvTimed /\ ~rLate
    /\ rLate' = TRUE
    /\ UNCHANGED <<buf, sender, rpc, got, body, history>>

-----------------------------------------------------------------------------
(* Either side may die or close its end at any byte, and threads the       *)
(* target left behind may write anything to the descriptor.                *)

SenderDies ==
    /\ spc # "closed" /\ SendFails
    /\ UNCHANGED <<buf, receiver, history>>

ReceiverDies ==
    /\ rpc # "closed" /\ ReceiveFails
    /\ UNCHANGED <<buf, sender, history>>

NoiseByte ==
    /\ noise < MaxNoise /\ spc # "closed" /\ rpc # "closed" /\ Len(buf) < Capacity
    /\ buf' = Append(buf, Noise)
    /\ noise' = noise + 1
    /\ UNCHANGED <<sender, receiver, sent, received, clean>>

-----------------------------------------------------------------------------
Sending   == WriteTest \/ WriteByte \/ WriteBroken
Receiving == ReadTest \/ ReadBytes \/ ReadEof \/ CheckHeader \/ CheckPayload

Step ==
    \/ \E k \in 0..MaxPayload : SendBegin(k)
    \/ ReceiveBegin
    \/ Sending \/ Receiving
    \/ SendDeadline \/ RecvDeadline
    \/ SenderDies \/ ReceiverDies \/ NoiseByte

Next == Step /\ UNCHANGED timed

Spec == Init /\ [][Next]_vars

(* A call that was entered goes on and time passes; nobody has to call     *)
(* send_packet() or receive().                                             *)
FairSpec ==
    /\ Spec
    /\ WF_vars(Sending /\ UNCHANGED timed) /\ WF_vars(Receiving /\ UNCHANGED timed)
    /\ WF_vars(SendDeadline /\ UNCHANGED timed) /\ WF_vars(RecvDeadline /\ UNCHANGED timed)

-----------------------------------------------------------------------------
(* Properties *)

(* Whatever is lost with a peer, cut off by a deadline or split by short   *)
(* reads, the packets sent before the first foreign byte are received      *)
(* whole, in order and once each, also with foreign bytes behind them.     *)
(* From there on the code promises nothing: a header out of step may pass. *)
ReceivedInOrder == \A i \in DOMAIN received : i <= clean => received[i] = i

(* Until a foreign byte comes the stream is the queue of whole packets     *)
(* Worker takes it for: nothing is received before it was sent completely. *)
Channel == INSTANCE FrameChannel WITH
    queue <- [i \in 1..(sent - Len(received)) |-> Len(received) + i],
    taken <- IF received = <<>> THEN 0 ELSE received[Len(received)]

ImplementsChannel ==
    Channel!FInit /\ [][noise' = 0 => Channel!Put \/ Channel!Take]_(Channel!fvars)

(* receive() with a timeout ends, also when the header took all the time   *)
(* and nothing is left for the payload.                                    *)
ReceiveEnds == recvTimed /\ rpc \in {"test", "read", "check"} ~> rpc \in {"outside", "closed"}

(* io_utils.hpp:141: "Writes exactly size bytes to fd before timeout       *)
(* expires."                                                               *)
SendEnds == sendTimed /\ spc \in {"test", "write"} ~> spc \in {"outside", "closed"}

(* What the code does keep: a send that never ends is inside send(), the   *)
(* buffer is full and the peer alive; no wait of its own holds it.         *)
Blocked == spc = "write" /\ rpc # "closed" /\ Len(buf) = Capacity

SendEndsOrBlocked == <>[](spc \in {"outside", "closed"} \/ Blocked)
=============================================================================
