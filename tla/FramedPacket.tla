---------------------------- MODULE FramedPacket ----------------------------
(***************************************************************************)
(* What a BytesWriter promises its two sides, without its stages: the sink *)
(* receives the packet write_bytes would write for the payload, a growing  *)
(* prefix of it at a time and never anything else; the caller is told of  *)
(* exactly the payload bytes the sink holds; and a shutdown reports        *)
(* success iff the sink holds the whole packet.                            *)
(***************************************************************************)
EXTENDS Naturals, Sequences, WireBytes

CONSTANTS
  PayloadLens,  \* the payload lengths a packet may announce
  Stream        \* the bytes the caller has to offer, in order

VARIABLES
  payload_len,  \* the announced payload length
  wire,         \* the bytes the sink holds
  acked,        \* the payload bytes the caller has been told were written
  closed        \* "open", or the outcome of the shutdown: "clean", "unclean"

vars == <<payload_len, wire, acked, closed>>

\* The packet of write_bytes for the first payload_len bytes of the stream.
Packet == WriteBytes(SubSeq(Stream, 1, payload_len))

\* How many payload bytes the first n bytes of the packet hold.
PayloadCount(n) ==
  IF n <= 8 THEN 0 ELSE IF n - 8 <= payload_len THEN n - 8 ELSE payload_len

Init ==
  /\ payload_len \in PayloadLens
  /\ wire = <<>>
  /\ acked = 0
  /\ closed = "open"

\* The sink receives some more bytes of the packet; the caller's count
\* follows the payload part.
Deliver ==
  /\ closed = "open"
  /\ \E n \in (Len(wire) + 1)..Len(Packet) :
       /\ wire' = SubSeq(Packet, 1, n)
       /\ acked' = PayloadCount(n)
  /\ UNCHANGED <<payload_len, closed>>

\* The shutdown: clean iff the whole packet was delivered.
Close ==
  /\ closed = "open"
  /\ closed' = IF wire = Packet THEN "clean" ELSE "unclean"
  /\ UNCHANGED <<payload_len, wire, acked>>

Next == Deliver \/ Close

Spec == Init /\ [][Next]_vars

=============================================================================
