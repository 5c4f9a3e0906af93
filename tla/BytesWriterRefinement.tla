----------------------- MODULE BytesWriterRefinement -----------------------
(***************************************************************************)
(* Proof that BytesWriter implements FramedPacket over a sink that takes  *)
(* whole buffers: the frame the writer puts out is the packet of          *)
(* write_bytes, the caller's count is the payload part of the wire, and   *)
(* poll_shutdown reports Ok exactly when the packet is complete.          *)
(***************************************************************************)
EXTENDS BytesWriterProofs

\* The only state in which the Payload stage has reached its end is the
\* empty payload right after the size field, and poll_flush leaves it for
\* Padding(0) before it flushes or shuts the sink down.
PayloadEndOnlyEmpty ==
  (state.tag = "Payload" /\ state.pos = payload_len) =>
     (payload_len = 0 /\ pc \notin {"flush_inner", "shutdown_inner", "done"})

\* The packet of write_bytes is the frame BytesWriter writes.
LEMMA PacketIsFrame ==
  ASSUME payload_len \in Nat, payload_len <= Len(Stream)
  PROVE  Abstract!Packet = Frame(payload_len)
<1>1. Len(SubSeq(Stream, 1, payload_len)) = payload_len
  BY StreamAssumption, SubSeqProperties
<1>2. Abstract!SizeField(payload_len) = SizeField(payload_len)
  BY DEF Abstract!SizeField, SizeField
<1>3. Abstract!Zeros(Abstract!PadLen(payload_len)) = Zeros(PadLen(payload_len))
  BY DEF Abstract!Zeros, Zeros, Abstract!PadLen, PadLen
<1>. QED  BY <1>1, <1>2, <1>3 DEF Abstract!Packet, Abstract!WriteBytes, Frame

\* The caller's count is the number of payload bytes on the wire.
LEMMA SentIsCount ==
  IInv => sent = Abstract!PayloadCount(Len(wire))
<1> SUFFICES ASSUME IInv PROVE sent = Abstract!PayloadCount(Len(wire))
  OBVIOUS
<1>1. payload_len \in Nat /\ state \in WriterStates
  BY PayloadLensAssumption DEF IInv, TypeOK
<1>2. Len(wire) = Written /\ sent = PayloadPos
  BY DEF IInv
<1>3. CASE state.tag = "Size"
  BY <1>1, <1>2, <1>3 DEF WriterStates, Written, PayloadPos, LEN_SIZE,
                          Abstract!PayloadCount
<1>4. CASE state.tag = "Payload"
  <2>1. state.pos \in Nat /\ state.pos <= payload_len
    BY <1>1, <1>4 DEF WriterStates, IInv
  <2>. QED  BY <1>2, <1>4, <2>1 DEF Written, PayloadPos, LEN_SIZE,
                                   Abstract!PayloadCount
<1>5. CASE state.tag = "Padding"
  <2>1. state.pos \in Nat
    BY <1>1, <1>5 DEF WriterStates
  <2>. QED  BY <1>1, <1>2, <1>5, <2>1 DEF Written, PayloadPos, LEN_SIZE,
                                         Abstract!PayloadCount
<1>. QED  BY <1>1, <1>3, <1>4, <1>5 DEF WriterStates


LEMMA EndInit == Init => PayloadEndOnlyEmpty
BY DEF Init, PayloadEndOnlyEmpty, Size

LEMMA EndStep == TypeOK /\ PayloadEndOnlyEmpty /\ [Next]_vars => PayloadEndOnlyEmpty'
<1> SUFFICES ASSUME TypeOK, PayloadEndOnlyEmpty, [Next]_vars
             PROVE  PayloadEndOnlyEmpty'
  OBVIOUS
<1>a. payload_len \in Nat /\ state \in WriterStates
  BY PayloadLensAssumption DEF TypeOK
<1>r. ASSUME SinkRefuses \/ SinkNotReady PROVE PayloadEndOnlyEmpty'
  BY <1>r DEF SinkRefuses, SinkNotReady, Return, PayloadEndOnlyEmpty
<1>1. CASE CallWrite \/ CallFlush \/ CallShutdown
  BY <1>1 DEF CallWrite, CallFlush, CallShutdown, PayloadEndOnlyEmpty
<1>2. CASE SizeStep
  <2>1. CASE SinkRefuses
    BY <2>1, <1>r
  <2>2. CASE ~SinkRefuses
    <3>1. /\ state'.tag = "Size" \/ state' = Payload(0)
          /\ payload_len' = payload_len /\ pc' = pc
      BY <1>2, <2>2 DEF SizeStep, Payload, Size
    <3>2. pc \in {"write", "flush"}
      BY <1>2 DEF SizeStep
    <3>. QED  BY <3>1, <3>2 DEF PayloadEndOnlyEmpty, Payload
  <2>. QED  BY <2>1, <2>2
<1>3. CASE WritePayload
  <2>1. CASE state.pos + Len(buf) > payload_len
    BY <1>3, <2>1 DEF WritePayload, Return, PayloadEndOnlyEmpty
  <2>2. CASE ~(state.pos + Len(buf) > payload_len) /\ SinkRefuses
    BY <2>2, <1>r
  <2>3. CASE ~(state.pos + Len(buf) > payload_len) /\ ~SinkRefuses
    <3>1. /\ \/ state'.tag = "Padding"
             \/ state'.tag = "Payload" /\ state'.pos # payload_len
          /\ payload_len' = payload_len
      BY <1>3, <2>3 DEF WritePayload, Payload, Padding
    <3>. QED  BY <3>1 DEF PayloadEndOnlyEmpty
  <2>. QED  BY <2>1, <2>2, <2>3
<1>4. CASE WritePadding
  BY <1>4 DEF WritePadding, Return, PayloadEndOnlyEmpty
<1>5. CASE FlushPayload
  BY <1>5, <1>a DEF FlushPayload, Padding, PayloadEndOnlyEmpty
<1>6. CASE FlushPadding
  <2>1. CASE SinkRefuses
    BY <2>1, <1>r
  <2>2. CASE ~SinkRefuses
    <3>1. state'.tag = "Padding" \/ state' = state
      BY <1>6, <2>2 DEF FlushPadding, Padding
    <3>. QED  BY <1>6, <3>1 DEF FlushPadding, PayloadEndOnlyEmpty
  <2>. QED  BY <2>1, <2>2
<1>7. CASE FlushInner \/ ShutdownInner
  BY <1>7, <1>r DEF FlushInner, ShutdownInner, Return, PayloadEndOnlyEmpty
<1>8. CASE UNCHANGED vars
  BY <1>8 DEF vars, PayloadEndOnlyEmpty
<1>. QED  BY <1>1, <1>2, <1>3, <1>4, <1>5, <1>6, <1>7, <1>8 DEF Next, Step

-----------------------------------------------------------------------------
\* The state lemmas above, in the state after a step.
LEMMA FramePrefixPrimed == IInv' => WireIsFramePrefix'
BY IInvFramePrefix, PTL

LEMMA SentIsCountPrimed == IInv' => (sent = Abstract!PayloadCount(Len(wire)))'
BY SentIsCount, PTL

\* A step that puts more bytes on the sink, and neither starts nor ends
\* in the shut-down writer, is a Deliver step of the packet.
LEMMA DeliverStep ==
  ASSUME IInv, IInv', payload_len' = payload_len,
         Len(wire') > Len(wire), Closed = "open", Closed' = "open"
  PROVE  Abstract!Deliver
<1>1. payload_len \in Nat /\ payload_len <= Len(Stream) /\ wire' \in Seq(Byte)
  BY PayloadLensAssumption, StreamLongEnough DEF IInv, TypeOK
<1>2. Abstract!Packet = Frame(payload_len)
  BY <1>1, PacketIsFrame
<1>3. Len(wire') <= Len(Frame(payload_len))
      /\ wire' = SubSeq(Frame(payload_len), 1, Len(wire'))
  BY FramePrefixPrimed, <1>1 DEF WireIsFramePrefix
<1>4. sent' = Abstract!PayloadCount(Len(wire'))
  BY SentIsCountPrimed DEF Abstract!PayloadCount
<1>5. Len(wire') \in (Len(wire) + 1)..Len(Abstract!Packet)
  BY <1>1, <1>2, <1>3
<1>. QED  BY <1>2, <1>3, <1>4, <1>5 DEF Abstract!Deliver, Closed

\* Once poll_flush is done, the writer is in Padding(padding_len) exactly
\* when the sink holds the whole frame.
LEMMA CompleteIffPadded ==
  ASSUME IInv, PayloadEndOnlyEmpty, pc = "shutdown_inner"
  PROVE  (state = Padding(PadLen(payload_len))) <=> (wire = Frame(payload_len))
<1> DEFINE F == Frame(payload_len)  P == PadLen(payload_len)
<1>1. payload_len \in Nat /\ payload_len <= Len(Stream) /\ state \in WriterStates
      /\ wire \in Seq(Byte)
  BY PayloadLensAssumption, StreamLongEnough DEF IInv, TypeOK
<1>2. F \in Seq(Byte) /\ Len(F) = LEN_SIZE + payload_len + P /\ P \in Nat
  BY <1>1, FrameFacts DEF PadLen
<1>3. wire = SubSeq(F, 1, Len(wire)) /\ Len(wire) <= Len(F)
  BY IInvFramePrefix DEF WireIsFramePrefix
<1>4. wire = F <=> Len(wire) = Len(F)
  <2>1. Len(wire) = Len(F) => wire = F
    BY <1>2, <1>3, SubSeqFull
  <2>. QED  BY <2>1
<1>5. Len(wire) = Written
  BY DEF IInv
<1>6. CASE state.tag = "Size"
  BY <1>1, <1>2, <1>4, <1>5, <1>6 DEF Written, WriterStates, Padding, LEN_SIZE
<1>7. CASE state.tag = "Payload"
  <2>1. state.pos \in Nat /\ state.pos < payload_len
    BY <1>1, <1>7 DEF IInv, PayloadEndOnlyEmpty, WriterStates
  <2>2. Len(wire) # Len(F)
    BY <1>1, <1>2, <1>5, <1>7, <2>1 DEF Written, LEN_SIZE
  <2>3. state # Padding(P)
    BY <1>7 DEF Padding
  <2>. QED  BY <1>4, <2>2, <2>3 DEF F, P
<1>8. CASE state.tag = "Padding"
  <2>1. state.pos \in {0, P} /\ state = [tag |-> "Padding", pos |-> state.pos]
    BY <1>1, <1>8 DEF IInv, WriterStates
  <2>2. Len(wire) = Len(F) <=> state.pos = P
    BY <1>1, <1>2, <1>5, <1>8, <2>1 DEF Written, LEN_SIZE
  <2>3. state = Padding(P) <=> state.pos = P
    BY <2>1 DEF Padding
  <2>. QED  BY <1>4, <2>2, <2>3 DEF F, P
<1>. QED  BY <1>1, <1>6, <1>7, <1>8 DEF WriterStates

-----------------------------------------------------------------------------
\* Every step of BytesWriter is a step of FramedPacket or leaves what the
\* sink and the caller see unchanged.
LEMMA RefineStep ==
  ASSUME ~PartialWrites
  PROVE  IInv /\ PayloadEndOnlyEmpty /\ IInv' /\ [Next]_vars
           => [Abstract!Next]_Abstract!vars
<1> SUFFICES ASSUME IInv, PayloadEndOnlyEmpty, IInv', [Next]_vars
             PROVE  [Abstract!Next]_Abstract!vars
  OBVIOUS
<1>a. /\ payload_len \in Nat /\ state \in WriterStates
      /\ wire \in Seq(Byte) /\ buf \in Seq(Byte)
  BY PayloadLensAssumption DEF IInv, TypeOK
<1>w. Len(wire) = Written /\ Len(wire') = Written'
  BY DEF IInv
<1>s. ASSUME UNCHANGED <<payload_len, wire, sent>>, Closed' = Closed
      PROVE  [Abstract!Next]_Abstract!vars
  BY <1>s DEF Abstract!vars
<1>d. ASSUME payload_len' = payload_len, Len(wire') > Len(wire),
             pc # "done", pc' # "done"
      PROVE  [Abstract!Next]_Abstract!vars
  BY <1>d, DeliverStep DEF Closed, Abstract!Next
<1>r. ASSUME pc # "done", SinkRefuses \/ SinkNotReady
      PROVE  [Abstract!Next]_Abstract!vars
  BY <1>r, <1>s DEF SinkRefuses, SinkNotReady, Return, Closed
<1>1. CASE CallWrite \/ CallFlush \/ CallShutdown
  BY <1>1, <1>s DEF CallWrite, CallFlush, CallShutdown, Closed
<1>2. CASE SizeStep
  <2>1. CASE SinkRefuses
    BY <1>2, <2>1, <1>r DEF SizeStep
  <2>2. CASE ~SinkRefuses
    <3> DEFINE rest == SubSeq(SizeField(payload_len), state.pos + 1, LEN_SIZE)
    <3>0. state.pos \in 0..(LEN_SIZE - 1)
      BY <1>2, <1>a DEF SizeStep, WriterStates
    <3>1. rest \in Seq(Byte)
      <4>1. SizeField(payload_len) \in Seq(Byte)
            /\ Len(SizeField(payload_len)) = LEN_SIZE
        BY <1>a, SizeFieldType DEF LEN_SIZE
      <4>2. /\ state.pos + 1 \in 1..(Len(SizeField(payload_len)) + 1)
            /\ LEN_SIZE \in (state.pos + 1 - 1)..Len(SizeField(payload_len))
        BY <3>0, <4>1 DEF LEN_SIZE
      <4>. QED  BY <3>0, <4>1, <4>2, SubSeqType DEF rest
    <3>2. PICK k \in Accepted(rest) :
            /\ state' = IF state.pos + k = LEN_SIZE THEN Payload(0)
                                                   ELSE Size(state.pos + k)
            /\ UNCHANGED <<payload_len, pc>>
      BY <1>2, <2>2 DEF SizeStep
    <3>3. k \in 1..Len(rest)
      BY <3>1, AcceptedRange
    <3>4. Len(wire') > Len(wire)
      <4>1. Len(wire) = state.pos
        BY <1>w, <1>2 DEF Written, SizeStep
      <4>2. CASE state.pos + k = LEN_SIZE
        <5>1. Len(wire') = LEN_SIZE
          BY <1>w, <3>2, <4>2 DEF Written, Payload, LEN_SIZE
        <5>. QED  BY <3>0, <4>1, <5>1 DEF LEN_SIZE
      <4>3. CASE state.pos + k # LEN_SIZE
        <5>1. Len(wire') = state.pos + k
          BY <1>w, <3>2, <4>3 DEF Written, Size
        <5>. QED  BY <3>0, <3>1, <3>3, <4>1, <5>1
      <4>. QED  BY <4>2, <4>3
    <3>. QED  BY <1>d, <1>2, <3>2, <3>4 DEF SizeStep
  <2>. QED  BY <2>1, <2>2
<1>3. CASE WritePayload
  <2>1. CASE state.pos + Len(buf) > payload_len
    BY <1>3, <2>1, <1>s DEF WritePayload, Return, Closed
  <2>2. CASE ~(state.pos + Len(buf) > payload_len) /\ SinkRefuses
    BY <1>3, <2>2, <1>r DEF WritePayload
  <2>3. CASE ~(state.pos + Len(buf) > payload_len) /\ ~SinkRefuses
    <3>1. PICK k \in Accepted(buf) :
            /\ state' = IF state.pos + k = payload_len
                          THEN Padding(0) ELSE Payload(state.pos + k)
            /\ Return("Ok", k)
            /\ UNCHANGED payload_len
      BY <1>3, <2>3 DEF WritePayload
    <3>2. k \in 1..Len(buf) /\ state.pos \in Nat
      BY <1>a, <1>3, AcceptedRange DEF WritePayload, WriterStates
    <3>3. Len(wire') > Len(wire)
      BY <1>a, <1>w, <1>3, <3>1, <3>2
         DEF WritePayload, Written, Payload, Padding, LEN_SIZE
    <3>. QED  BY <1>d, <1>3, <3>1, <3>3 DEF WritePayload, Return
  <2>. QED  BY <2>1, <2>2, <2>3
<1>4. CASE WritePadding
  BY <1>4, <1>s DEF WritePadding, Return, Closed
<1>5. CASE FlushPayload
  BY <1>5, <1>s DEF FlushPayload, Closed
<1>6. CASE FlushPadding
  <2> DEFINE P == PadLen(payload_len)
  <2>1. CASE state.pos # P /\ SinkRefuses
    BY <1>6, <2>1, <1>r DEF FlushPadding
  <2>2. CASE state.pos # P /\ ~SinkRefuses
    <3>1. PICK k \in Accepted(Zeros(P)) :
            /\ state' = Padding(state.pos + k)
            /\ UNCHANGED <<payload_len, pc>>
      BY <1>6, <2>2 DEF FlushPadding
    <3>2. P \in Nat
      BY <1>a DEF PadLen
    <3>3. k \in 1..P /\ state.pos \in Nat
      BY <1>a, <1>6, <3>2, ZerosType, AcceptedRange DEF FlushPadding, WriterStates
    <3>4. Len(wire') > Len(wire)
      BY <1>a, <1>w, <1>6, <3>1, <3>3
         DEF FlushPadding, Written, Padding, LEN_SIZE
    <3>. QED  BY <1>d, <1>6, <3>1, <3>4 DEF FlushPadding
  <2>3. CASE state.pos = P
    BY <1>6, <2>3, <1>s DEF FlushPadding, Closed
  <2>. QED  BY <2>1, <2>2, <2>3
<1>7. CASE FlushInner
  BY <1>7, <1>r, <1>s DEF FlushInner, Return, Closed
<1>8. CASE ShutdownInner
  <2>1. CASE SinkNotReady
    BY <1>8, <2>1, <1>r DEF ShutdownInner
  <2>2. CASE ~SinkNotReady
    <3>1. /\ ret'.outcome = IF state = Padding(PadLen(payload_len))
                              THEN "Ok" ELSE "UncleanShutdown"
          /\ pc' = "done" /\ pc = "shutdown_inner"
          /\ UNCHANGED <<payload_len, wire, sent>>
      BY <1>8, <2>2 DEF ShutdownInner
    <3>2. (state = Padding(PadLen(payload_len))) <=> (wire = Frame(payload_len))
      BY <3>1, CompleteIffPadded
    <3>3. Abstract!Packet = Frame(payload_len)
      BY <1>a, StreamLongEnough, PacketIsFrame DEF IInv, TypeOK
    <3>4. Abstract!Close
      BY <3>1, <3>2, <3>3 DEF Abstract!Close, Closed
    <3>. QED  BY <3>4 DEF Abstract!Next
  <2>. QED  BY <2>1, <2>2
<1>9. CASE UNCHANGED vars
  BY <1>9, <1>s DEF vars, Closed
<1>. QED  BY <1>1, <1>2, <1>3, <1>4, <1>5, <1>6, <1>7, <1>8, <1>9 DEF Next, Step

-----------------------------------------------------------------------------
(***************************************************************************)
(* Over a sink that takes whole buffers, BytesWriter implements           *)
(* FramedPacket for every payload length and stream: poll_write,          *)
(* poll_flush and poll_shutdown only ever hand the sink a longer prefix   *)
(* of the write_bytes packet, tell the caller exactly the payload part of *)
(* it, and poll_shutdown returns Ok iff the packet is complete.  The      *)
(* argument: the frame invariant IInv of BytesWriterProofs gives the      *)
(* prefix and the count; PayloadEndOnlyEmpty rules out the one state      *)
(* (Payload(payload_len)) in which the stage would misreport completion   *)
(* at shutdown.                                                            *)
(***************************************************************************)
THEOREM Refines ==
  ASSUME ~PartialWrites
  PROVE  Spec => Refinement
<1>1. Init => IInv /\ PayloadEndOnlyEmpty
  BY IInvInit, EndInit
<1>2. Init => Abstract!Init
  BY DEF Init, Abstract!Init, Closed
<1>3. IInv /\ PayloadEndOnlyEmpty /\ [Next]_vars => (IInv /\ PayloadEndOnlyEmpty)'
  BY IInvStep, EndStep DEF IInv
<1>4. IInv /\ PayloadEndOnlyEmpty /\ IInv' /\ [Next]_vars
        => [Abstract!Next]_Abstract!vars
  BY RefineStep
<1>. QED  BY <1>1, <1>2, <1>3, <1>4, PTL DEF Spec, Refinement, Abstract!Spec

=============================================================================
