------------------------- MODULE BytesWriterProofs -------------------------
(***************************************************************************)
(* Proofs about BytesWriter, for every payload length, stream and bound.   *)
(***************************************************************************)
EXTENDS BytesWriter, SequenceTheorems, TLAPS

\* The size field is a sequence of eight bytes.
LEMMA SizeFieldType ==
  ASSUME NEW n \in Nat
  PROVE  SizeField(n) \in [1..LEN_SIZE -> Byte] /\ SizeField(n) \in Seq(Byte)
<1>1. SizeField(n) \in [1..LEN_SIZE -> Byte]
  BY DEF SizeField, LEN_SIZE, Byte
<1>2. QED
  BY <1>1, SeqDef DEF LEN_SIZE

\* Zeros(n) is a sequence of n bytes.
LEMMA ZerosType ==
  ASSUME NEW n \in Nat
  PROVE  Zeros(n) \in Seq(Byte) /\ Len(Zeros(n)) = n
BY DEF Zeros, Byte

(***************************************************************************)
(* The inductive invariant behind WireIsFramePrefix, for a sink that       *)
(* accepts whole buffers.  The writer's state counts exactly the bytes on  *)
(* the wire (the suspension-point invariant), the counters stay within     *)
(* their stages, padding is either not started or complete, the caller's   *)
(* count is the payload position, the buffer of a running poll_write is    *)
(* the next slice of the stream, and each byte on the wire is the frame's  *)
(* byte at that index.                                                     *)
(***************************************************************************)
Written ==
  IF state.tag = "Size" THEN state.pos
  ELSE IF state.tag = "Payload" THEN LEN_SIZE + state.pos
  ELSE LEN_SIZE + payload_len + state.pos

PayloadPos ==
  IF state.tag = "Size" THEN 0
  ELSE IF state.tag = "Payload" THEN state.pos
  ELSE payload_len

IInv ==
  /\ TypeOK
  /\ Len(wire) = Written
  /\ state.tag = "Payload" => state.pos <= payload_len
  /\ state.tag = "Padding" => state.pos \in {0, PadLen(payload_len)}
  /\ sent = PayloadPos
  /\ pc = "write" => /\ sent + Len(buf) <= Len(Stream)
                     /\ buf = SubSeq(Stream, sent + 1, sent + Len(buf))
  /\ \A i \in 1..Len(wire) : wire[i] = Frame(payload_len)[i]

\* A slice of a byte sequence is a byte sequence of the slice's length.
LEMMA SubSeqType ==
  ASSUME NEW s \in Seq(Byte), NEW m \in 1..(Len(s) + 1), NEW n \in (m - 1)..Len(s)
  PROVE  SubSeq(s, m, n) \in Seq(Byte) /\ Len(SubSeq(s, m, n)) = n - m + 1
<1>1. \A i \in m..n : s[i] \in Byte
  BY ElementOfSeq
<1>2. QED
  BY <1>1, SubSeqProperties

\* The i-th element of a slice of a byte sequence.
LEMMA SubSeqAt ==
  ASSUME NEW s \in Seq(Byte), NEW m \in 1..(Len(s) + 1), NEW n \in (m - 1)..Len(s),
         NEW i \in 1..(n - m + 1)
  PROVE  SubSeq(s, m, n)[i] = s[m + i - 1]
<1>1. \A j \in m..n : s[j] \in Byte
  BY ElementOfSeq
<1>2. QED
  BY <1>1, SubSeqProperties

\* The sink takes at least one and at most all of the bytes it is offered.
LEMMA AcceptedRange ==
  ASSUME NEW b \in Seq(Byte)
  PROVE  Accepted(b) \subseteq 1..Len(b)
BY PartialWritesAssumption, LenProperties DEF Accepted

\* A poll that returns leaves a well-typed result.
LEMMA ReturnType ==
  ASSUME TypeOK, NEW o \in Outcomes, NEW n \in Nat, Return(o, n)
  PROVE  pc' \in PCs /\ ret' \in [op : Ops, outcome : Outcomes, n : Nat]
BY DEF Return, TypeOK, PCs

\* Every step keeps the writer well typed.
LEMMA TypeStep == TypeOK /\ [Next]_vars => TypeOK'
<1> SUFFICES ASSUME TypeOK, [Next]_vars PROVE TypeOK'
  OBVIOUS
<1> USE DEF TypeOK
<1>a. payload_len \in Nat
  BY PayloadLensAssumption
\* The refusals of the sink change nothing but pc and ret.
<1>r. ASSUME SinkRefuses \/ SinkNotReady PROVE TypeOK'
  BY <1>r, ReturnType DEF SinkRefuses, SinkNotReady, Outcomes
<1>1. CASE CallWrite
  <2>1. PICK n \in 0..MaxBuf : /\ sent + n <= Len(Stream)
                               /\ buf' = SubSeq(Stream, sent + 1, sent + n)
    BY <1>1 DEF CallWrite
  <2>2. buf' \in Seq(Byte)
    BY <2>1, SubSeqType, StreamAssumption, LenProperties
  <2>3. QED
    BY <1>1, <2>2 DEF CallWrite, PCs, Ops
<1>2. CASE CallFlush
  BY <1>2 DEF CallFlush, PCs, Ops
<1>3. CASE CallShutdown
  BY <1>3 DEF CallShutdown, PCs, Ops
<1>4. CASE SizeStep
  <2> DEFINE rest == SubSeq(SizeField(payload_len), state.pos + 1, LEN_SIZE)
  <2>0. state.pos \in 0..(LEN_SIZE - 1)
    BY <1>4 DEF SizeStep, WriterStates
  <2>1. rest \in Seq(Byte) /\ Len(rest) = LEN_SIZE - state.pos
    <3>1. SizeField(payload_len) \in Seq(Byte) /\ Len(SizeField(payload_len)) = LEN_SIZE
      BY <1>a, SizeFieldType DEF LEN_SIZE
    <3>2. /\ state.pos + 1 \in 1..(Len(SizeField(payload_len)) + 1)
          /\ LEN_SIZE \in (state.pos + 1 - 1)..Len(SizeField(payload_len))
      BY <2>0, <3>1 DEF LEN_SIZE
    <3>3. QED
      BY <2>0, <3>1, <3>2, SubSeqType DEF rest
  <2>2. CASE SinkRefuses
    BY <2>2, <1>r
  <2>3. ASSUME NEW k \in Accepted(rest),
               wire' = wire \o SubSeq(rest, 1, k),
               state' = IF state.pos + k = LEN_SIZE THEN Payload(0)
                                                    ELSE Size(state.pos + k),
               UNCHANGED <<payload_len, pc, op, buf, sent, ret>>
        PROVE TypeOK'
    <3>1. k \in 1..(LEN_SIZE - state.pos)
      BY <2>1, AcceptedRange
    <3>2. SubSeq(rest, 1, k) \in Seq(Byte)
      <4>1. 1 \in 1..(Len(rest) + 1) /\ k \in (1 - 1)..Len(rest)
        BY <2>1, <3>1
      <4>2. QED
        BY <2>1, <4>1, SubSeqType
    <3>3. wire' \in Seq(Byte)
      BY <2>3, <3>2, ConcatProperties
    <3>4. state' \in WriterStates
      <4>1. CASE state.pos + k = LEN_SIZE
        <5>1. state' = [tag |-> "Payload", pos |-> 0]
          BY <2>3, <4>1 DEF Payload
        <5>2. QED
          BY <5>1 DEF WriterStates
      <4>2. CASE state.pos + k # LEN_SIZE
        <5>1. state' = [tag |-> "Size", pos |-> state.pos + k]
          BY <2>3, <4>2 DEF Size
        <5>2. state.pos + k \in 0..(LEN_SIZE - 1)
          BY <2>0, <3>1, <4>2 DEF LEN_SIZE
        <5>3. QED
          BY <5>1, <5>2 DEF WriterStates
      <4>3. QED
        BY <4>1, <4>2
    <3>5. QED
      BY <2>3, <3>3, <3>4
  <2>4. QED
    BY <1>4, <2>2, <2>3 DEF SizeStep
<1>5. CASE WritePayload
  <2>0. state.pos \in Nat
    BY <1>5 DEF WritePayload, WriterStates
  <2>1. CASE state.pos + Len(buf) > payload_len
    BY <1>5, <2>1, ReturnType DEF WritePayload, Outcomes
  <2>2. CASE SinkRefuses
    BY <2>2, <1>r
  <2>3. ASSUME NEW k \in Accepted(buf),
               wire' = wire \o SubSeq(buf, 1, k),
               state' = IF state.pos + k = payload_len
                          THEN Padding(0) ELSE Payload(state.pos + k),
               sent' = sent + k,
               Return("Ok", k),
               UNCHANGED <<payload_len, op, buf>>
        PROVE TypeOK'
    <3>1. k \in 1..Len(buf)
      BY AcceptedRange
    <3>2. wire' \in Seq(Byte)
      BY <2>3, <3>1, SubSeqType, ConcatProperties, LenProperties
    <3>3. state' \in WriterStates
      BY <2>0, <2>3, <3>1 DEF WriterStates, Payload, Padding
    <3>4. pc' \in PCs /\ ret' \in [op : Ops, outcome : Outcomes, n : Nat]
      BY <2>3, <3>1, ReturnType DEF Outcomes
    <3>5. QED
      BY <2>3, <3>1, <3>2, <3>3, <3>4
  <2>4. QED
    BY <1>5, <2>1, <2>2, <2>3 DEF WritePayload
<1>6. CASE WritePadding
  BY <1>6, ReturnType DEF WritePadding, Outcomes
<1>7. CASE FlushPayload
  <2>1. CASE payload_len = 0
    <3>1. state' = Padding(0) /\ UNCHANGED <<payload_len, wire, pc, op, buf, sent, ret>>
      BY <1>7, <2>1 DEF FlushPayload
    <3>2. state' \in WriterStates
      BY <3>1 DEF WriterStates, Padding
    <3>3. QED
      BY <3>1, <3>2
  <2>2. CASE payload_len # 0
    BY <1>7, <2>2 DEF FlushPayload, PCs
  <2>3. QED
    BY <2>1, <2>2
<1>8. CASE FlushPadding
  <2>0. state.pos \in Nat
    BY <1>8 DEF FlushPadding, WriterStates
  <2>1. PadLen(payload_len) \in Nat
    BY <1>a DEF PadLen
  <2>2. CASE SinkRefuses
    BY <2>2, <1>r
  <2>3. ASSUME NEW k \in Accepted(Zeros(PadLen(payload_len))),
               wire' = wire \o Zeros(k),
               state' = Padding(state.pos + k),
               UNCHANGED <<payload_len, pc, op, buf, sent, ret>>
        PROVE TypeOK'
    <3>1. k \in Nat
      BY <2>1, ZerosType, AcceptedRange
    <3>2. wire' \in Seq(Byte)
      BY <2>3, <3>1, ZerosType, ConcatProperties
    <3>3. QED
      BY <2>0, <2>3, <3>1, <3>2 DEF WriterStates, Padding
  <2>4. QED
    BY <1>8, <2>2, <2>3 DEF FlushPadding, PCs
<1>9. CASE FlushInner
  BY <1>9, <1>r, ReturnType DEF FlushInner, Outcomes, PCs
<1>10. CASE ShutdownInner
  BY <1>10, <1>r DEF ShutdownInner, Outcomes, PCs, Ops
<1>11. CASE UNCHANGED vars
  BY <1>11 DEF vars
<1>12. QED
  BY <1>1, <1>2, <1>3, <1>4, <1>5, <1>6, <1>7, <1>8, <1>9, <1>10, <1>11
  DEF Next, Step

\* Type correctness of the writer.
THEOREM TypeCorrect == Spec => []TypeOK
<1>1. Init => TypeOK
  BY PayloadLensAssumption
  DEF Init, TypeOK, Size, WriterStates, Ops, Outcomes, PCs, LEN_SIZE
<1>2. QED
  BY <1>1, TypeStep, PTL DEF Spec

-----------------------------------------------------------------------------
(* The frame, byte by byte: the size field, the payload, the padding.     *)
LEMMA FrameFacts ==
  ASSUME NEW n \in Nat, n <= Len(Stream)
  PROVE  /\ Frame(n) \in Seq(Byte)
         /\ Len(Frame(n)) = LEN_SIZE + n + PadLen(n)
         /\ \A i \in 1..LEN_SIZE : Frame(n)[i] = SizeField(n)[i]
         /\ \A i \in (LEN_SIZE + 1)..(LEN_SIZE + n) :
              Frame(n)[i] = Stream[i - LEN_SIZE]
         /\ \A i \in (LEN_SIZE + n + 1)..(LEN_SIZE + n + PadLen(n)) :
              Frame(n)[i] = 0
<1> DEFINE A == SizeField(n)
           B == SubSeq(Stream, 1, n)
           C == Zeros(PadLen(n))
<1>1. A \in Seq(Byte) /\ Len(A) = LEN_SIZE
  BY SizeFieldType DEF LEN_SIZE
<1>2. B \in Seq(Byte) /\ Len(B) = n
  <2>1. 1 \in 1..(Len(Stream) + 1) /\ n \in (1 - 1)..Len(Stream)
    BY StreamAssumption, LenProperties
  <2>2. QED
    BY <2>1, StreamAssumption, SubSeqType
<1>3. PadLen(n) \in Nat
  BY DEF PadLen
<1>4. C \in Seq(Byte) /\ Len(C) = PadLen(n) /\ \A i \in 1..PadLen(n) : C[i] = 0
  BY <1>3, ZerosType DEF Zeros
<1>5. \A i \in 1..n : B[i] = Stream[i]
  BY StreamAssumption, LenProperties, SubSeqProperties
<1>6. A \o B \in Seq(Byte) /\ Len(A \o B) = LEN_SIZE + n
      /\ \A i \in 1..(LEN_SIZE + n) :
           (A \o B)[i] = IF i <= LEN_SIZE THEN A[i] ELSE B[i - LEN_SIZE]
  <2>1. /\ A \o B \in Seq(Byte)
        /\ Len(A \o B) = Len(A) + Len(B)
        /\ \A i \in 1..(Len(A) + Len(B)) :
             (A \o B)[i] = IF i <= Len(A) THEN A[i] ELSE B[i - Len(A)]
    BY <1>1, <1>2, ConcatProperties, Zenon
  <2>2. QED
    BY <2>1, <1>1, <1>2
<1>7. Frame(n) = (A \o B) \o C
  BY DEF Frame
<1>8. /\ Frame(n) \in Seq(Byte)
      /\ Len(Frame(n)) = LEN_SIZE + n + PadLen(n)
      /\ \A i \in 1..(LEN_SIZE + n + PadLen(n)) :
           Frame(n)[i] = IF i <= LEN_SIZE + n THEN (A \o B)[i]
                                              ELSE C[i - (LEN_SIZE + n)]
  <2>1. /\ (A \o B) \o C \in Seq(Byte)
        /\ Len((A \o B) \o C) = Len(A \o B) + Len(C)
        /\ \A i \in 1..(Len(A \o B) + Len(C)) :
             ((A \o B) \o C)[i] = IF i <= Len(A \o B) THEN (A \o B)[i]
                                                     ELSE C[i - Len(A \o B)]
    BY <1>4, <1>6, ConcatProperties, Zenon
  <2>2. QED
    BY <2>1, <1>4, <1>6, <1>7
<1>9. \A i \in 1..LEN_SIZE : Frame(n)[i] = SizeField(n)[i]
  <2> TAKE i \in 1..LEN_SIZE
  <2>1. i \in 1..(LEN_SIZE + n + PadLen(n)) /\ i <= LEN_SIZE + n
    BY <1>3 DEF LEN_SIZE
  <2>2. Frame(n)[i] = (A \o B)[i]
    BY <1>8, <2>1
  <2>3. i \in 1..(LEN_SIZE + n)
    BY <2>1
  <2>4. QED
    BY <1>6, <2>2, <2>3
<1>10. \A i \in (LEN_SIZE + 1)..(LEN_SIZE + n) : Frame(n)[i] = Stream[i - LEN_SIZE]
  <2> TAKE i \in (LEN_SIZE + 1)..(LEN_SIZE + n)
  <2>1. i \in 1..(LEN_SIZE + n + PadLen(n)) /\ i <= LEN_SIZE + n
    BY <1>3 DEF LEN_SIZE
  <2>2. Frame(n)[i] = (A \o B)[i]
    BY <1>8, <2>1
  <2>3. (A \o B)[i] = B[i - LEN_SIZE] /\ i - LEN_SIZE \in 1..n
    BY <1>6, <2>1 DEF LEN_SIZE
  <2>4. QED
    BY <1>5, <2>2, <2>3
<1>11. \A i \in (LEN_SIZE + n + 1)..(LEN_SIZE + n + PadLen(n)) : Frame(n)[i] = 0
  BY <1>3, <1>4, <1>8 DEF LEN_SIZE
<1>12. QED
  BY <1>8, <1>9, <1>10, <1>11

\* Extending a prefix of F by the next bytes of F gives a prefix of F.
LEMMA ExtendPrefix ==
  ASSUME NEW w \in Seq(Byte), NEW t \in Seq(Byte), NEW F,
         \A i \in 1..Len(w) : w[i] = F[i],
         \A j \in 1..Len(t) : t[j] = F[Len(w) + j]
  PROVE  \A i \in 1..Len(w \o t) : (w \o t)[i] = F[i]
<1>1. Len(w \o t) = Len(w) + Len(t)
      /\ \A i \in 1..(Len(w) + Len(t)) :
           (w \o t)[i] = IF i <= Len(w) THEN w[i] ELSE t[i - Len(w)]
  BY ConcatProperties
<1>2. QED
  BY <1>1, LenProperties

\* Appending a byte sequence adds its length.
LEMMA AppendLen ==
  ASSUME NEW w \in Seq(Byte), NEW t \in Seq(Byte)
  PROVE  w \o t \in Seq(Byte) /\ Len(w \o t) = Len(w) + Len(t)
BY ConcatProperties

\* The size field is eight bytes long.
LEMMA LenSizeVal == LEN_SIZE = 8
BY DEF LEN_SIZE

\* A sink that accepts whole buffers takes all of a buffer or refuses.
LEMMA AcceptedWhole ==
  ASSUME ~PartialWrites, NEW b \in Seq(Byte)
  PROVE  Accepted(b) \subseteq {Len(b)}
BY DEF Accepted

\* Steps that only change pc, ret, op (and not to a running poll_write).
LEMMA QuietStep ==
  ASSUME IInv,
         UNCHANGED <<payload_len, state, wire, sent>>,
         pc' # "write" \/ UNCHANGED <<pc, buf>>,
         TypeOK'
  PROVE  IInv'
BY DEF IInv, Written, PayloadPos

\* IInv in the next state, conjunct by conjunct.
LEMMA IInvPrime ==
  ASSUME TypeOK',
         Len(wire') = Written',
         state'.tag = "Payload" => state'.pos <= payload_len',
         state'.tag = "Padding" => state'.pos \in {0, PadLen(payload_len')},
         sent' = PayloadPos',
         pc' = "write" => /\ sent' + Len(buf') <= Len(Stream)
                          /\ buf' = SubSeq(Stream, sent' + 1, sent' + Len(buf')),
         \A i \in 1..Len(wire') : wire'[i] = Frame(payload_len')[i]
  PROVE  IInv'
BY DEF IInv

-----------------------------------------------------------------------------
\* Every step of a writer over a whole-buffer sink keeps IInv.
LEMMA IInvStep ==
  ASSUME ~PartialWrites
  PROVE  IInv /\ [Next]_vars => IInv'
<1> SUFFICES ASSUME IInv, [Next]_vars PROVE IInv'
  OBVIOUS
<1>t. TypeOK'
  BY TypeStep DEF IInv
<1>a. /\ payload_len \in Nat
      /\ payload_len <= Len(Stream)
      /\ wire \in Seq(Byte) /\ buf \in Seq(Byte)
      /\ state \in WriterStates
  BY PayloadLensAssumption, StreamLongEnough DEF IInv, TypeOK
<1>f. /\ Len(Frame(payload_len)) = LEN_SIZE + payload_len + PadLen(payload_len)
      /\ \A i \in 1..LEN_SIZE : Frame(payload_len)[i] = SizeField(payload_len)[i]
      /\ \A i \in (LEN_SIZE + 1)..(LEN_SIZE + payload_len) :
           Frame(payload_len)[i] = Stream[i - LEN_SIZE]
      /\ \A i \in (LEN_SIZE + payload_len + 1)..(LEN_SIZE + payload_len + PadLen(payload_len)) :
           Frame(payload_len)[i] = 0
  BY <1>a, FrameFacts
<1>r. ASSUME SinkRefuses \/ SinkNotReady PROVE IInv'
  BY <1>r, <1>t, QuietStep DEF SinkRefuses, SinkNotReady, Return
<1>1. CASE CallWrite
  <2>1. PICK n \in 0..MaxBuf : /\ sent + n <= Len(Stream)
                               /\ buf' = SubSeq(Stream, sent + 1, sent + n)
    BY <1>1 DEF CallWrite
  <2>2. Len(buf') = n
    <3>1. sent \in Nat
      BY DEF IInv, TypeOK
    <3>2. /\ sent + 1 \in 1..(Len(Stream) + 1)
          /\ sent + n \in (sent + 1 - 1)..Len(Stream)
      BY <2>1, <3>1, StreamAssumption, LenProperties
    <3>3. QED
      BY <2>1, <3>1, <3>2, SubSeqType, StreamAssumption
  <2>3. QED
    BY <1>1, <1>t, <2>1, <2>2 DEF CallWrite, IInv, Written, PayloadPos
<1>2. CASE CallFlush
  BY <1>2, <1>t, QuietStep DEF CallFlush
<1>3. CASE CallShutdown
  BY <1>3, <1>t, QuietStep DEF CallShutdown
<1>4. CASE SizeStep
  <2> DEFINE rest == SubSeq(SizeField(payload_len), state.pos + 1, LEN_SIZE)
  <2>0. state.tag = "Size" /\ state.pos \in 0..(LEN_SIZE - 1)
        /\ Len(wire) = state.pos /\ sent = 0
    BY <1>4, <1>a DEF SizeStep, WriterStates, IInv, Written, PayloadPos
  <2>1. rest \in Seq(Byte) /\ Len(rest) = LEN_SIZE - state.pos
        /\ \A j \in 1..Len(rest) : rest[j] = SizeField(payload_len)[state.pos + j]
    <3>1. SizeField(payload_len) \in Seq(Byte) /\ Len(SizeField(payload_len)) = LEN_SIZE
      BY LenSizeVal, <1>a, SizeFieldType
    <3>2. /\ state.pos + 1 \in 1..(Len(SizeField(payload_len)) + 1)
          /\ LEN_SIZE \in (state.pos + 1 - 1)..Len(SizeField(payload_len))
      BY LenSizeVal, <2>0, <3>1
    <3>3. rest \in Seq(Byte) /\ Len(rest) = LEN_SIZE - state.pos
      BY <2>0, <3>1, <3>2, SubSeqType DEF rest
    <3>4. \A j \in 1..Len(rest) : rest[j] = SizeField(payload_len)[state.pos + j]
      <4> TAKE j \in 1..Len(rest)
      <4>1. j \in 1..(LEN_SIZE - (state.pos + 1) + 1)
        BY <3>3
      <4>2. SubSeq(SizeField(payload_len), state.pos + 1, LEN_SIZE)[j]
            = SizeField(payload_len)[state.pos + 1 + j - 1]
        BY <3>1, <3>2, <4>1, SubSeqAt
      <4>3. QED
        BY LenSizeVal, <2>0, <4>2 DEF rest
    <3>5. QED
      BY <3>3, <3>4
  <2>2. CASE SinkRefuses
    BY <2>2, <1>r
  <2>3. ASSUME NEW k \in Accepted(rest),
               wire' = wire \o SubSeq(rest, 1, k),
               state' = IF state.pos + k = LEN_SIZE THEN Payload(0)
                                                    ELSE Size(state.pos + k),
               UNCHANGED <<payload_len, pc, op, buf, sent, ret>>
        PROVE IInv'
    <3>1. k = LEN_SIZE - state.pos
      BY <2>1, AcceptedWhole
    <3>2. wire' = wire \o rest
      <4>1. SubSeq(rest, 1, Len(rest)) = rest
        BY <2>1, SubSeqFull
      <4>2. QED
        BY <2>1, <2>3, <3>1, <4>1
    <3>3. state' = Payload(0)
      BY LenSizeVal, <2>0, <2>3, <3>1
    <3>4. Written' = LEN_SIZE /\ PayloadPos' = 0
      <4>1. state'.tag = "Payload" /\ state'.pos = 0
        BY <3>3 DEF Payload
      <4>2. QED
        BY LenSizeVal, <4>1 DEF Written, PayloadPos
    <3>5. Len(wire') = LEN_SIZE
      <4>1. Len(wire \o rest) = Len(wire) + Len(rest)
        BY <1>a, <2>1, AppendLen
      <4>2. Len(wire) = state.pos
        BY <2>0
      <4>3. Len(rest) = LEN_SIZE - state.pos
        BY <2>1
      <4>4. state.pos \in 0..7
        BY LenSizeVal, <2>0
      <4>5. QED
        BY LenSizeVal, <3>2, <4>1, <4>2, <4>3, <4>4
    <3>6. \A i \in 1..Len(wire') : wire'[i] = Frame(payload_len)[i]
      <4>1. \A i \in 1..Len(wire) : wire[i] = Frame(payload_len)[i]
        BY DEF IInv
      <4>2. \A j \in 1..Len(rest) : rest[j] = Frame(payload_len)[Len(wire) + j]
        <5> TAKE j \in 1..Len(rest)
        <5>1. Len(rest) = LEN_SIZE - state.pos
          BY <2>1
        <5>2. rest[j] = SizeField(payload_len)[state.pos + j]
          BY <2>1
        <5>3. state.pos \in 0..7
          BY LenSizeVal, <2>0
        <5>4. state.pos + j \in 1..LEN_SIZE
          BY LenSizeVal, <5>1, <5>3
        <5>5. QED
          BY <1>f, <2>0, <5>2, <5>4
      <4>3. \A i \in 1..Len(wire \o rest) : (wire \o rest)[i] = Frame(payload_len)[i]
        BY <1>a, <2>1, <4>1, <4>2, ExtendPrefix
      <4>4. QED
        BY <3>2, <4>3
    <3>7. QED
      <4>1. state'.tag = "Payload" /\ state'.pos = 0
        BY <3>3 DEF Payload
      <4>2. state'.tag = "Payload" => state'.pos <= payload_len'
        BY <4>1, <1>a, <2>3
      <4>3. state'.tag = "Padding" => state'.pos \in {0, PadLen(payload_len')}
        BY <4>1
      <4>4. sent' = PayloadPos'
        BY <2>0, <2>3, <3>4
      <4>5. pc' = "write" => /\ sent' + Len(buf') <= Len(Stream)
                             /\ buf' = SubSeq(Stream, sent' + 1, sent' + Len(buf'))
        <5>1. pc = "write" => /\ sent + Len(buf) <= Len(Stream)
                              /\ buf = SubSeq(Stream, sent + 1, sent + Len(buf))
          BY DEF IInv
        <5>2. QED
          BY <5>1, <2>3
      <4>6. Len(wire') = Written'
        BY <3>4, <3>5
      <4>7. \A i \in 1..Len(wire') : wire'[i] = Frame(payload_len')[i]
        BY <2>3, <3>6
      <4>8. QED
        BY <1>t, <4>2, <4>3, <4>4, <4>5, <4>6, <4>7, IInvPrime
  <2>4. QED
    BY <1>4, <2>2, <2>3 DEF SizeStep
<1>5. CASE WritePayload
  <2>0. /\ pc = "write" /\ state.tag = "Payload" /\ state.pos \in Nat
        /\ Len(wire) = LEN_SIZE + state.pos /\ sent = state.pos
        /\ state.pos <= payload_len
        /\ sent + Len(buf) <= Len(Stream)
    BY <1>5, <1>a DEF WritePayload, WriterStates, IInv, Written, PayloadPos
  <2>b. buf = SubSeq(Stream, sent + 1, sent + Len(buf))
    BY <1>5 DEF WritePayload, IInv
  <2>1. CASE state.pos + Len(buf) > payload_len
    BY <1>5, <2>1, <1>t, QuietStep DEF WritePayload, Return
  <2>2. CASE SinkRefuses
    BY <2>2, <1>r
  <2>3. ASSUME state.pos + Len(buf) <= payload_len,
               NEW k \in Accepted(buf),
               wire' = wire \o SubSeq(buf, 1, k),
               state' = IF state.pos + k = payload_len
                          THEN Padding(0) ELSE Payload(state.pos + k),
               sent' = sent + k,
               Return("Ok", k),
               UNCHANGED <<payload_len, op, buf>>
        PROVE IInv'
    <3>1. k = Len(buf) /\ wire' = wire \o buf
      <4>1. k = Len(buf)
        BY <1>a, AcceptedWhole
      <4>2. SubSeq(buf, 1, Len(buf)) = buf
        BY <1>a, SubSeqFull
      <4>3. QED
        BY <2>3, <4>1, <4>2
    <3>2. Len(wire') = LEN_SIZE + state.pos + k
      <4>1. Len(wire \o buf) = Len(wire) + Len(buf)
        BY <1>a, AppendLen
      <4>2. QED
        BY LenSizeVal, <2>0, <3>1, <4>1
    <3>3. \A j \in 1..Len(buf) : buf[j] = Stream[sent + j]
      <4> TAKE j \in 1..Len(buf)
      <4>1. sent \in Nat /\ Len(buf) \in Nat
        BY <1>a, <2>0, LenProperties
      <4>2. sent + 1 \in 1..(Len(Stream) + 1)
        BY <2>0, <4>1
      <4>3. sent + Len(buf) \in (sent + 1 - 1)..Len(Stream)
        BY <2>0, <4>1
      <4>4. j \in 1..((sent + Len(buf)) - (sent + 1) + 1)
        BY <4>1
      <4>5. SubSeq(Stream, sent + 1, sent + Len(buf))[j] = Stream[sent + 1 + j - 1]
        BY <4>2, <4>3, <4>4, StreamAssumption, SubSeqAt
      <4>6. buf[j] = SubSeq(Stream, sent + 1, sent + Len(buf))[j]
        BY <2>b
      <4>7. QED
        BY <4>1, <4>5, <4>6
    <3>4. \A i \in 1..Len(wire') : wire'[i] = Frame(payload_len)[i]
      <4>1. \A i \in 1..Len(wire) : wire[i] = Frame(payload_len)[i]
        BY DEF IInv
      <4>2. \A j \in 1..Len(buf) : buf[j] = Frame(payload_len)[Len(wire) + j]
        <5> TAKE j \in 1..Len(buf)
        <5>1. Len(wire) + j \in (LEN_SIZE + 1)..(LEN_SIZE + payload_len)
          BY <2>3, LenSizeVal, <2>0, <1>a
        <5>2. Len(wire) + j - LEN_SIZE = sent + j
          BY LenSizeVal, <2>0
        <5>3. buf[j] = Stream[sent + j]
          BY <3>3
        <5>4. Frame(payload_len)[Len(wire) + j] = Stream[Len(wire) + j - LEN_SIZE]
          <6>1. \A i \in (LEN_SIZE + 1)..(LEN_SIZE + payload_len) :
                  Frame(payload_len)[i] = Stream[i - LEN_SIZE]
            BY <1>f
          <6>2. QED
            BY <5>1, <6>1, LenSizeVal
        <5>5. QED
          BY <5>2, <5>3, <5>4
      <4>3. \A i \in 1..Len(wire \o buf) : (wire \o buf)[i] = Frame(payload_len)[i]
        BY <1>a, <4>1, <4>2, ExtendPrefix
      <4>4. QED
        BY <3>1, <4>3
    <3>5. /\ pc' = "idle" /\ k \in Nat
          /\ payload_len' = payload_len /\ sent' = state.pos + k
      <4>1. pc' = "idle"
        BY <2>3 DEF Return
      <4>2. k \in Nat
        BY <1>a, <3>1, LenProperties
      <4>3. QED
        BY <2>3, <2>0, <4>1, <4>2
    <3>6. \A i \in 1..Len(wire') : wire'[i] = Frame(payload_len')[i]
      BY <3>4, <3>5
    <3>7. pc' = "write" => /\ sent' + Len(buf') <= Len(Stream)
                           /\ buf' = SubSeq(Stream, sent' + 1, sent' + Len(buf'))
      BY <3>5
    <3>8. CASE state.pos + k = payload_len
      <4>1. state'.tag = "Padding" /\ state'.pos = 0
        BY <2>3, <3>8 DEF Padding
      <4>2. Len(wire') = Written'
        <5>1. Written' = LEN_SIZE + payload_len' + state'.pos
          BY <4>1 DEF Written
        <5>2. QED
          BY LenSizeVal, <2>0, <3>2, <3>5, <3>8, <4>1, <5>1
      <4>3. sent' = PayloadPos'
        BY <3>5, <3>8, <4>1 DEF PayloadPos
      <4>4. state'.tag = "Payload" => state'.pos <= payload_len'
        BY <4>1
      <4>5. state'.tag = "Padding" => state'.pos \in {0, PadLen(payload_len')}
        BY <4>1
      <4>6. QED
        BY <1>t, <3>6, <3>7, <4>2, <4>3, <4>4, <4>5, IInvPrime
    <3>9. CASE state.pos + k # payload_len
      <4>1. state'.tag = "Payload" /\ state'.pos = state.pos + k
        BY <2>3, <3>9 DEF Payload
      <4>2. Len(wire') = Written'
        <5>1. Written' = LEN_SIZE + state'.pos
          BY <4>1 DEF Written
        <5>2. QED
          BY LenSizeVal, <2>0, <3>2, <3>5, <4>1, <5>1
      <4>3. sent' = PayloadPos'
        BY <3>5, <4>1 DEF PayloadPos
      <4>4. state'.tag = "Payload" => state'.pos <= payload_len'
        BY <2>3, <3>1, <3>5, <4>1
      <4>5. state'.tag = "Padding" => state'.pos \in {0, PadLen(payload_len')}
        BY <4>1
      <4>6. QED
        BY <1>t, <3>6, <3>7, <4>2, <4>3, <4>4, <4>5, IInvPrime
    <3>10. QED
      BY <3>8, <3>9
  <2>4. CASE state.pos + Len(buf) <= payload_len
    <3>1. \/ SinkRefuses
          \/ \E k \in Accepted(buf) :
               /\ wire' = wire \o SubSeq(buf, 1, k)
               /\ state' = IF state.pos + k = payload_len
                             THEN Padding(0) ELSE Payload(state.pos + k)
               /\ sent' = sent + k
               /\ Return("Ok", k)
               /\ UNCHANGED <<payload_len, op, buf>>
      <4>1. ~(state.pos + Len(buf) > payload_len)
        BY <2>0, <2>4, <1>a, LenProperties
      <4>2. QED
        BY <1>5, <4>1 DEF WritePayload
    <3>2. QED
      BY <2>2, <2>3, <2>4, <3>1
  <2>5. QED
    BY <2>0, <2>1, <2>4, <1>a, LenProperties
<1>6. CASE WritePadding
  BY <1>6, <1>t, QuietStep DEF WritePadding, Return
<1>7. CASE FlushPayload
  <2>0. pc = "flush" /\ state.tag = "Payload" /\ state.pos \in Nat
        /\ state.pos <= payload_len
    BY <1>7, <1>a DEF FlushPayload, WriterStates, IInv
  <2>1. CASE payload_len = 0
    <3>1. state' = Padding(0) /\ UNCHANGED <<payload_len, wire, pc, op, buf, sent, ret>>
      BY <1>7, <2>1 DEF FlushPayload
    <3>2. QED
      BY <1>t, <2>0, <2>1, <3>1 DEF IInv, Written, PayloadPos, Padding
  <2>2. CASE payload_len # 0
    BY <1>7, <2>2, <1>t, QuietStep DEF FlushPayload
  <2>3. QED
    BY <2>1, <2>2
<1>8. CASE FlushPadding
  <2> DEFINE P == PadLen(payload_len)
  <2>0. /\ pc = "flush" /\ state.tag = "Padding"
        /\ state.pos \in {0, P}
        /\ Len(wire) = LEN_SIZE + payload_len + state.pos
        /\ P \in Nat
    BY <1>8, <1>a DEF FlushPadding, IInv, Written, PadLen
  <2>1. CASE state.pos = P
    BY <1>8, <2>1, <1>t, QuietStep DEF FlushPadding
  <2>2. CASE SinkRefuses
    BY <2>2, <1>r
  <2>3. ASSUME state.pos # P,
               NEW k \in Accepted(Zeros(P)),
               wire' = wire \o Zeros(k),
               state' = Padding(state.pos + k),
               UNCHANGED <<payload_len, pc, op, buf, sent, ret>>
        PROVE IInv'
    <3>1. state.pos = 0 /\ k = P
      <4>1. Zeros(P) \in Seq(Byte) /\ Len(Zeros(P)) = P
        BY <2>0, ZerosType
      <4>2. k = P
        BY <4>1, AcceptedWhole
      <4>3. QED
        BY <2>0, <2>3, <4>2
    <3>2. Zeros(P) \in Seq(Byte) /\ Len(Zeros(P)) = P
          /\ \A j \in 1..P : Zeros(P)[j] = 0
      BY <2>0, ZerosType DEF Zeros
    <3>3. Len(wire') = LEN_SIZE + payload_len + P
      <4>1. Len(wire \o Zeros(P)) = Len(wire) + Len(Zeros(P))
        BY <1>a, <3>2, AppendLen
      <4>2. QED
        BY LenSizeVal, <1>a, <2>0, <2>3, <3>1, <3>2, <4>1
    <3>4. \A i \in 1..Len(wire') : wire'[i] = Frame(payload_len)[i]
      <4>1. \A i \in 1..Len(wire) : wire[i] = Frame(payload_len)[i]
        BY DEF IInv
      <4>2. \A j \in 1..Len(Zeros(P)) : Zeros(P)[j] = Frame(payload_len)[Len(wire) + j]
        <5> TAKE j \in 1..Len(Zeros(P))
        <5>1. Len(wire) + j \in (LEN_SIZE + payload_len + 1)..(LEN_SIZE + payload_len + P)
          BY LenSizeVal, <1>a, <2>0, <3>1, <3>2
        <5>2. \A i \in (LEN_SIZE + payload_len + 1)..(LEN_SIZE + payload_len + PadLen(payload_len)) :
                Frame(payload_len)[i] = 0
          BY <1>f
        <5>3. Zeros(P)[j] = 0
          BY <3>2
        <5>4. QED
          BY LenSizeVal, <5>1, <5>2, <5>3
      <4>3. \A i \in 1..Len(wire \o Zeros(P)) : (wire \o Zeros(P))[i] = Frame(payload_len)[i]
        BY <1>a, <3>2, <4>1, <4>2, ExtendPrefix
      <4>4. QED
        BY <2>3, <3>1, <4>3
    <3>5. state' = Padding(P) /\ Written' = LEN_SIZE + payload_len + P
          /\ PayloadPos' = payload_len
      BY <2>3, <3>1, <2>0 DEF Written, PayloadPos, Padding
    <3>6. QED
      <4>1. state'.tag = "Padding" /\ state'.pos = P
        BY <3>5 DEF Padding
      <4>2. Len(wire') = Written'
        BY <3>3, <3>5
      <4>3. sent' = PayloadPos'
        <5>1. sent = payload_len
          BY <2>0 DEF IInv, PayloadPos
        <5>2. QED
          BY <2>3, <3>5, <5>1
      <4>4. state'.tag = "Payload" => state'.pos <= payload_len'
        BY <4>1
      <4>5. state'.tag = "Padding" => state'.pos \in {0, PadLen(payload_len')}
        BY <2>3, <4>1
      <4>6. pc' = "write" => /\ sent' + Len(buf') <= Len(Stream)
                             /\ buf' = SubSeq(Stream, sent' + 1, sent' + Len(buf'))
        BY <2>0, <2>3
      <4>7. \A i \in 1..Len(wire') : wire'[i] = Frame(payload_len')[i]
        BY <2>3, <3>4
      <4>8. QED
        BY <1>t, <4>2, <4>3, <4>4, <4>5, <4>6, <4>7, IInvPrime
  <2>4. QED
    BY <1>8, <2>1, <2>2, <2>3 DEF FlushPadding
<1>9. CASE FlushInner
  BY <1>9, <1>t, <1>r, QuietStep DEF FlushInner, Return
<1>10. CASE ShutdownInner
  BY <1>10, <1>t, <1>r, QuietStep DEF ShutdownInner
<1>11. CASE UNCHANGED vars
  BY <1>11, <1>t, QuietStep DEF vars
<1>12. QED
  BY <1>1, <1>2, <1>3, <1>4, <1>5, <1>6, <1>7, <1>8, <1>9, <1>10, <1>11
  DEF Next, Step
\* The initial state satisfies IInv.
LEMMA IInvInit == Init => IInv
<1> SUFFICES ASSUME Init PROVE IInv
  OBVIOUS
<1>1. TypeOK
  BY PayloadLensAssumption
  DEF Init, TypeOK, Size, WriterStates, Ops, Outcomes, PCs, LEN_SIZE
<1>2. state.tag = "Size" /\ state.pos = 0 /\ wire = << >> /\ sent = 0 /\ pc = "idle"
  BY DEF Init, Size
<1>3. Len(wire) = Written /\ sent = PayloadPos
  BY <1>2 DEF Written, PayloadPos
<1>4. QED
  BY <1>1, <1>2, <1>3 DEF IInv

\* IInv bounds the wire by the frame and makes it a prefix of the frame.
LEMMA IInvFramePrefix == IInv => WireIsFramePrefix
<1> SUFFICES ASSUME IInv PROVE WireIsFramePrefix
  OBVIOUS
<1> DEFINE F == Frame(payload_len)
           P == PadLen(payload_len)
<1>a. /\ payload_len \in Nat /\ payload_len <= Len(Stream)
      /\ wire \in Seq(Byte) /\ state \in WriterStates
  BY PayloadLensAssumption, StreamLongEnough DEF IInv, TypeOK
<1>b. F \in Seq(Byte) /\ Len(F) = LEN_SIZE + payload_len + P
  BY <1>a, FrameFacts
<1>c. P \in Nat
  BY <1>a DEF PadLen, P
<1>1. Len(wire) <= Len(F)
  <2>1. CASE state.tag = "Size"
    <3>0. state.pos \in 0..7
      <4>1. state \in [tag : {"Size"}, pos : 0..(LEN_SIZE - 1)]
            \/ state \in [tag : {"Payload", "Padding"}, pos : Nat]
        BY <1>a DEF WriterStates
      <4>2. state \notin [tag : {"Payload", "Padding"}, pos : Nat]
        BY <2>1
      <4>3. QED
        BY <4>1, <4>2, LenSizeVal
    <3>1. Len(wire) = state.pos /\ state.pos \in 0..7
      BY <2>1, <3>0 DEF IInv, Written
    <3>2. QED
      BY LenSizeVal, <1>a, <1>b, <1>c, <3>1
  <2>2. CASE state.tag = "Payload"
    <3>1. Len(wire) = LEN_SIZE + state.pos /\ state.pos <= payload_len
          /\ state.pos \in Nat
      BY <1>a, <2>2 DEF IInv, Written, WriterStates
    <3>2. QED
      BY LenSizeVal, <1>a, <1>b, <1>c, <3>1
  <2>3. CASE state.tag = "Padding"
    <3>1. Len(wire) = LEN_SIZE + payload_len + state.pos /\ state.pos \in {0, P}
      BY <2>3 DEF IInv, Written
    <3>2. QED
      BY LenSizeVal, <1>a, <1>b, <1>c, <3>1
  <2>4. QED
    BY <1>a, <2>1, <2>2, <2>3 DEF WriterStates
<1>2. wire = SubSeq(F, 1, Len(wire))
  <2>1. Len(wire) \in Nat
    BY <1>a, LenProperties
  <2>2. /\ 1 \in 1..(Len(F) + 1)
        /\ Len(wire) \in (1 - 1)..Len(F)
    BY <1>1, <1>b, <2>1
  <2>3. SubSeq(F, 1, Len(wire)) \in Seq(Byte)
        /\ Len(SubSeq(F, 1, Len(wire))) = Len(wire)
    BY <1>b, <2>1, <2>2, SubSeqType
  <2>4. \A i \in 1..Len(wire) : wire[i] = SubSeq(F, 1, Len(wire))[i]
    <3> TAKE i \in 1..Len(wire)
    <3>1. i \in 1..(Len(wire) - 1 + 1)
      BY <2>1
    <3>2. SubSeq(F, 1, Len(wire))[i] = F[1 + i - 1]
      BY <1>b, <2>2, <3>1, SubSeqAt
    <3>3. wire[i] = F[i]
      BY DEF IInv
    <3>4. QED
      BY <3>2, <3>3
  <2>5. QED
    BY <1>a, <2>3, <2>4, SeqEqual
<1>3. QED
  BY <1>1, <1>2 DEF WireIsFramePrefix

(***************************************************************************)
(* Over a sink that takes whole buffers (Vec<u8>, the test mocks), the     *)
(* bytes BytesWriter has put on the sink are at every moment a prefix of   *)
(* the frame size field ++ payload ++ zero padding: the size field is      *)
(* written once, the payload in order, the padding once, and never more    *)
(* than the frame.                                                         *)
(***************************************************************************)
THEOREM FrameExact ==
  ASSUME ~PartialWrites
  PROVE  Spec => []WireIsFramePrefix
<1>1. Init => IInv
  BY IInvInit
<1>2. IInv /\ [Next]_vars => IInv'
  BY IInvStep
<1>3. IInv => WireIsFramePrefix
  BY IInvFramePrefix
<1>4. QED
  BY <1>1, <1>2, <1>3, PTL DEF Spec
-----------------------------------------------------------------------------
(***************************************************************************)
(* The arithmetic of a bytes wire packet (WireBytes.tla): padding_len     *)
(* rounds up to the next multiple of 8, and the size field is the exact   *)
(* little-endian encoding of any u64, so a reader that decodes it with    *)
(* u64::from_le_bytes gets the payload length back.                       *)
(***************************************************************************)

\* u64::from_le_bytes: the number whose little-endian bytes are b[1..8].
FromLeBytes(b) ==
  b[1] + 256 * (b[2] + 256 * (b[3] + 256 * (b[4] + 256 * (b[5]
       + 256 * (b[6] + 256 * (b[7] + 256 * b[8]))))))

\* u64::MAX, 2^64 - 1.
U64Max == 256 * 256 * 256 * 256 * 256 * 256 * 256 * 256 - 1

\* padding_len(n) is less than 8 and brings n to a multiple of 8.
LEMMA PadLenFacts ==
  ASSUME NEW n \in Nat
  PROVE  PadLen(n) \in 0..7 /\ (n + PadLen(n)) % 8 = 0
BY DEF PadLen

\* Splitting off the lowest byte of a natural number.
LEMMA LowByte ==
  ASSUME NEW x \in Nat
  PROVE  /\ x = (x % 256) + 256 * (x \div 256)
         /\ x \div 256 \in Nat
         /\ \A c \in Nat : x < 256 * c => x \div 256 < c
BY Z3

(***************************************************************************)
(* Every frame ends on an 8-byte boundary: size field, payload and        *)
(* padding_len zero bytes add up to a multiple of 8, for every payload    *)
(* length, so the next packet of a NAR starts aligned.                    *)
(***************************************************************************)
LEMMA FrameAligned ==
  ASSUME NEW n \in Nat, n <= Len(Stream)
  PROVE  Len(Frame(n)) % 8 = 0
<1>1. Len(Frame(n)) = LEN_SIZE + n + PadLen(n) /\ PadLen(n) \in Nat
  BY FrameFacts, PadLenFacts
<1>2. (n + PadLen(n)) % 8 = 0
  BY PadLenFacts
<1>. QED  BY <1>1, <1>2 DEF LEN_SIZE

(***************************************************************************)
(* The size field written before the payload decodes to the payload        *)
(* length for every u64: u64::to_le_bytes loses nothing, so the eight     *)
(* bytes of the prefix announce exactly the payload_len the writer was    *)
(* constructed with.                                                      *)
(***************************************************************************)
LEMMA SizeFieldDecodes ==
  ASSUME NEW n \in 0..U64Max
  PROVE  FromLeBytes(SizeField(n)) = n
<1> DEFINE q1 == n
           q2 == q1 \div 256
           q3 == q2 \div 256
           q4 == q3 \div 256
           q5 == q4 \div 256
           q6 == q5 \div 256
           q7 == q6 \div 256
           q8 == q7 \div 256
           q9 == q8 \div 256
<1>1. SizeField(n) = <<q1 % 256, q2 % 256, q3 % 256, q4 % 256,
                      q5 % 256, q6 % 256, q7 % 256, q8 % 256>>
  BY DEF SizeField
<1>2. /\ q1 \in Nat /\ q1 < 256 * 256 * 256 * 256 * 256 * 256 * 256 * 256
  BY DEF U64Max
<1>3. /\ q2 \in Nat /\ q2 < 256 * 256 * 256 * 256 * 256 * 256 * 256
      /\ q1 = (q1 % 256) + 256 * q2
  BY <1>2, LowByte
<1>4. q3 \in Nat /\ q3 < 256 * 256 * 256 * 256 * 256 * 256 /\ q2 = (q2 % 256) + 256 * q3
  BY <1>3, LowByte
<1>5. q4 \in Nat /\ q4 < 256 * 256 * 256 * 256 * 256 /\ q3 = (q3 % 256) + 256 * q4
  BY <1>4, LowByte
<1>6. q5 \in Nat /\ q5 < 256 * 256 * 256 * 256 /\ q4 = (q4 % 256) + 256 * q5
  BY <1>5, LowByte
<1>7. q6 \in Nat /\ q6 < 256 * 256 * 256 /\ q5 = (q5 % 256) + 256 * q6
  BY <1>6, LowByte
<1>8. q7 \in Nat /\ q7 < 256 * 256 /\ q6 = (q6 % 256) + 256 * q7
  BY <1>7, LowByte
<1>9. q8 \in Nat /\ q8 < 256 /\ q7 = (q7 % 256) + 256 * q8
  BY <1>8, LowByte
<1>10. q9 = 0 /\ q8 = (q8 % 256) + 256 * q9
  BY <1>9, LowByte
<1>. QED
  BY <1>1, <1>3, <1>4, <1>5, <1>6, <1>7, <1>8, <1>9, <1>10 DEF FromLeBytes

=============================================================================
