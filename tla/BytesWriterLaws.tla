-------------------------- MODULE BytesWriterLaws --------------------------
(***************************************************************************)
(* Proofs of what BytesWriter tells its caller, over any sink, whole or   *)
(* partial: the counts poll_write returns are true to the bytes on the    *)
(* sink, the size field, payload and padding stay apart, padding only     *)
(* follows the whole payload, and the Ok of poll_flush and the verdict of *)
(* poll_shutdown are true to the wire.                                    *)
(***************************************************************************)
EXTENDS BytesWriterRefinement

\* The states a poll_flush leaves when its loop breaks: waiting for more of
\* a non-empty payload, or at the end of the padding.
Drained ==
  \/ state.tag = "Payload" /\ payload_len # 0
  \/ state = Padding(PadLen(payload_len))

\* When poll_shutdown checks its state, that state is the end of the
\* padding exactly when the sink holds the whole frame.
PaddedIffComplete ==
  pc = "shutdown_inner" =>
    ((state = Padding(PadLen(payload_len))) <=> (wire = Frame(payload_len)))

(***************************************************************************)
(* The invariant behind ShutdownLaw and FlushDrains: a running poll_write *)
(* was invoked as a write; after the loop of poll_flush the state is      *)
(* Drained, and it stays so while the Ok of a flush is the last answer;   *)
(* an Ok or UncleanShutdown of poll_shutdown is final.                    *)
(***************************************************************************)
LawInv ==
  /\ pc = "write" => op = "write"
  /\ pc \in {"flush_inner", "shutdown_inner", "done"} => Drained
  /\ (ret.op = "flush" /\ ret.outcome = "Ok") => Drained
  /\ (ret.op = "shutdown" /\ ret.outcome \in {"Ok", "UncleanShutdown"})
       => pc = "done"
  /\ ShutdownLaw


-----------------------------------------------------------------------------
\* If the wire agrees with the frame up to the end of the payload, and
\* sent counts the payload bytes on it, these are the first `sent` bytes
\* of the stream, whatever follows them.
LEMMA CallerViewFrom ==
  ASSUME TypeOK,
         \A j \in 1..Len(wire) :
           j <= LEN_SIZE + payload_len => wire[j] = Frame(payload_len)[j],
         sent = Abstract!PayloadCount(Len(wire))
  PROVE  CallerViewMatchesWire
<1>a. /\ payload_len \in Nat /\ payload_len <= Len(Stream)
      /\ wire \in Seq(Byte) /\ Stream \in Seq(Byte)
  BY PayloadLensAssumption, StreamLongEnough, StreamAssumption DEF TypeOK
<1>b. /\ \A k \in 1..payload_len : Frame(payload_len)[LEN_SIZE + k] = Stream[k]
      /\ \A j \in 1..Len(wire) :
           j <= LEN_SIZE + payload_len => wire[j] = Frame(payload_len)[j]
  <2>1. \A j \in (LEN_SIZE + 1)..(LEN_SIZE + payload_len) :
           Frame(payload_len)[j] = Stream[j - LEN_SIZE]
    BY <1>a, FrameFacts
  <2>2. \A k \in 1..payload_len : Frame(payload_len)[LEN_SIZE + k] = Stream[k]
    <3> TAKE k \in 1..payload_len
    <3>1. LEN_SIZE + k \in (LEN_SIZE + 1)..(LEN_SIZE + payload_len)
          /\ LEN_SIZE + k - LEN_SIZE = k
      BY <1>a DEF LEN_SIZE
    <3>. QED  BY <2>1, <3>1 DEF LEN_SIZE
  <2>. QED  BY <2>2
<1>c. sent = Abstract!PayloadCount(Len(wire))
  OBVIOUS
<1>1. CASE Len(wire) <= LEN_SIZE
  <2>1. sent = 0
    BY <1>1, <1>c DEF Abstract!PayloadCount, LEN_SIZE
  <2>2. SubSeq(Stream, 1, 0) = << >>
    BY SubSeqEmpty
  <2>. QED  BY <1>1, <2>1, <2>2 DEF CallerViewMatchesWire, PayloadOnWire
<1>2. CASE Len(wire) > LEN_SIZE
  <2> DEFINE e == IF Len(wire) < LEN_SIZE + payload_len
                    THEN Len(wire) ELSE LEN_SIZE + payload_len
             W == SubSeq(wire, LEN_SIZE + 1, e)
             S == SubSeq(Stream, 1, sent)
  <2>1. sent = e - LEN_SIZE /\ sent \in 0..payload_len
    BY <1>a, <1>2, <1>c DEF Abstract!PayloadCount, LEN_SIZE
  <2>2. PayloadOnWire = W
    <3>1. ~(Len(wire) <= LEN_SIZE)
      BY <1>a, <1>2 DEF LEN_SIZE
    <3>. QED  BY <3>1, Zenon DEF PayloadOnWire, W, e
  <2>3. e <= Len(wire) /\ LEN_SIZE + 1 \in 1..(Len(wire) + 1)
        /\ e \in (LEN_SIZE + 1 - 1)..Len(wire)
    BY <1>a, <1>2, <2>1 DEF LEN_SIZE
  <2>4. W \in Seq(Byte) /\ Len(W) = sent
    BY <1>a, <2>1, <2>3, SubSeqType DEF LEN_SIZE
  <2>5. S \in Seq(Byte) /\ Len(S) = sent
    BY <1>a, <2>1, SubSeqType
  <2>6. \A i \in 1..sent : W[i] = S[i]
    <3> TAKE i \in 1..sent
    <3>1. W[i] = wire[LEN_SIZE + i]
      BY <1>a, <2>1, <2>3, SubSeqAt DEF LEN_SIZE
    <3>2. S[i] = Stream[i]
      BY <1>a, <2>1, SubSeqAt
    <3>3. LEN_SIZE + i \in 1..Len(wire)
          /\ LEN_SIZE + i \in (LEN_SIZE + 1)..(LEN_SIZE + payload_len)
      BY <1>a, <2>1, <2>3 DEF LEN_SIZE
    <3>4. wire[LEN_SIZE + i] = Frame(payload_len)[LEN_SIZE + i]
      BY <1>b, <3>3
    <3>5. Frame(payload_len)[LEN_SIZE + i] = Stream[i]
      <4>1. i \in 1..payload_len
        BY <1>a, <2>1
      <4>. QED  BY <1>b, <4>1
    <3>. QED  BY <3>1, <3>2, <3>4, <3>5
  <2>. QED  BY <2>2, <2>4, <2>5, <2>6, SeqEqual DEF CallerViewMatchesWire
<1>. QED  BY <1>a, <1>1, <1>2 DEF LEN_SIZE

-----------------------------------------------------------------------------
\* The writer starts with nothing returned and no poll running.
LEMMA LawInit == Init => LawInv
BY DEF Init, LawInv, ShutdownLaw

\* No poll runs once poll_shutdown has shut the sink down.
LEMMA NothingAfterDone == Next => pc # "done"
BY DEF Next, CallWrite, CallFlush, CallShutdown, Step, SizeStep, WritePayload,
       WritePadding, FlushPayload, FlushPadding, FlushInner, ShutdownInner

\* A poll that returns a refusal of the sink answers neither Ok nor
\* UncleanShutdown, and leaves the writer's state alone.
LEMMA RefusalKeepsLaw ==
  ASSUME LawInv, SinkRefuses \/ SinkNotReady
  PROVE  LawInv'
BY DEF SinkRefuses, SinkNotReady, Return, LawInv, ShutdownLaw, Drained

\* A step that leaves ret alone and keeps the state Drained, or that starts
\* in a state that is not Drained and stays in a running poll.
LEMMA QuietLaw ==
  ASSUME LawInv, ret' = ret, pc \notin {"done"}, pc' # "done",
         UNCHANGED payload_len,
         pc' = "write" => op' = "write",
         pc' \in {"flush_inner", "shutdown_inner"} => Drained',
         Drained => UNCHANGED state
  PROVE  LawInv'
BY DEF LawInv, ShutdownLaw, Drained


\* Every step keeps LawInv.
LEMMA LawStep ==
  TypeOK /\ PaddedIffComplete /\ LawInv /\ [Next]_vars => LawInv'
<1> SUFFICES ASSUME TypeOK, PaddedIffComplete, LawInv, [Next]_vars
             PROVE  LawInv'
  OBVIOUS
<1>a. payload_len \in Nat /\ state \in WriterStates
  BY PayloadLensAssumption DEF TypeOK
<1>b. state.tag = "Size" => ~Drained
  BY DEF Drained, Padding
<1>1. CASE CallWrite \/ CallFlush \/ CallShutdown
  BY <1>1, QuietLaw DEF CallWrite, CallFlush, CallShutdown
<1>2. CASE SizeStep
  <2>1. CASE SinkRefuses
    BY <2>1, RefusalKeepsLaw
  <2>2. CASE ~SinkRefuses
    <3>1. ret' = ret /\ pc' = pc /\ op' = op /\ payload_len' = payload_len
          /\ pc \in {"write", "flush"} /\ state.tag = "Size"
      BY <1>2, <2>2 DEF SizeStep
    <3>. QED  BY <1>b, <3>1, QuietLaw DEF LawInv
  <2>. QED  BY <2>1, <2>2
<1>3. CASE WritePayload
  <2>1. CASE state.pos + Len(buf) > payload_len
    BY <1>3, <2>1 DEF WritePayload, Return, LawInv, ShutdownLaw
  <2>2. CASE ~(state.pos + Len(buf) > payload_len) /\ SinkRefuses
    BY <2>2, RefusalKeepsLaw
  <2>3. CASE ~(state.pos + Len(buf) > payload_len) /\ ~SinkRefuses
    <3>1. op = "write"
      BY <1>3 DEF WritePayload, LawInv
    <3>2. ret'.op = "write" /\ pc' = "idle"
      BY <1>3, <2>3, <3>1 DEF WritePayload, Return
    <3>. QED  BY <3>2 DEF LawInv, ShutdownLaw
  <2>. QED  BY <2>1, <2>2, <2>3
<1>4. CASE WritePadding
  BY <1>4 DEF WritePadding, Return, LawInv, ShutdownLaw
<1>5. CASE FlushPayload
  <2>1. CASE payload_len = 0
    <3>1. ret' = ret /\ pc' = pc /\ op' = op /\ payload_len' = payload_len
          /\ pc = "flush" /\ state.tag = "Payload"
      BY <1>5, <2>1 DEF FlushPayload
    <3>2. ~Drained
      BY <2>1, <3>1 DEF Drained, Padding
    <3>. QED  BY <3>1, <3>2, QuietLaw
  <2>2. CASE payload_len # 0
    <3>1. ret' = ret /\ pc' = "flush_inner" /\ payload_len' = payload_len
          /\ state' = state /\ pc = "flush" /\ state.tag = "Payload"
      BY <1>5, <2>2 DEF FlushPayload
    <3>2. Drained'
      BY <2>2, <3>1 DEF Drained
    <3>. QED  BY <3>1, <3>2, QuietLaw
  <2>. QED  BY <2>1, <2>2
<1>6. CASE FlushPadding
  <2>1. CASE state.pos # PadLen(payload_len) /\ SinkRefuses
    BY <2>1, RefusalKeepsLaw
  <2>2. CASE state.pos # PadLen(payload_len) /\ ~SinkRefuses
    <3>1. ret' = ret /\ pc' = pc /\ op' = op /\ payload_len' = payload_len
          /\ pc = "flush" /\ state.tag = "Padding"
      BY <1>6, <2>2 DEF FlushPadding
    <3>2. ~Drained
      BY <2>2, <3>1 DEF Drained, Padding
    <3>. QED  BY <3>1, <3>2, QuietLaw
  <2>3. CASE state.pos = PadLen(payload_len)
    <3>1. ret' = ret /\ pc' = "flush_inner" /\ payload_len' = payload_len
          /\ state' = state /\ pc = "flush" /\ state.tag = "Padding"
      BY <1>6, <2>3 DEF FlushPadding
    <3>2. state = [tag |-> "Padding", pos |-> state.pos]
      BY <1>a, <3>1 DEF WriterStates
    <3>3. Drained'
      BY <2>3, <3>1, <3>2 DEF Drained, Padding
    <3>. QED  BY <3>1, <3>3, QuietLaw
  <2>. QED  BY <2>1, <2>2, <2>3
<1>7. CASE FlushInner
  <2>1. CASE SinkNotReady
    BY <2>1, RefusalKeepsLaw
  <2>2. CASE op = "flush" /\ Return("Ok", 0)
                /\ UNCHANGED <<payload_len, state, wire, op, buf, sent>>
    <3>1. Drained /\ pc' = "idle" /\ ret'.op = "flush"
      BY <1>7, <2>2 DEF FlushInner, LawInv, Return
    <3>. QED  BY <2>2, <3>1 DEF LawInv, ShutdownLaw, Drained
  <2>3. CASE op = "shutdown" /\ pc' = "shutdown_inner"
                /\ UNCHANGED <<payload_len, state, wire, op, buf, sent, ret>>
    <3>1. Drained /\ pc = "flush_inner"
      BY <1>7 DEF FlushInner, LawInv
    <3>2. Drained'
      BY <2>3, <3>1 DEF Drained
    <3>. QED  BY <2>3, <3>1, <3>2, QuietLaw
  <2>. QED  BY <1>7, <2>1, <2>2, <2>3 DEF FlushInner
<1>8. CASE ShutdownInner
  <2>1. CASE SinkNotReady
    BY <2>1, RefusalKeepsLaw
  <2>2. CASE /\ ret' = [op |-> "shutdown", n |-> 0,
                        outcome |-> IF state = Padding(PadLen(payload_len))
                                      THEN "Ok" ELSE "UncleanShutdown"]
             /\ pc' = "done"
             /\ UNCHANGED <<payload_len, state, wire, op, buf, sent>>
    <3>1. pc = "shutdown_inner" /\ Drained
      BY <1>8 DEF ShutdownInner, LawInv
    <3>2. (state = Padding(PadLen(payload_len))) <=> (wire = Frame(payload_len))
      BY <3>1 DEF PaddedIffComplete
    <3>3. Drained'
      BY <2>2, <3>1 DEF Drained
    <3>4. ShutdownLaw'
      BY <2>2, <3>2 DEF ShutdownLaw
    <3>. QED  BY <2>2, <3>3, <3>4 DEF LawInv
  <2>. QED  BY <1>8, <2>1, <2>2 DEF ShutdownInner
<1>9. CASE UNCHANGED vars
  BY <1>9 DEF vars, LawInv, ShutdownLaw, Drained
<1>. QED  BY <1>1, <1>2, <1>3, <1>4, <1>5, <1>6, <1>7, <1>8, <1>9 DEF Next, Step


-----------------------------------------------------------------------------
(***************************************************************************)
(* The stages in order, over any sink (whole or partial answers): the     *)
(* wire holds the size bytes written so far, then the payload bytes the   *)
(* caller was told of, and in the Padding stage all of the payload and    *)
(* pos zeros, pos being free to overshoot padding_len (finding 1).        *)
(***************************************************************************)
StageInv ==
  /\ TypeOK
  /\ state.tag = "Size" => Len(wire) = state.pos /\ sent = 0
  /\ state.tag = "Payload" =>
       /\ Len(wire) = LEN_SIZE + state.pos
       /\ sent = state.pos
       /\ state.pos <= payload_len
  /\ state.tag = "Padding" =>
       Len(wire) = LEN_SIZE + payload_len + state.pos /\ sent = payload_len


\* Every state a writer starts in is at the start of the Size stage.
LEMMA StageInit == Init => StageInv
<1> SUFFICES ASSUME Init PROVE StageInv
  OBVIOUS
<1>1. TypeOK
  BY DEF Init, TypeOK, Size, WriterStates, PCs, Ops, Outcomes, LEN_SIZE
<1>. QED  BY <1>1 DEF Init, StageInv, Size

\* A step that leaves the stage, the wire and sent alone keeps StageInv and
\* gives the sink nothing.
LEMMA StageQuiet ==
  ASSUME StageInv, TypeOK', UNCHANGED <<payload_len, state, wire, sent>>
  PROVE  StageInv' /\ PaddingAfterPayloadStep
BY DEF StageInv, PaddingAfterPayloadStep

\* Every step keeps StageInv, and only a flush in the Padding stage, after
\* the whole payload, gives the sink bytes past the payload.
LEMMA StageStep ==
  StageInv /\ [Next]_vars => StageInv' /\ PaddingAfterPayloadStep
<1> SUFFICES ASSUME StageInv, [Next]_vars
             PROVE  StageInv' /\ PaddingAfterPayloadStep
  OBVIOUS
<1>a. TypeOK /\ payload_len \in Nat /\ wire \in Seq(Byte) /\ sent \in Nat
  BY PayloadLensAssumption DEF StageInv, TypeOK
<1>t. TypeOK'
  BY <1>a, TypeStep
<1>r. ASSUME SinkRefuses \/ SinkNotReady
      PROVE  StageInv' /\ PaddingAfterPayloadStep
  BY <1>r, <1>t, StageQuiet DEF SinkRefuses, SinkNotReady
<1>1. CASE CallWrite \/ CallFlush \/ CallShutdown
  BY <1>1, <1>t, StageQuiet DEF CallWrite, CallFlush, CallShutdown
<1>2. CASE SizeStep
  <2> DEFINE rest == SubSeq(SizeField(payload_len), state.pos + 1, LEN_SIZE)
  <2>0. state.tag = "Size" /\ state.pos \in 0..(LEN_SIZE - 1)
    BY <1>a, <1>2 DEF SizeStep, TypeOK, WriterStates
  <2>1. rest \in Seq(Byte) /\ Len(rest) = LEN_SIZE - state.pos
    <3>1. SizeField(payload_len) \in Seq(Byte) /\ Len(SizeField(payload_len)) = LEN_SIZE
      BY <1>a, SizeFieldType DEF LEN_SIZE
    <3>2. QED
      BY <2>0, <3>1, SubSeqType DEF LEN_SIZE
  <2>2. ASSUME NEW k \in Accepted(rest),
               wire' = wire \o SubSeq(rest, 1, k),
               state' = IF state.pos + k = LEN_SIZE THEN Payload(0)
                                                    ELSE Size(state.pos + k),
               UNCHANGED <<payload_len, pc, op, buf, sent, ret>>
        PROVE StageInv' /\ PaddingAfterPayloadStep
    <3>1. k \in 1..(LEN_SIZE - state.pos)
      BY <2>1, AcceptedRange
    <3>2. Len(wire') = state.pos + k
      <4>1. SubSeq(rest, 1, k) \in Seq(Byte) /\ Len(SubSeq(rest, 1, k)) = k
        BY <2>0, <2>1, <3>1, SubSeqType DEF LEN_SIZE
      <4>2. Len(wire) = state.pos
        BY <2>0 DEF StageInv
      <4>. QED  BY <1>a, <2>2, <4>1, <4>2, AppendLen
    <3>3. sent = 0
      BY <2>0 DEF StageInv
    <3>. QED
      BY <1>a, <1>t, <2>0, <2>2, <3>1, <3>2, <3>3
      DEF StageInv, PaddingAfterPayloadStep, Payload, Size, LEN_SIZE
  <2>r. CASE SinkRefuses
    BY <2>r, <1>r
  <2>. QED  BY <1>2, <2>r, <2>2 DEF SizeStep
<1>3. CASE WritePayload
  <2>0. state.tag = "Payload" /\ state.pos \in Nat /\ buf \in Seq(Byte)
    BY <1>a, <1>3 DEF WritePayload, TypeOK, WriterStates
  <2>1. CASE state.pos + Len(buf) > payload_len
    BY <1>3, <2>1, <1>t, StageQuiet DEF WritePayload, Return
  <2>2. ASSUME state.pos + Len(buf) <= payload_len,
               NEW k \in Accepted(buf),
               wire' = wire \o SubSeq(buf, 1, k),
               state' = IF state.pos + k = payload_len
                          THEN Padding(0) ELSE Payload(state.pos + k),
               sent' = sent + k,
               UNCHANGED payload_len
        PROVE StageInv' /\ PaddingAfterPayloadStep
    <3>1. k \in 1..Len(buf)
      BY <2>0, AcceptedRange
    <3>2. Len(wire') = Len(wire) + k
      BY <1>a, <2>0, <2>2, <3>1, SubSeqType, AppendLen
    <3>3. Len(wire) = LEN_SIZE + state.pos /\ sent = state.pos
      BY <2>0 DEF StageInv
    <3>4. Len(wire') = LEN_SIZE + state.pos + k /\ state.pos + k <= payload_len
      BY <1>a, <2>0, <2>2, <3>1, <3>2, <3>3
    <3>5. PaddingAfterPayloadStep
      BY <1>a, <2>0, <3>1, <3>4 DEF PaddingAfterPayloadStep, LEN_SIZE
    <3>6. sent' = state.pos + k /\ payload_len' = payload_len
      BY <2>2, <3>3
    <3>7. CASE state.pos + k = payload_len
      <4>1. state'.tag = "Padding" /\ state'.pos = 0
        BY <2>2, <3>7 DEF Padding
      <4>2. Len(wire') = LEN_SIZE + payload_len' + state'.pos /\ sent' = payload_len'
        BY <1>a, <2>0, <3>1, <3>4, <3>6, <3>7, <4>1 DEF LEN_SIZE
      <4>. QED
        BY <1>t, <3>5, <4>1, <4>2 DEF StageInv
    <3>8. CASE state.pos + k # payload_len
      <4>1. state' = [tag |-> "Payload", pos |-> state.pos + k]
        BY <2>2, <3>8 DEF Payload
      <4>2. Len(wire') = LEN_SIZE + state'.pos /\ sent' = state'.pos
            /\ state'.pos <= payload_len'
        BY <1>a, <2>0, <3>1, <3>4, <3>6, <4>1 DEF LEN_SIZE
      <4>. QED
        BY <1>t, <3>5, <4>1, <4>2 DEF StageInv
    <3>. QED  BY <3>7, <3>8
  <2>r. CASE SinkRefuses
    BY <2>r, <1>r
  <2>3. CASE state.pos + Len(buf) <= payload_len
    <3>1. SinkRefuses \/ \E k \in Accepted(buf) :
                             /\ wire' = wire \o SubSeq(buf, 1, k)
                             /\ state' = IF state.pos + k = payload_len
                                          THEN Padding(0) ELSE Payload(state.pos + k)
                             /\ sent' = sent + k
                             /\ Return("Ok", k)
                             /\ UNCHANGED <<payload_len, op, buf>>
      <4>1. ~(state.pos + Len(buf) > payload_len)
        BY <1>a, <2>0, <2>3
      <4>. QED  BY <1>3, <4>1 DEF WritePayload
    <3>. QED  BY <2>2, <2>r, <2>3, <3>1
  <2>. QED  BY <1>a, <2>0, <2>1, <2>3
<1>4. CASE WritePadding
  BY <1>4, <1>t, StageQuiet DEF WritePadding, Return
<1>5. CASE FlushPayload
  <2>1. CASE payload_len = 0
    <3>1. state' = Padding(0) /\ UNCHANGED <<payload_len, wire, sent>>
      BY <1>5, <2>1 DEF FlushPayload
    <3>2. state.tag = "Payload" /\ state.pos = 0
      <4>1. state.tag = "Payload" /\ state.pos \in Nat
        BY <1>a, <1>5 DEF FlushPayload, TypeOK, WriterStates
      <4>. QED  BY <2>1, <4>1 DEF StageInv
    <3>. QED
      BY <1>a, <1>t, <2>1, <3>1, <3>2 DEF StageInv, PaddingAfterPayloadStep, Padding
  <2>2. CASE payload_len # 0
    BY <1>5, <2>2, <1>t, StageQuiet DEF FlushPayload
  <2>. QED  BY <2>1, <2>2
<1>6. CASE FlushPadding
  <2>0. state.tag = "Padding" /\ state.pos \in Nat /\ pc = "flush"
    BY <1>a, <1>6 DEF FlushPadding, TypeOK, WriterStates
  <2>1. PadLen(payload_len) \in Nat
    BY <1>a DEF PadLen
  <2>2. ASSUME NEW k \in Accepted(Zeros(PadLen(payload_len))),
               wire' = wire \o Zeros(k),
               state' = Padding(state.pos + k),
               UNCHANGED <<payload_len, sent>>
        PROVE StageInv' /\ PaddingAfterPayloadStep
    <3>1. k \in Nat
      BY <2>1, ZerosType, AcceptedRange
    <3>2. Len(wire') = Len(wire) + k
      BY <1>a, <2>2, <3>1, ZerosType, AppendLen
    <3>3. Len(wire) = LEN_SIZE + payload_len + state.pos /\ sent = payload_len
      BY <2>0 DEF StageInv
    <3>4. PaddingAfterPayloadStep
      BY <2>0, <3>3 DEF PaddingAfterPayloadStep
    <3>5. /\ state'.tag = "Padding" /\ state'.tag # "Size" /\ state'.tag # "Payload"
          /\ state'.pos = state.pos + k
      BY <2>2 DEF Padding
    <3>6. Len(wire') = LEN_SIZE + payload_len' + state'.pos
      BY <1>a, <2>0, <2>2, <3>1, <3>2, <3>3, <3>5 DEF LEN_SIZE
    <3>. QED
      BY <1>t, <2>2, <3>3, <3>4, <3>5, <3>6 DEF StageInv
  <2>3. CASE state.pos = PadLen(payload_len)
    BY <1>6, <2>3, <1>t, StageQuiet DEF FlushPadding
  <2>r. CASE SinkRefuses
    BY <2>r, <1>r
  <2>. QED  BY <1>6, <2>r, <2>2, <2>3 DEF FlushPadding
<1>7. CASE FlushInner
  BY <1>7, <1>r, <1>t, StageQuiet DEF FlushInner, Return
<1>8. CASE ShutdownInner
  BY <1>8, <1>r, <1>t, StageQuiet DEF ShutdownInner
<1>9. CASE UNCHANGED vars
  BY <1>9, <1>t, StageQuiet DEF vars
<1>. QED
  BY <1>1, <1>2, <1>3, <1>4, <1>5, <1>6, <1>7, <1>8, <1>9 DEF Next, Step

(* Padding only ever follows the whole payload, for every sink, payload   *)
(* length, stream and buffer bound: a step that gives the sink bytes past *)
(* the payload part is an iteration of poll_flush in the Padding stage,   *)
(* after poll_write has told the caller of all payload_len bytes.         *)
THEOREM PaddingOnlyAfterPayloadHolds == Spec => PaddingOnlyAfterPayload
<1>1. Init => StageInv
  BY StageInit
<1>2. StageInv /\ [Next]_vars => StageInv' /\ PaddingAfterPayloadStep
  BY StageStep
<1>. QED  BY <1>1, <1>2, PTL DEF Spec, PaddingOnlyAfterPayload

\* A step that keeps the state and payload_len keeps the writer where it is.
LEMMA StayIsForward ==
  ASSUME TypeOK, state' = state, payload_len' = payload_len
  PROVE  StageForwardStep
BY DEF TypeOK, WriterStates, StageForwardStep

\* Every step of the writer keeps its stage or moves it on.
LEMMA ForwardStep == TypeOK /\ [Next]_vars => StageForwardStep
<1> SUFFICES ASSUME TypeOK, [Next]_vars PROVE StageForwardStep
  OBVIOUS
<1>a. payload_len \in Nat /\ state \in WriterStates
  BY PayloadLensAssumption DEF TypeOK
<1>s. ASSUME state' = state, payload_len' = payload_len PROVE StageForwardStep
  BY <1>s, StayIsForward
<1>r. ASSUME SinkRefuses \/ SinkNotReady PROVE StageForwardStep
  BY <1>r, <1>s DEF SinkRefuses, SinkNotReady
<1>1. CASE CallWrite \/ CallFlush \/ CallShutdown
  BY <1>1, <1>s DEF CallWrite, CallFlush, CallShutdown
<1>2. CASE SizeStep
  <2> DEFINE rest == SubSeq(SizeField(payload_len), state.pos + 1, LEN_SIZE)
  <2>0. state.tag = "Size" /\ state.pos \in 0..(LEN_SIZE - 1)
    BY <1>2, <1>a DEF SizeStep, WriterStates
  <2>1. rest \in Seq(Byte)
    <3>1. SizeField(payload_len) \in Seq(Byte) /\ Len(SizeField(payload_len)) = LEN_SIZE
      BY <1>a, SizeFieldType DEF LEN_SIZE
    <3>2. /\ state.pos + 1 \in 1..(Len(SizeField(payload_len)) + 1)
          /\ LEN_SIZE \in (state.pos + 1 - 1)..Len(SizeField(payload_len))
      BY <2>0, <3>1 DEF LEN_SIZE
    <3>. QED  BY <3>1, <3>2, SubSeqType
  <2>2. ASSUME NEW k \in Accepted(rest),
               state' = IF state.pos + k = LEN_SIZE THEN Payload(0)
                                                    ELSE Size(state.pos + k),
               payload_len' = payload_len
        PROVE  StageForwardStep
    <3>1. k \in Nat /\ k > 0
      BY <2>1, AcceptedRange DEF Accepted
    <3>. QED  BY <2>0, <2>2, <3>1 DEF StageForwardStep, StageRank, Payload, Size
  <2>3. CASE SinkRefuses
    BY <2>3, <1>r
  <2>. QED  BY <1>2, <2>2, <2>3 DEF SizeStep
<1>3. CASE WritePayload
  <2>0. state.tag = "Payload" /\ state.pos \in Nat
    BY <1>3, <1>a DEF WritePayload, WriterStates
  <2>1. CASE state.pos + Len(buf) > payload_len
    BY <1>3, <1>s, <2>1 DEF WritePayload
  <2>2. ASSUME NEW k \in Accepted(buf),
               state' = IF state.pos + k = payload_len
                          THEN Padding(0) ELSE Payload(state.pos + k),
               payload_len' = payload_len
        PROVE  StageForwardStep
    <3>1. k \in Nat /\ k > 0
      BY AcceptedRange DEF TypeOK, Accepted
    <3>. QED  BY <2>0, <2>2, <3>1 DEF StageForwardStep, StageRank, Payload, Padding
  <2>. QED  BY <1>3, <1>r, <2>1, <2>2 DEF WritePayload
<1>4. CASE WritePadding
  BY <1>4, <1>s DEF WritePadding
<1>5. CASE FlushPayload
  <2>1. CASE payload_len = 0
    <3>1. state.tag = "Payload" /\ state' = Padding(0) /\ payload_len' = payload_len
      BY <1>5, <2>1 DEF FlushPayload
    <3>. QED  BY <3>1 DEF StageForwardStep, StageRank, Padding
  <2>2. CASE payload_len # 0
    BY <1>5, <1>s, <2>2 DEF FlushPayload
  <2>. QED  BY <2>1, <2>2
<1>6. CASE FlushPadding
  <2>0. state.tag = "Padding" /\ state.pos \in Nat /\ PadLen(payload_len) \in Nat
    BY <1>6, <1>a DEF FlushPadding, WriterStates, PadLen
  <2>1. ASSUME NEW k \in Accepted(Zeros(PadLen(payload_len))),
               state' = Padding(state.pos + k),
               payload_len' = payload_len
        PROVE  StageForwardStep
    <3>1. k \in Nat
      BY <2>0, ZerosType, AcceptedRange
    <3>. QED  BY <2>0, <2>1, <3>1 DEF StageForwardStep, Padding
  <2>. QED  BY <1>6, <1>r, <1>s, <2>1 DEF FlushPadding
<1>7. CASE FlushInner
  BY <1>7, <1>r, <1>s DEF FlushInner
<1>8. CASE ShutdownInner
  BY <1>8, <1>r, <1>s DEF ShutdownInner
<1>9. CASE UNCHANGED vars
  BY <1>9, <1>s DEF vars
<1>. QED  BY <1>1, <1>2, <1>3, <1>4, <1>5, <1>6, <1>7, <1>8, <1>9 DEF Next, Step

(***************************************************************************)
(* Over any sink, the writer never returns to an earlier stage or an      *)
(* earlier position of its stage, and its payload_len never changes: the  *)
(* phases of the specification are one-way for every order of write,      *)
(* flush and shutdown and every answer of the sink.                        *)
(***************************************************************************)
THEOREM StagesOneWayHolds == Spec => StagesOneWay
<1>1. TypeOK /\ [Next]_vars => StageForwardStep
  BY ForwardStep
<1>. QED  BY <1>1, TypeCorrect, PTL DEF Spec, StagesOneWay


-----------------------------------------------------------------------------
(***************************************************************************)
(* Over a sink that may take part of a buffer the wire is no longer a     *)
(* prefix of the frame (finding 1), but up to the end of the payload it   *)
(* still is, and past it every byte is zero.                              *)
(***************************************************************************)
WireByte ==
  [i \in Nat |-> IF i <= LEN_SIZE + payload_len THEN Frame(payload_len)[i] ELSE 0]

PartialInv ==
  /\ StageInv
  /\ pc = "write" => /\ sent + Len(buf) <= Len(Stream)
                     /\ buf = SubSeq(Stream, sent + 1, sent + Len(buf))
  /\ \A i \in 1..Len(wire) : wire[i] = WireByte[i]

\* Every state a writer starts in has an empty wire and no poll running.
LEMMA PartialInit == Init => PartialInv
BY StageInit DEF Init, PartialInv

\* A step that leaves the wire, sent and payload_len alone and starts no
\* poll_write keeps PartialInv.
LEMMA PartialQuiet ==
  ASSUME PartialInv, StageInv', UNCHANGED <<payload_len, wire, sent>>,
         pc' # "write" \/ UNCHANGED <<pc, buf>>
  PROVE  PartialInv'
BY DEF PartialInv, WireByte

\* The i-th byte of a slice of a byte sequence starting at its first byte.
LEMMA HeadAt ==
  ASSUME NEW t \in Seq(Byte), NEW k \in 0..Len(t), NEW j \in 1..k
  PROVE  SubSeq(t, 1, k)[j] = t[j]
BY SubSeqAt


\* Every step keeps PartialInv, over any sink.
LEMMA PartialStep == PartialInv /\ [Next]_vars => PartialInv'
<1> SUFFICES ASSUME PartialInv, [Next]_vars PROVE PartialInv'
  OBVIOUS
<1>s. StageInv'
  BY StageStep DEF PartialInv
<1>a. /\ TypeOK /\ payload_len \in Nat /\ payload_len <= Len(Stream)
      /\ wire \in Seq(Byte) /\ buf \in Seq(Byte) /\ sent \in Nat
      /\ state \in WriterStates
  BY PayloadLensAssumption, StreamLongEnough DEF PartialInv, StageInv, TypeOK
<1>f. /\ \A i \in 1..LEN_SIZE : Frame(payload_len)[i] = SizeField(payload_len)[i]
      /\ \A i \in (LEN_SIZE + 1)..(LEN_SIZE + payload_len) :
           Frame(payload_len)[i] = Stream[i - LEN_SIZE]
  BY <1>a, FrameFacts
<1>w. \A i \in 1..Len(wire) : wire[i] = WireByte[i]
  BY DEF PartialInv
<1>b. pc = "write" => /\ sent + Len(buf) <= Len(Stream)
                      /\ buf = SubSeq(Stream, sent + 1, sent + Len(buf))
  BY DEF PartialInv
\* Appending bytes that agree with WireByte keeps the wire conjunct.
<1>x. ASSUME NEW t \in Seq(Byte), wire' = wire \o t, UNCHANGED payload_len,
             \A j \in 1..Len(t) : t[j] = WireByte[Len(wire) + j]
      PROVE  \A i \in 1..Len(wire') : wire'[i] = WireByte'[i]
  <2>1. \A i \in 1..Len(wire \o t) : (wire \o t)[i] = WireByte[i]
    BY <1>a, <1>w, <1>x, ExtendPrefix
  <2>. QED  BY <1>x, <2>1 DEF WireByte
<1>r. ASSUME SinkRefuses \/ SinkNotReady PROVE PartialInv'
  BY <1>r, <1>s, PartialQuiet DEF SinkRefuses, SinkNotReady, Return
<1>1. CASE CallWrite
  <2>1. PICK n \in 0..MaxBuf : /\ sent + n <= Len(Stream)
                               /\ buf' = SubSeq(Stream, sent + 1, sent + n)
    BY <1>1 DEF CallWrite
  <2>2. Len(buf') = n
    <3>1. /\ sent + 1 \in 1..(Len(Stream) + 1)
          /\ sent + n \in (sent + 1 - 1)..Len(Stream)
      BY <1>a, <2>1, StreamAssumption, LenProperties
    <3>. QED  BY <1>a, <2>1, <3>1, SubSeqType, StreamAssumption
  <2>. QED  BY <1>1, <1>s, <1>w, <2>1, <2>2 DEF CallWrite, PartialInv, WireByte
<1>2. CASE CallFlush \/ CallShutdown
  BY <1>2, <1>s, PartialQuiet DEF CallFlush, CallShutdown
<1>3. CASE SizeStep
  <2> DEFINE rest == SubSeq(SizeField(payload_len), state.pos + 1, LEN_SIZE)
  <2>0. state.tag = "Size" /\ state.pos \in 0..(LEN_SIZE - 1) /\ Len(wire) = state.pos
    BY <1>3, <1>a DEF SizeStep, WriterStates, PartialInv, StageInv
  <2>1. /\ SizeField(payload_len) \in Seq(Byte)
        /\ Len(SizeField(payload_len)) = LEN_SIZE
    BY LenSizeVal, <1>a, SizeFieldType
  <2>2. rest \in Seq(Byte) /\ Len(rest) = LEN_SIZE - state.pos
    <3>1. /\ state.pos + 1 \in 1..(Len(SizeField(payload_len)) + 1)
          /\ LEN_SIZE \in (state.pos + 1 - 1)..Len(SizeField(payload_len))
      BY LenSizeVal, <2>0, <2>1
    <3>. QED  BY <2>0, <2>1, <3>1, SubSeqType DEF rest
  <2>3. ASSUME NEW k \in Accepted(rest),
               wire' = wire \o SubSeq(rest, 1, k),
               UNCHANGED <<payload_len, pc, buf, sent>>
        PROVE PartialInv'
    <3>1. k \in 1..(LEN_SIZE - state.pos)
      BY <2>2, AcceptedRange
    <3>2. SubSeq(rest, 1, k) \in Seq(Byte) /\ Len(SubSeq(rest, 1, k)) = k
      BY <2>0, <2>2, <3>1, SubSeqType DEF LEN_SIZE
    <3>3. \A j \in 1..k : SubSeq(rest, 1, k)[j] = WireByte[Len(wire) + j]
      <4> TAKE j \in 1..k
      <4>1. SubSeq(rest, 1, k)[j] = rest[j]
        BY <2>0, <2>2, <3>1, HeadAt DEF LEN_SIZE
      <4>2. rest[j] = SizeField(payload_len)[state.pos + j]
        <5>1. /\ state.pos + 1 \in 1..(Len(SizeField(payload_len)) + 1)
              /\ LEN_SIZE \in (state.pos + 1 - 1)..Len(SizeField(payload_len))
              /\ j \in 1..(LEN_SIZE - (state.pos + 1) + 1)
          BY <2>0, <2>1, <3>1 DEF LEN_SIZE
        <5>2. SubSeq(SizeField(payload_len), state.pos + 1, LEN_SIZE)[j]
              = SizeField(payload_len)[state.pos + 1 + j - 1]
          BY <2>1, <5>1, SubSeqAt
        <5>3. state.pos + 1 + j - 1 = state.pos + j
          BY <2>0, <3>1 DEF LEN_SIZE
        <5>. QED  BY <5>2, <5>3 DEF rest
      <4>3. state.pos + j \in 1..LEN_SIZE /\ state.pos + j <= LEN_SIZE + payload_len
        <5>1. payload_len \in Nat
          BY <1>a
        <5>2. state.pos \in 0..7 /\ k \in 1..(8 - state.pos) /\ j \in 1..k
          BY <2>0, <3>1 DEF LEN_SIZE
        <5>. QED  BY <5>1, <5>2 DEF LEN_SIZE
      <4>4. WireByte[Len(wire) + j] = Frame(payload_len)[state.pos + j]
        BY <2>0, <4>3 DEF WireByte
      <4>. QED  BY <1>f, <4>1, <4>2, <4>3, <4>4
    <3>. QED  BY <1>s, <1>b, <2>3, <3>2, <3>3, <1>x DEF PartialInv
  <2>r. CASE SinkRefuses
    BY <2>r, <1>r
  <2>. QED  BY <1>3, <2>r, <2>3 DEF SizeStep
<1>4. CASE WritePayload
  <2>0. /\ pc = "write" /\ state.tag = "Payload" /\ state.pos \in Nat
        /\ Len(wire) = LEN_SIZE + state.pos /\ sent = state.pos
    BY <1>4, <1>a DEF WritePayload, WriterStates, PartialInv, StageInv
  <2>1. CASE state.pos + Len(buf) > payload_len
    BY <1>4, <2>1, <1>s, PartialQuiet DEF WritePayload, Return
  <2>r. CASE SinkRefuses
    BY <2>r, <1>r
  <2>2. ASSUME state.pos + Len(buf) <= payload_len,
               NEW k \in Accepted(buf),
               wire' = wire \o SubSeq(buf, 1, k),
               Return("Ok", k),
               UNCHANGED payload_len
        PROVE PartialInv'
    <3>1. k \in 1..Len(buf)
      BY <1>a, AcceptedRange
    <3>2. SubSeq(buf, 1, k) \in Seq(Byte) /\ Len(SubSeq(buf, 1, k)) = k
      BY <1>a, <3>1, SubSeqType
    <3>3. \A j \in 1..k : SubSeq(buf, 1, k)[j] = WireByte[Len(wire) + j]
      <4> TAKE j \in 1..k
      <4>0. Len(buf) \in Nat /\ j \in 1..Len(buf) /\ Len(Stream) \in Nat
            /\ sent + Len(buf) <= Len(Stream)
        BY <1>a, <1>b, <2>0, <3>1, StreamAssumption, LenProperties
      <4>1. SubSeq(buf, 1, k)[j] = buf[j]
        BY <1>a, <3>1, HeadAt
      <4>2. buf[j] = Stream[sent + j]
        <5>1. /\ sent + 1 \in 1..(Len(Stream) + 1)
              /\ sent + Len(buf) \in (sent + 1 - 1)..Len(Stream)
              /\ j \in 1..((sent + Len(buf)) - (sent + 1) + 1)
          BY <1>a, <4>0
        <5>2. SubSeq(Stream, sent + 1, sent + Len(buf))[j] = Stream[sent + 1 + j - 1]
          BY <5>1, StreamAssumption, SubSeqAt
        <5>3. buf[j] = SubSeq(Stream, sent + 1, sent + Len(buf))[j]
          BY <1>b, <2>0
        <5>4. sent + 1 + j - 1 = sent + j
          BY <1>a, <4>0
        <5>. QED  BY <5>2, <5>3, <5>4
      <4>3. /\ Len(wire) + j \in (LEN_SIZE + 1)..(LEN_SIZE + payload_len)
            /\ Len(wire) + j - LEN_SIZE = sent + j
        <5>1. state.pos + Len(buf) <= payload_len
          BY <2>2
        <5>2. Len(wire) = 8 + state.pos /\ sent = state.pos /\ state.pos \in Nat
          BY <2>0 DEF LEN_SIZE
        <5>3. payload_len \in Nat /\ j \in Nat /\ 1 <= j /\ j <= Len(buf)
          BY <1>a, <4>0
        <5>. QED  BY <5>1, <5>2, <5>3 DEF LEN_SIZE
      <4>4. WireByte[Len(wire) + j] = Frame(payload_len)[Len(wire) + j]
        BY <1>a, <4>3 DEF WireByte, LEN_SIZE
      <4>5. Frame(payload_len)[Len(wire) + j] = Stream[sent + j]
        <5>1. \A i \in (LEN_SIZE + 1)..(LEN_SIZE + payload_len) :
                Frame(payload_len)[i] = Stream[i - LEN_SIZE]
          BY <1>f
        <5>. QED  BY <5>1, <4>3 DEF LEN_SIZE
      <4>. QED  BY <4>1, <4>2, <4>4, <4>5
    <3>4. pc' = "idle"
      BY <2>2 DEF Return
    <3>. QED  BY <1>s, <2>2, <3>2, <3>3, <3>4, <1>x DEF PartialInv
  <2>3. CASE state.pos + Len(buf) <= payload_len
    <3>1. SinkRefuses \/ \E k \in Accepted(buf) :
                           /\ wire' = wire \o SubSeq(buf, 1, k)
                           /\ state' = IF state.pos + k = payload_len
                                        THEN Padding(0) ELSE Payload(state.pos + k)
                           /\ sent' = sent + k
                           /\ Return("Ok", k)
                           /\ UNCHANGED <<payload_len, op, buf>>
      <4>1. ~(state.pos + Len(buf) > payload_len)
        BY <1>a, <2>0, <2>3
      <4>. QED  BY <1>4, <4>1 DEF WritePayload
    <3>. QED  BY <2>2, <2>r, <2>3, <3>1
  <2>. QED  BY <1>a, <2>0, <2>1, <2>3
<1>5. CASE WritePadding
  BY <1>5, <1>s, PartialQuiet DEF WritePadding, Return
<1>6. CASE FlushPayload
  BY <1>6, <1>s, PartialQuiet DEF FlushPayload
<1>7. CASE FlushPadding
  <2>0. /\ pc = "flush" /\ state.tag = "Padding"
        /\ Len(wire) >= LEN_SIZE + payload_len
        /\ PadLen(payload_len) \in Nat
    <3>1. pc = "flush" /\ state.tag = "Padding" /\ state.pos \in Nat
      BY <1>7, <1>a DEF FlushPadding, WriterStates
    <3>. QED  BY <1>a, <3>1 DEF PartialInv, StageInv, PadLen, LEN_SIZE
  <2>1. CASE state.pos = PadLen(payload_len)
    BY <1>7, <2>1, <1>s, PartialQuiet DEF FlushPadding
  <2>r. CASE SinkRefuses
    BY <2>r, <1>r
  <2>2. ASSUME NEW k \in Accepted(Zeros(PadLen(payload_len))),
               wire' = wire \o Zeros(k),
               UNCHANGED <<payload_len, pc, buf, sent>>
        PROVE PartialInv'
    <3>1. k \in Nat
      BY <2>0, ZerosType, AcceptedRange
    <3>2. Zeros(k) \in Seq(Byte) /\ Len(Zeros(k)) = k
      BY <3>1, ZerosType
    <3>3. \A j \in 1..k : Zeros(k)[j] = WireByte[Len(wire) + j]
      <4> TAKE j \in 1..k
      <4>1. Zeros(k)[j] = 0
        BY DEF Zeros
      <4>2. Len(wire) + j \in Nat /\ ~(Len(wire) + j <= LEN_SIZE + payload_len)
        BY <1>a, <2>0 DEF LEN_SIZE
      <4>. QED  BY <4>1, <4>2 DEF WireByte
    <3>. QED  BY <1>s, <1>b, <2>2, <3>2, <3>3, <1>x DEF PartialInv
  <2>. QED  BY <1>7, <2>1, <2>r, <2>2 DEF FlushPadding
<1>8. CASE FlushInner
  BY <1>8, <1>r, <1>s, PartialQuiet DEF FlushInner, Return
<1>9. CASE ShutdownInner
  BY <1>9, <1>r, <1>s, PartialQuiet DEF ShutdownInner
<1>10. CASE UNCHANGED vars
  BY <1>10, <1>s, PartialQuiet DEF vars
<1>. QED
  BY <1>1, <1>2, <1>3, <1>4, <1>5, <1>6, <1>7, <1>8, <1>9, <1>10 DEF Next, Step


\* Where the stage leaves the wire, sent counts the payload bytes on it.
LEMMA StageSentIsCount ==
  StageInv => sent = Abstract!PayloadCount(Len(wire))
<1> SUFFICES ASSUME StageInv PROVE sent = Abstract!PayloadCount(Len(wire))
  OBVIOUS
<1>1. payload_len \in Nat /\ state \in WriterStates
  BY PayloadLensAssumption DEF StageInv, TypeOK
<1>2. CASE state.tag = "Size"
  BY <1>1, <1>2 DEF StageInv, WriterStates, LEN_SIZE, Abstract!PayloadCount
<1>3. CASE state.tag = "Payload"
  <2>1. state.pos \in Nat
    BY <1>1, <1>3 DEF WriterStates
  <2>. QED  BY <1>1, <1>3, <2>1 DEF StageInv, LEN_SIZE, Abstract!PayloadCount
<1>4. CASE state.tag = "Padding"
  <2>1. state.pos \in Nat
    BY <1>1, <1>4 DEF WriterStates
  <2>. QED  BY <1>1, <1>4, <2>1 DEF StageInv, LEN_SIZE, Abstract!PayloadCount
<1>. QED  BY <1>1, <1>2, <1>3, <1>4 DEF WriterStates

\* Up to the end of the payload the wire is the frame.
LEMMA PartialFramePart ==
  PartialInv => \A j \in 1..Len(wire) :
                  j <= LEN_SIZE + payload_len => wire[j] = Frame(payload_len)[j]
<1> SUFFICES ASSUME PartialInv, NEW j \in 1..Len(wire), j <= LEN_SIZE + payload_len
             PROVE  wire[j] = Frame(payload_len)[j]
  OBVIOUS
<1>1. wire[j] = WireByte[j]
  BY DEF PartialInv
<1>2. j \in Nat
  OBVIOUS
<1>. QED  BY <1>1, <1>2 DEF WireByte

\* Over any sink, the payload bytes on the wire are the first `sent` bytes
\* of the stream.
LEMMA PartialCallerView == PartialInv => CallerViewMatchesWire
<1> SUFFICES ASSUME PartialInv PROVE CallerViewMatchesWire
  OBVIOUS
<1>. QED  BY PartialFramePart, StageSentIsCount, CallerViewFrom DEF PartialInv, StageInv

\* Over any sink, the wire is the size field, then payload bytes of the
\* stream, then zeros.
LEMMA PartialIntact == PartialInv => PayloadIntactPaddingZero
<1> SUFFICES ASSUME PartialInv PROVE PayloadIntactPaddingZero
  OBVIOUS
<1>a. payload_len \in Nat /\ payload_len <= Len(Stream) /\ sent \in Nat
      /\ state \in WriterStates
  BY PayloadLensAssumption, StreamLongEnough DEF PartialInv, StageInv, TypeOK
<1>1. PayloadOnWire = SubSeq(Stream, 1, Len(PayloadOnWire))
  <2>1. PayloadOnWire = SubSeq(Stream, 1, sent)
    BY PartialCallerView DEF CallerViewMatchesWire
  <2>2. sent <= payload_len
    <3>1. CASE state.tag = "Size"
      BY <1>a, <3>1 DEF PartialInv, StageInv
    <3>2. CASE state.tag = "Payload"
      BY <1>a, <3>2 DEF PartialInv, StageInv
    <3>3. CASE state.tag = "Padding"
      BY <1>a, <3>3 DEF PartialInv, StageInv
    <3>. QED  BY <1>a, <3>1, <3>2, <3>3 DEF WriterStates
  <2>3. Len(SubSeq(Stream, 1, sent)) = sent
    BY <1>a, <2>2, StreamAssumption, SubSeqType
  <2>. QED  BY <2>1, <2>3
<1>2. \A i \in 1..Len(wire) : i <= LEN_SIZE => wire[i] = SizeField(payload_len)[i]
  <2>1. \A i \in 1..LEN_SIZE : Frame(payload_len)[i] = SizeField(payload_len)[i]
    BY <1>a, FrameFacts
  <2>. QED  BY <1>a, <2>1, PartialFramePart DEF LEN_SIZE
<1>3. \A i \in 1..Len(wire) : i > LEN_SIZE + payload_len => wire[i] = 0
  <2> SUFFICES ASSUME NEW i \in 1..Len(wire), i > LEN_SIZE + payload_len
              PROVE  wire[i] = 0
    OBVIOUS
  <2>1. wire[i] = WireByte[i]
    BY DEF PartialInv
  <2>2. i \in Nat /\ ~(i <= LEN_SIZE + payload_len)
    BY <1>a DEF LEN_SIZE
  <2>. QED  BY <2>1, <2>2 DEF WireByte
<1>. QED  BY <1>1, <1>2, <1>3 DEF PayloadIntactPaddingZero

(***************************************************************************)
(* Whether the sink takes whole buffers or any part of them, the payload   *)
(* bytes on the sink are at every moment the first bytes of the stream,    *)
(* as many as poll_write has told its caller it accepted: the count        *)
(* returned is the sink's, and the size field written in the same call is  *)
(* not counted.                                                            *)
(***************************************************************************)
THEOREM CallerViewHolds == Spec => []CallerViewMatchesWire
<1>1. Init => PartialInv
  BY PartialInit
<1>2. PartialInv /\ [Next]_vars => PartialInv'
  BY PartialStep
<1>3. PartialInv => CallerViewMatchesWire
  BY PartialCallerView
<1>. QED  BY <1>1, <1>2, <1>3, PTL DEF Spec

(***************************************************************************)
(* Over a sink that may take any part of a buffer, what it holds is the   *)
(* size field, then bytes of the payload in stream order, then only zeros: *)
(* a partial acceptance of the size field or of a payload buffer never    *)
(* mixes them up, even though the padding may overshoot (finding 1).      *)
(***************************************************************************)
THEOREM PayloadIntactHolds == Spec => []PayloadIntactPaddingZero
<1>1. Init => PartialInv
  BY PartialInit
<1>2. PartialInv /\ [Next]_vars => PartialInv'
  BY PartialStep
<1>3. PartialInv => PayloadIntactPaddingZero
  BY PartialIntact
<1>. QED  BY <1>1, <1>2, <1>3, PTL DEF Spec

-----------------------------------------------------------------------------
\* Over any sink, poll_shutdown finds the writer at the end of the padding
\* exactly when the sink holds the whole frame: the wire is the frame up to
\* the end of the payload and zeros after it, so it is the frame as soon as
\* it is as long, and the stage tells how long it is.
LEMMA PartialPadded ==
  ASSUME PartialInv, PayloadEndOnlyEmpty
  PROVE  PaddedIffComplete
<1> SUFFICES ASSUME pc = "shutdown_inner"
             PROVE  (state = Padding(PadLen(payload_len))) <=> (wire = Frame(payload_len))
  BY DEF PaddedIffComplete
<1> DEFINE F == Frame(payload_len)  P == PadLen(payload_len)
<1>1. /\ payload_len \in Nat /\ payload_len <= Len(Stream)
      /\ state \in WriterStates /\ wire \in Seq(Byte)
  BY PayloadLensAssumption, StreamLongEnough DEF PartialInv, StageInv, TypeOK
<1>2. /\ F \in Seq(Byte) /\ Len(F) = LEN_SIZE + payload_len + P /\ P \in Nat
      /\ \A i \in (LEN_SIZE + payload_len + 1)..(LEN_SIZE + payload_len + P) :
           F[i] = 0
  BY <1>1, FrameFacts DEF PadLen
<1>3. wire = F <=> Len(wire) = Len(F)
  <2>1. ASSUME Len(wire) = Len(F) PROVE wire = F
    <3>1. \A i \in 1..Len(wire) : wire[i] = F[i]
      <4> TAKE i \in 1..Len(wire)
      <4>1. i \in Nat /\ wire[i] = WireByte[i]
        BY DEF PartialInv
      <4>2. CASE i <= LEN_SIZE + payload_len
        BY <4>1, <4>2 DEF WireByte
      <4>3. CASE ~(i <= LEN_SIZE + payload_len)
        <5>1. WireByte[i] = 0
          BY <4>1, <4>3 DEF WireByte
        <5>2. i \in (LEN_SIZE + payload_len + 1)..(LEN_SIZE + payload_len + P)
          BY <1>1, <1>2, <2>1, <4>1, <4>3 DEF LEN_SIZE
        <5>. QED  BY <1>2, <4>1, <5>1, <5>2
      <4>. QED  BY <4>2, <4>3
    <3>. QED  BY <1>1, <1>2, <2>1, <3>1, SeqEqual
  <2>. QED  BY <2>1
<1>4. CASE state.tag = "Size"
  <2>1. Len(wire) = state.pos /\ state.pos \in 0..(LEN_SIZE - 1)
    BY <1>1, <1>4 DEF PartialInv, StageInv, WriterStates
  <2>2. Len(wire) # Len(F) /\ state # Padding(P)
    BY <1>1, <1>2, <1>4, <2>1 DEF Padding, LEN_SIZE
  <2>. QED  BY <1>3, <2>2
<1>5. CASE state.tag = "Payload"
  <2>1. /\ Len(wire) = LEN_SIZE + state.pos /\ state.pos \in Nat
        /\ state.pos <= payload_len /\ state.pos # payload_len
    BY <1>1, <1>5 DEF PartialInv, StageInv, WriterStates, PayloadEndOnlyEmpty
  <2>2. Len(wire) # Len(F) /\ state # Padding(P)
    BY <1>1, <1>2, <1>5, <2>1 DEF Padding, LEN_SIZE
  <2>. QED  BY <1>3, <2>2
<1>6. CASE state.tag = "Padding"
  <2>1. /\ Len(wire) = LEN_SIZE + payload_len + state.pos /\ state.pos \in Nat
        /\ state = [tag |-> "Padding", pos |-> state.pos]
    BY <1>1, <1>6 DEF PartialInv, StageInv, WriterStates
  <2>2. Len(wire) = Len(F) <=> state.pos = P
    BY <1>1, <1>2, <2>1 DEF LEN_SIZE
  <2>3. state = Padding(P) <=> state.pos = P
    BY <2>1 DEF Padding
  <2>. QED  BY <1>3, <2>2, <2>3
<1>. QED  BY <1>1, <1>4, <1>5, <1>6 DEF WriterStates

\* In a Drained state the sink holds the size field, the payload the
\* caller was told of and, once that is all of it, the whole padding.
LEMMA DrainedLen ==
  ASSUME StageInv, PayloadEndOnlyEmpty, Drained
  PROVE  Len(wire) = LEN_SIZE + sent
                     + (IF sent = payload_len THEN PadLen(payload_len) ELSE 0)
<1>a. payload_len \in Nat /\ state \in WriterStates
  BY PayloadLensAssumption DEF StageInv, TypeOK
<1>1. CASE state.tag = "Payload" /\ payload_len # 0
  <2>1. state.pos \in Nat /\ state.pos < payload_len
    BY <1>a, <1>1 DEF StageInv, PayloadEndOnlyEmpty, WriterStates
  <2>. QED  BY <1>a, <1>1, <2>1 DEF StageInv
<1>2. CASE state = Padding(PadLen(payload_len))
  BY <1>a, <1>2 DEF StageInv, Padding
<1>. QED  BY <1>1, <1>2 DEF Drained

\* The invariant of the two theorems below.
LawsInv == PartialInv /\ PayloadEndOnlyEmpty /\ LawInv

\* PartialInv, PayloadEndOnlyEmpty and LawInv hold in every reachable state.
LEMMA LawsInvariant == Spec => []LawsInv
<1>1. Init => LawsInv
  BY PartialInit, EndInit, LawInit DEF LawsInv
<1>2. LawsInv /\ [Next]_vars => LawsInv'
  <2> SUFFICES ASSUME LawsInv, [Next]_vars PROVE LawsInv'
    OBVIOUS
  <2>1. TypeOK /\ PaddedIffComplete
    BY PartialPadded DEF LawsInv, PartialInv, StageInv
  <2>2. PartialInv' /\ PayloadEndOnlyEmpty'
    BY PartialStep, EndStep DEF LawsInv, PartialInv, StageInv
  <2>3. LawInv'
    BY <2>1, LawStep DEF LawsInv
  <2>. QED  BY <2>2, <2>3 DEF LawsInv
<1>. QED  BY <1>1, <1>2, PTL DEF Spec

(***************************************************************************)
(* Over any sink, whole or partial, poll_shutdown reports Ok only if the   *)
(* sink holds the whole frame, and UncleanShutdown only if it does not,    *)
(* for every payload length and every order of write, flush and shutdown: *)
(* the padding check of poll_shutdown is true to the wire.                 *)
(***************************************************************************)
THEOREM ShutdownLawHolds == Spec => []ShutdownLaw
<1>1. LawsInv => ShutdownLaw
  BY DEF LawsInv, LawInv
<1>. QED  BY <1>1, LawsInvariant, PTL

(***************************************************************************)
(* Over any sink, a poll_flush that returns Ok has handed the sink the    *)
(* size field, every payload byte the caller was told of and, once that   *)
(* is the whole payload, all of the padding: nothing owed is left in the  *)
(* writer after an Ok flush, however the sink split the buffers.          *)
(***************************************************************************)
THEOREM FlushDrainsHolds == Spec => []FlushDrains
<1>1. LawsInv => FlushDrains
  <2> SUFFICES ASSUME LawsInv, ret.op = "flush", ret.outcome = "Ok"
               PROVE  Len(wire) = LEN_SIZE + sent
                        + (IF sent = payload_len THEN PadLen(payload_len) ELSE 0)
    BY DEF FlushDrains
  <2>. QED  BY DrainedLen DEF LawsInv, LawInv, PartialInv
<1>. QED  BY <1>1, LawsInvariant, PTL



-----------------------------------------------------------------------------
(***************************************************************************)
(* What a reader of the sink gets, over any sink and every order of        *)
(* write, flush and shutdown: once eight bytes are on the sink they decode *)
(* (u64::from_le_bytes) to the payload_len the writer was built with, so a *)
(* size field resumed after Pending or a partial acceptance (poll_write    *)
(* and poll_flush in Size(pos)) is never garbled; and a poll_shutdown that *)
(* returns Ok leaves the sink on an 8-byte boundary, where the next packet *)
(* of a NAR may start.                                                     *)
(***************************************************************************)
SinkReadable ==
  /\ Len(wire) >= LEN_SIZE =>
       FromLeBytes(SubSeq(wire, 1, LEN_SIZE)) = payload_len
  /\ (ret.op = "shutdown" /\ ret.outcome = "Ok") => Len(wire) % 8 = 0


(***************************************************************************)
(* For every payload length of the code's u64 range and over any sink: a *)
(* reader decoding the first eight bytes on the sink gets payload_len,    *)
(* however poll_write and poll_flush resumed the size field, and a        *)
(* poll_shutdown that returns Ok leaves the sink on an 8-byte boundary.   *)
(***************************************************************************)
THEOREM SinkReadableHolds ==
  ASSUME PayloadLens \subseteq 0..U64Max
  PROVE  Spec => []SinkReadable
<1>1. LawsInv => SinkReadable
  <2> SUFFICES ASSUME LawsInv PROVE SinkReadable
    OBVIOUS
  <2>a. /\ payload_len \in Nat /\ payload_len <= Len(Stream)
        /\ payload_len \in 0..U64Max /\ wire \in Seq(Byte)
    BY PayloadLensAssumption, StreamLongEnough
       DEF LawsInv, PartialInv, StageInv, TypeOK
  <2>1. ASSUME Len(wire) >= LEN_SIZE
        PROVE  FromLeBytes(SubSeq(wire, 1, LEN_SIZE)) = payload_len
    <3>1. \A i \in 1..LEN_SIZE : wire[i] = Frame(payload_len)[i]
      BY <2>1, <2>a, PartialFramePart DEF LawsInv, LEN_SIZE
    <3>2. \A i \in 1..LEN_SIZE : Frame(payload_len)[i] = SizeField(payload_len)[i]
      BY <2>a, FrameFacts
    <3>3. \A i \in 1..LEN_SIZE : SubSeq(wire, 1, LEN_SIZE)[i] = wire[i]
      BY <2>1, <2>a DEF LEN_SIZE
    <3>4. FromLeBytes(SubSeq(wire, 1, LEN_SIZE)) = FromLeBytes(SizeField(payload_len))
      BY <3>1, <3>2, <3>3 DEF FromLeBytes, LEN_SIZE
    <3>. QED  BY <2>a, <3>4, SizeFieldDecodes
  <2>2. ASSUME ret.op = "shutdown", ret.outcome = "Ok"
        PROVE  Len(wire) % 8 = 0
    <3>1. wire = Frame(payload_len)
      BY <2>2 DEF LawsInv, LawInv, ShutdownLaw
    <3>. QED  BY <2>a, <3>1, FrameAligned
  <2>. QED  BY <2>1, <2>2 DEF SinkReadable
<1>. QED  BY <1>1, LawsInvariant, PTL

=============================================================================
