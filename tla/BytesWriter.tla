---------------------------- MODULE BytesWriter ----------------------------
(***************************************************************************)
(* The "bytes wire packet" writer of nix-compat                           *)
(* (src/nix-compat/src/wire/bytes_writer.rs): an AsyncWrite adapter that   *)
(* frames a payload of a length fixed at construction as                   *)
(*     LE64(payload_len) ++ payload ++ zero padding to a multiple of 8.    *)
(*                                                                         *)
(* One poll_write / poll_flush / poll_shutdown call runs a loop in which   *)
(* every iteration makes at most one call into the inner writer (the      *)
(* sink).  The model takes one step per loop iteration; `pc` says which    *)
(* poll is running.  The sink answers each call nondeterministically:      *)
(* Pending, an error, Ok(0), or Ok(k) for some k bytes of the buffer.      *)
(* The caller (a write_all/flush/shutdown future) issues the polls.        *)
(***************************************************************************)
EXTENDS Naturals, Sequences, WireBytes

CONSTANTS
  PayloadLens,    \* the payload lengths a writer may be constructed with
  Stream,         \* the bytes the caller has to offer, in order
  MaxBuf,         \* the longest buffer the caller passes to one poll_write
  PartialWrites,  \* may the sink accept a strict prefix of a buffer?
  WireCap         \* bound on the bytes the sink accepts in total

\* LEN_SIZE: the length of the size field.
LEN_SIZE == 8

ASSUME PayloadLensAssumption == PayloadLens \subseteq Nat /\ PayloadLens # {}
ASSUME StreamAssumption == Stream \in Seq(Byte)
ASSUME MaxBufAssumption == MaxBuf \in Nat
ASSUME PartialWritesAssumption == PartialWrites \in BOOLEAN
ASSUME WireCapAssumption == WireCap \in Nat
ASSUME StreamLongEnough == \A n \in PayloadLens : n <= Len(Stream)

VARIABLES
  payload_len,  \* the expected payload length, fixed by BytesWriter::new
  state,        \* BytesWriterState: [tag |-> "Size"|"Payload"|"Padding", pos]
  wire,         \* the bytes the sink has accepted so far
  pc,           \* which poll is running: "idle", "write", "flush",
                \* "flush_inner", "shutdown_inner", or "done"
  op,           \* the operation the caller invoked: "write", "flush", "shutdown"
  buf,          \* the buffer of the running poll_write
  sent,         \* the payload bytes poll_write told the caller it accepted
  ret           \* what the last poll returned to the caller

vars == <<payload_len, state, wire, pc, op, buf, sent, ret>>

Size(p) == [tag |-> "Size", pos |-> p]
Payload(p) == [tag |-> "Payload", pos |-> p]
Padding(p) == [tag |-> "Padding", pos |-> p]

\* The frame a writer constructed with payload length n must produce.
Frame(n) == SizeField(n) \o SubSeq(Stream, 1, n) \o Zeros(PadLen(n))

-----------------------------------------------------------------------------
(* The sink.  Ok(0) is a refusal: ensure_nonzero_bytes_written turns it   *)
(* into an error, like Pending and an error turn into a return.           *)

\* How many bytes of a non-empty buffer b the sink may accept in one call.
Accepted(b) ==
  {k \in (IF PartialWrites THEN 1..Len(b) ELSE {Len(b)}) :
     k > 0 /\ Len(wire) + k <= WireCap}

\* The poll returns outcome n to the caller; the writer's state is kept.
Return(outcome, n) ==
  /\ pc' = "idle"
  /\ ret' = [op |-> op, outcome |-> outcome, n |-> n]

\* The sink answers Pending, an error, or Ok(0) (ensure_nonzero_bytes_written).
SinkRefuses ==
  /\ \E o \in {"Pending", "SinkError", "SinkZero"} : Return(o, 0)
  /\ UNCHANGED <<payload_len, state, wire, op, buf, sent>>

\* poll_flush / poll_shutdown of the sink: Pending or an error.
SinkNotReady ==
  /\ \E o \in {"Pending", "SinkError"} : Return(o, 0)
  /\ UNCHANGED <<payload_len, state, wire, op, buf, sent>>

-----------------------------------------------------------------------------
(***************************************************************************)
(* Mutants: plausible slips in the code of the actions below, each used in *)
(* place of the action it names to show that a property notices it.       *)
(***************************************************************************)

\* SizeStep without the `new_pos == LEN_SIZE` transition to Payload(0).
SizeStepNoStageChange ==
  /\ pc \in {"write", "flush"}
  /\ state.tag = "Size"
  /\ LET rest == SubSeq(SizeField(payload_len), state.pos + 1, LEN_SIZE) IN
     \/ SinkRefuses
     \/ \E k \in Accepted(rest) :
          /\ wire' = wire \o SubSeq(rest, 1, k)
          /\ state' = Size(state.pos + k)
          /\ UNCHANGED <<payload_len, pc, op, buf, sent, ret>>

\* SizeStep that offers the whole size field again instead of size_field[pos..].
SizeStepRestartsField ==
  /\ pc \in {"write", "flush"}
  /\ state.tag = "Size"
  /\ LET rest == SizeField(payload_len) IN
     \/ SinkRefuses
     \/ \E k \in Accepted(rest) :
          /\ wire' = wire \o SubSeq(rest, 1, k)
          /\ state' = IF state.pos + k >= LEN_SIZE THEN Payload(0)
                                                  ELSE Size(state.pos + k)
          /\ UNCHANGED <<payload_len, pc, op, buf, sent, ret>>

\* WritePayload without the excess check.
WritePayloadNoExcessCheck ==
  /\ pc = "write"
  /\ state.tag = "Payload"
  /\ \/ SinkRefuses
     \/ \E k \in Accepted(buf) :
          /\ wire' = wire \o SubSeq(buf, 1, k)
          /\ state' = IF state.pos + k >= payload_len
                        THEN Padding(0) ELSE Payload(state.pos + k)
          /\ sent' = sent + k
          /\ Return("Ok", k)
          /\ UNCHANGED <<payload_len, op, buf>>

\* WritePayload returning buf.len() rather than the sink's count.
WritePayloadReturnsBufLen ==
  /\ pc = "write"
  /\ state.tag = "Payload"
  /\ IF state.pos + Len(buf) > payload_len
       THEN /\ Return("ExcessPayload", 0)
            /\ UNCHANGED <<payload_len, state, wire, op, buf, sent>>
       ELSE \/ SinkRefuses
            \/ \E k \in Accepted(buf) :
                 /\ wire' = wire \o SubSeq(buf, 1, k)
                 /\ state' = IF state.pos + k = payload_len
                               THEN Padding(0) ELSE Payload(state.pos + k)
                 /\ sent' = sent + Len(buf)
                 /\ Return("Ok", Len(buf))
                 /\ UNCHANGED <<payload_len, op, buf>>

\* FlushPadding that breaks out of the loop without writing the padding.
FlushPaddingSkipped ==
  /\ pc = "flush"
  /\ state.tag = "Padding"
  /\ pc' = "flush_inner"
  /\ UNCHANGED <<payload_len, state, wire, op, buf, sent, ret>>

\* FlushPadding that sets pos to what the sink took this time, forgetting
\* the padding bytes already written.
FlushPaddingRestarts ==
  /\ pc = "flush"
  /\ state.tag = "Padding"
  /\ IF state.pos # PadLen(payload_len)
       THEN \/ SinkRefuses
            \/ \E k \in Accepted(Zeros(PadLen(payload_len))) :
                 /\ wire' = wire \o Zeros(k)
                 /\ state' = Padding(k)
                 /\ UNCHANGED <<payload_len, pc, op, buf, sent, ret>>
       ELSE /\ pc' = "flush_inner"
            /\ UNCHANGED <<payload_len, state, wire, op, buf, sent, ret>>

\* FlushPayload without the `else break`: the loop spins on Payload(_).
FlushPayloadNoBreak ==
  /\ pc = "flush"
  /\ state.tag = "Payload"
  /\ IF payload_len = 0
       THEN state' = Padding(0)
       ELSE UNCHANGED state
  /\ UNCHANGED <<payload_len, wire, pc, op, buf, sent, ret>>

\* ShutdownInner without the padding check: always reports the sink's Ok.
ShutdownInnerNoPaddingCheck ==
  /\ pc = "shutdown_inner"
  /\ \/ SinkNotReady
     \/ /\ ret' = [op |-> "shutdown", n |-> 0, outcome |-> "Ok"]
        /\ pc' = "done"
        /\ UNCHANGED <<payload_len, state, wire, op, buf, sent>>

-----------------------------------------------------------------------------
Init ==
  /\ payload_len \in PayloadLens
  /\ state = Size(0)
  /\ wire = <<>>
  /\ pc = "idle"
  /\ op = "none"
  /\ buf = <<>>
  /\ sent = 0
  /\ ret = [op |-> "none", outcome |-> "none", n |-> 0]

(* The caller starts a poll.  A buffer is the next n bytes of the stream  *)
(* after those already accepted, as write_all passes them.                *)
CallWrite ==
  /\ pc = "idle"
  /\ \E n \in 0..MaxBuf :
       /\ sent + n <= Len(Stream)
       /\ buf' = SubSeq(Stream, sent + 1, sent + n)
  /\ pc' = "write"
  /\ op' = "write"
  /\ UNCHANGED <<payload_len, state, wire, sent, ret>>

CallFlush ==
  /\ pc = "idle"
  /\ pc' = "flush"
  /\ op' = "flush"
  /\ UNCHANGED <<payload_len, state, wire, buf, sent, ret>>

\* poll_shutdown starts with poll_flush.
CallShutdown ==
  /\ pc = "idle"
  /\ pc' = "flush"
  /\ op' = "shutdown"
  /\ UNCHANGED <<payload_len, state, wire, buf, sent, ret>>

\* Size(pos), in the loop of poll_write or of poll_flush: write the rest of
\* the size field; once all 8 bytes are out, continue with Payload(0).
SizeStep ==
  /\ pc \in {"write", "flush"}
  /\ state.tag = "Size"
  /\ LET rest == SubSeq(SizeField(payload_len), state.pos + 1, LEN_SIZE) IN
     \/ SinkRefuses
     \/ \E k \in Accepted(rest) :
          /\ wire' = wire \o SubSeq(rest, 1, k)
          /\ state' = IF state.pos + k = LEN_SIZE THEN Payload(0)
                                                 ELSE Size(state.pos + k)
          /\ UNCHANGED <<payload_len, pc, op, buf, sent, ret>>

\* Payload(pos) in poll_write: refuse excess, else forward buf and return
\* the count the sink accepted.
WritePayload ==
  /\ pc = "write"
  /\ state.tag = "Payload"
  /\ IF state.pos + Len(buf) > payload_len
       THEN /\ Return("ExcessPayload", 0)
            /\ UNCHANGED <<payload_len, state, wire, op, buf, sent>>
       ELSE \/ SinkRefuses
            \/ \E k \in Accepted(buf) :
                 /\ wire' = wire \o SubSeq(buf, 1, k)
                 /\ state' = IF state.pos + k = payload_len
                               THEN Padding(0) ELSE Payload(state.pos + k)
                 /\ sent' = sent + k
                 /\ Return("Ok", k)
                 /\ UNCHANGED <<payload_len, op, buf>>

\* Padding(_) in poll_write: every write is excess.
WritePadding ==
  /\ pc = "write"
  /\ state.tag = "Padding"
  /\ Return("ExcessPayload", 0)
  /\ UNCHANGED <<payload_len, state, wire, op, buf, sent>>

\* Payload(_) in poll_flush: an empty payload moves on to Padding(0);
\* otherwise the loop breaks to flush the sink.
FlushPayload ==
  /\ pc = "flush"
  /\ state.tag = "Payload"
  /\ IF payload_len = 0
       THEN /\ state' = Padding(0)
            /\ UNCHANGED <<pc, ret>>
       ELSE /\ pc' = "flush_inner"
            /\ UNCHANGED <<state, ret>>
  /\ UNCHANGED <<payload_len, wire, op, buf, sent>>

\* Padding(pos) in poll_flush: while pos differs from padding_len, offer
\* the sink EMPTY_BYTES[..padding_len] and add what it took to pos.
FlushPadding ==
  /\ pc = "flush"
  /\ state.tag = "Padding"
  /\ IF state.pos # PadLen(payload_len)
       THEN \/ SinkRefuses
            \/ \E k \in Accepted(Zeros(PadLen(payload_len))) :
                 /\ wire' = wire \o Zeros(k)
                 /\ state' = Padding(state.pos + k)
                 /\ UNCHANGED <<payload_len, pc, op, buf, sent, ret>>
       ELSE /\ pc' = "flush_inner"
            /\ UNCHANGED <<payload_len, state, wire, op, buf, sent, ret>>

\* After the loop, poll_flush returns the sink's poll_flush; poll_shutdown
\* goes on to shut the sink down once that flush is Ready(Ok).
FlushInner ==
  /\ pc = "flush_inner"
  /\ \/ SinkNotReady
     \/ /\ op = "flush"
        /\ Return("Ok", 0)
        /\ UNCHANGED <<payload_len, state, wire, op, buf, sent>>
     \/ /\ op = "shutdown"
        /\ pc' = "shutdown_inner"
        /\ UNCHANGED <<payload_len, state, wire, op, buf, sent, ret>>

\* The rest of poll_shutdown: shut the sink down; report its result if the
\* frame is complete (Padding(padding_len)), UncleanShutdown otherwise.
\* Once the sink is shut down the writer is finished.
ShutdownInner ==
  /\ pc = "shutdown_inner"
  /\ \/ SinkNotReady
     \/ /\ ret' = [op |-> "shutdown", n |-> 0,
                   outcome |-> IF state = Padding(PadLen(payload_len))
                                 THEN "Ok" ELSE "UncleanShutdown"]
        /\ pc' = "done"
        /\ UNCHANGED <<payload_len, state, wire, op, buf, sent>>

\* One iteration of a running poll.
Step ==
  \/ SizeStep \/ WritePayload \/ WritePadding
  \/ FlushPayload \/ FlushPadding \/ FlushInner \/ ShutdownInner

Next == CallWrite \/ CallFlush \/ CallShutdown \/ Step

Spec == Init /\ [][Next]_vars

(* A running poll is never suspended by the writer itself: it keeps       *)
(* iterating until it returns, so its steps are weakly fair.  The caller  *)
(* is not: it may stop calling at any time.                               *)
FairSpec == Spec /\ WF_vars(Step)

-----------------------------------------------------------------------------
(***************************************************************************)
(* Properties.                                                             *)
(***************************************************************************)

PCs == {"idle", "write", "flush", "flush_inner", "shutdown_inner", "done"}
Ops == {"none", "write", "flush", "shutdown"}
Outcomes == {"none", "Ok", "Pending", "SinkError", "SinkZero",
             "ExcessPayload", "UncleanShutdown"}
WriterStates ==
  [tag : {"Size"}, pos : 0..(LEN_SIZE - 1)] \cup
  [tag : {"Payload", "Padding"}, pos : Nat]

TypeOK ==
  /\ payload_len \in PayloadLens
  /\ state \in WriterStates
  /\ wire \in Seq(Byte)
  /\ pc \in PCs
  /\ op \in Ops
  /\ buf \in Seq(Byte)
  /\ sent \in Nat
  /\ ret \in [op : Ops, outcome : Outcomes, n : Nat]

\* The payload bytes on the wire: those after the size field, up to
\* payload_len of them.
PayloadOnWire ==
  IF Len(wire) <= LEN_SIZE THEN <<>>
  ELSE SubSeq(wire, LEN_SIZE + 1,
              IF Len(wire) < LEN_SIZE + payload_len THEN Len(wire)
                                                   ELSE LEN_SIZE + payload_len)

(* Exactness.  What the sink has accepted is always a prefix of           *)
(* LE64(payload_len) ++ payload ++ zero padding: the size field is never  *)
(* rewound or repeated, no excess payload and no extra padding is ever    *)
(* forwarded, whatever the caller's writes, flushes and the sink's        *)
(* Pending/partial answers (poll_write, poll_flush, poll_shutdown).       *)
WireIsFramePrefix ==
  /\ Len(wire) <= Len(Frame(payload_len))
  /\ wire = SubSeq(Frame(payload_len), 1, Len(wire))

(* The bytes poll_write reported as written to its caller are exactly the *)
(* payload bytes the sink holds, in order: the count returned by          *)
(* poll_write is the sink's count, not the buffer's, and the size field   *)
(* written by the same call is not counted as payload.                    *)
CallerViewMatchesWire ==
  PayloadOnWire = SubSeq(Stream, 1, sent)

(* Everything the sink accepted after the payload is zero padding: a      *)
(* partial acceptance of the size field or of a payload buffer never      *)
(* mixes size, payload and padding bytes up.                              *)
PayloadIntactPaddingZero ==
  /\ PayloadOnWire = SubSeq(Stream, 1, Len(PayloadOnWire))
  /\ \A i \in 1..Len(wire) :
       i <= LEN_SIZE => wire[i] = SizeField(payload_len)[i]
  /\ \A i \in 1..Len(wire) :
       i > LEN_SIZE + payload_len => wire[i] = 0

(* Clean-shutdown law of poll_shutdown: it reports success only if the    *)
(* sink holds the whole frame, and reports UncleanShutdown only if it     *)
(* does not.                                                              *)
ShutdownLaw ==
  ret.op = "shutdown" =>
    /\ ret.outcome = "Ok" => wire = Frame(payload_len)
    /\ ret.outcome = "UncleanShutdown" => wire # Frame(payload_len)

(* A poll_flush that returns Ok has handed the sink everything owed so    *)
(* far: the size field, every payload byte the caller was told was        *)
(* written, and, once the payload is complete, all of the padding.        *)
FlushDrains ==
  (ret.op = "flush" /\ ret.outcome = "Ok") =>
    Len(wire) = LEN_SIZE + sent
                + (IF sent = payload_len THEN PadLen(payload_len) ELSE 0)

(* Padding only ever follows the whole payload: a step that gives the    *)
(* sink bytes past the payload part of the frame is an iteration of       *)
(* poll_flush (alone, or at the start of poll_shutdown) in the Padding    *)
(* stage, taken after poll_write has told the caller that all payload_len *)
(* bytes were written.  No poll_write forwards a byte past the payload,   *)
(* however the caller cuts its buffers and the sink cuts its answers.     *)
PaddingAfterPayloadStep ==
  (Len(wire') > Len(wire) /\ Len(wire') > LEN_SIZE + payload_len)
    => (pc = "flush" /\ state.tag = "Padding" /\ sent = payload_len)
PaddingOnlyAfterPayload == [][PaddingAfterPayloadStep]_vars

(* The stages only move forward (the specification's "phase transitions *)
(* are monotone and one-way: Size -> Payload -> Padding"), a position     *)
(* within a stage never goes back, and payload_len never changes: every   *)
(* step of poll_write, poll_flush and poll_shutdown, over any sink and    *)
(* after any refusal, keeps the writer where it was or moves it on.       *)
StageRank == [Size |-> 0, Payload |-> 1, Padding |-> 2]
StageForwardStep ==
  /\ payload_len' = payload_len
  /\ \/ StageRank[state'.tag] > StageRank[state.tag]
     \/ state'.tag = state.tag /\ state'.pos >= state.pos
StagesOneWay == [][StageForwardStep]_vars

(* Every poll returns: the loops of poll_write and poll_flush end, with   *)
(* Ready or Pending, whatever the sink answers.                           *)
PollTerminates ==
  (pc \in {"write", "flush", "flush_inner", "shutdown_inner"})
    ~> (pc \in {"idle", "done"})

(* The comment on BytesWriterState: at the end of a stage the writer      *)
(* immediately moves to the next one, so Payload(payload_len) is never    *)
(* the state a poll leaves behind (it must be expressed as Padding(0)).   *)
NoAmbiguousState ==
  pc = "idle" => state # Payload(payload_len)

(* Spec, edge-case policies of write: write(empty) must not error (it     *)
(* returns 0), once the size field is out.                                *)
EmptyWriteAccepted ==
  (ret.op = "write" /\ buf = <<>> /\ state.tag # "Size")
    => ret.outcome \notin {"SinkZero", "ExcessPayload"}

-----------------------------------------------------------------------------
(***************************************************************************)
(* Refinement of FramedPacket.  The caller's count is `sent`; the writer   *)
(* is closed once poll_shutdown has shut the sink down, cleanly iff it     *)
(* returned Ok.                                                            *)
(***************************************************************************)
Closed ==
  IF pc = "done" THEN IF ret.outcome = "Ok" THEN "clean" ELSE "unclean"
  ELSE "open"

Abstract == INSTANCE FramedPacket WITH acked <- sent, closed <- Closed

(* BytesWriter implements FramedPacket: every step of poll_write,         *)
(* poll_flush and poll_shutdown either hands the sink a longer prefix of  *)
(* the write_bytes packet while telling the caller exactly the payload    *)
(* part of it, or shuts down with Ok iff the packet is complete, or       *)
(* changes nothing the two sides see.                                     *)
Refinement == Abstract!Spec


=============================================================================
