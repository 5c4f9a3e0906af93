# Verification of the framed wire writer, NAR rendering, upvalues and FUSE inode data

This directory holds the TLA+ models of the repository under `src/`, the TLC
configurations that model-check them, and TLAPS proofs.

## The system

The repository holds fragments of a Nix-compatible toolchain. The parts
that hold state or an algorithm worth checking are:

* **BytesWriter** (`src/nix-compat/src/wire/bytes_writer.rs`). It is an
  `AsyncWrite` adapter that frames a payload whose length is fixed at
  construction. The frame is `LE64(payload_len) ++ payload ++ zeros`, where
  the zeros pad the payload to a multiple of 8 bytes. Its state is the enum
  `BytesWriterState`, with the variants `Size(pos)`, `Payload(pos)` and
  `Padding(pos)`.
  * `poll_write`, `poll_flush` and `poll_shutdown` each run a loop.
  * Each iteration makes at most one call into the inner writer (the sink).
  * The sink may answer Pending, an error, `Ok(0)` or a byte count.
  * The caller, typically a `write_all`/`flush`/`shutdown` future, re-polls
    after Pending.
  * The writer's state persists across polls.
* **NAR renderer tests** (`src/store/src/tests/nar_renderer.rs`). These test
  `NARRenderer::write_nar`, which walks a castore node tree and writes every
  NAR token as such a frame (`WireBytes.tla` holds the frame format both
  share). The renderer itself is not in this repository, so its walk is
  modelled from the specification; the five tests are the scenarios.
* **Upvalues** (`src/eval/src/upvalues.rs`). The evaluator captures the
  upvalues of a thunk or closure with `push`; a capture of a stack slot not
  yet initialised is a `DeferredUpvalue(idx)`, which
  `resolve_deferred_upvalues` later replaces from a stack slice, panicking at
  `stack[idx]` when the index is out of range.
* **Inode data** (`src/castore/src/fs/inodes.rs`) and **digests**
  (`src/store/src/digests.rs`). The FUSE layer turns castore nodes into
  `InodeData` (`from_node`, which unwraps the digest's `TryFrom` and so
  panics on a digest that is not 32 bytes) and reports their attributes
  (`as_fuse_file_attr`, `as_fuse_entry`, `as_fuse_type`).
* **CLI args** (`src/cli/src/args.rs`) and **glue and attrs tests**: not
  modelled (see the end).

## Modules

| Module | Models |
|---|---|
| `BytesWriter.tla` | The writer and its sink. One action per loop iteration of a poll, plus one action per caller operation. |
| `MCBytesWriter.tla` | The constants for TLC: payload lengths {0,1,2,8,9} and an 11-byte stream. |
| `BytesWriterProofs.tla` | TLAPS proofs of type correctness, of frame exactness and of the frame arithmetic (alignment, size field decoding). |
| `FramedPacket.tla` | What a writer promises, without its stages: the sink gains longer and longer prefixes of `write_bytes`' packet (`Deliver`), the caller is told the payload part of it, and one `Close` is clean iff the whole packet arrived. |
| `BytesWriterRefinement.tla` | The TLAPS proof that `BytesWriter` implements `FramedPacket`. |
| `BytesWriterLaws.tla` | TLAPS proofs that what the writer returns to its caller is true to the sink. |
| `WireBytes.tla` | The frame format: `SizeField` (8 little-endian bytes), `PadLen`, `Zeros`, `WriteBytes`. |
| `Upvalues.tla` | `Upvalues` and `resolve_deferred_upvalues`: one action per mutating method. |
| `MCUpvalues.tla` | Two plain values, at most 3 upvalues, stack slices of length 0..2. |
| `UpvalueSlots.tla` | What upvalues promise, without stacks: slots are appended (`Capture`) or their pending values filled with plain ones (`Fill`), and a fill completes or halts. |
| `UpvaluesProofs.tla` | TLAPS proofs that resolution keeps slots in place and leaves nothing deferred, and that `Upvalues` implements `UpvalueSlots`. |
| `B3Digest.tla` | The two `TryFrom` constructors of `B3Digest` and their length check. |
| `InodeData.tla` | `InodeData::from_node` and the three attribute methods. |
| `InodeDataProofs.tla` | TLAPS proofs of `FromNodeFaithful` and `AttrAgreesWithType`. |
| `MCInodeData.tla` | Digest lengths {31,32,33}, sizes {0,3}, two symlink targets, up to one child. |
| `Nar.tla` | The NAR walk of `write_nar`, a reference grammar `NarTokens`, and the five tests as scenarios. |
| `MCNar.tla` | The five tests plus every root directory of up to two children from a pool of six nodes. |

### State of `BytesWriter`

The state variables:

| Variable | Meaning |
|---|---|
| `payload_len` | Chosen in `Init` from `PayloadLens` (`BytesWriter::new`). |
| `state` | `BytesWriterState` as a record `[tag, pos]`. |
| `wire` | The bytes the sink has accepted. |
| `pc` | Which poll is running. `flush_inner` is the sink's `poll_flush` after the loop. `shutdown_inner` is the sink's `poll_shutdown`. |
| `op` | The operation the caller invoked. |
| `buf` | The buffer of the running `poll_write`. |
| `sent` | The payload bytes the caller was told were written. |
| `ret` | The last value a poll returned. |

### Actions

The actions and the code each one models:

| Action | Code |
|---|---|
| `CallWrite` | The caller starts `poll_write` with the next 0..MaxBuf bytes of `Stream`, as `write_all` would. |
| `CallFlush` | The caller starts `poll_flush`. |
| `CallShutdown` | The caller starts `poll_shutdown` (whose first part is `poll_flush`). |
| `SizeStep` | The `Size(pos)` arm, shared by `poll_write` and `poll_flush`. |
| `WritePayload` | The `Payload` arm of `poll_write`: the excess check, then the sink call. |
| `WritePadding` | The `Padding` arm of `poll_write`. |
| `FlushPayload` | The `Payload` arm of `poll_flush`. |
| `FlushPadding` | The `Padding` arm of `poll_flush`. |
| `FlushInner` | The sink's `poll_flush` after the loop. |
| `ShutdownInner` | The sink's `poll_shutdown` and the completeness check. |

Sink answers are abstracted as follows:
* A Pending, an error or an `Ok(0)` (which `ensure_nonzero_bytes_written`
  turns into `WriteZero`) ends the poll with that outcome and leaves the
  writer's state unchanged (`SinkRefuses`).
* An accepted count `k` is either the whole buffer or, when `PartialWrites`
  is TRUE, any `1..Len(buf)` (`Accepted`).
* `WireCap` bounds the total number of bytes accepted.

### Upvalues

State: `upvalues` and `with_stack` are the struct's fields (`with_stack` is
`Some(s)`/`NoStack`); `panicked` records the panic of `stack[idx.0]`. Three
history variables serve the properties: `captured` (the values as pushed),
`last_stack` (the slice of the last resolve) and `finalised` (a resolve
returned and nothing was pushed since). Actions: `Push(v)`,
`SetWithStack(s)` and `ResolveDeferredUpvalues(stack)`. The last is the whole
loop in one step: `Resolved(stack)` resolves slot j iff no slot up to j is out
of range, which is exactly what a loop that panics at the first bad index
leaves behind. Values are tagged records (`Val(v)`, `Deferred(i)`); stack
indices are 0-based as in the code, sequences 1-based.

### InodeData

State: the `node` given to `from_node` (or none, for the populated directory
a lookup leaves, which is an initial state), the resulting `data` and `name`,
and the last results of the three attribute methods (`attr`, `entry`, `ty`).
`FromNodeStep` panics (`status = "panicked"`) when a directory or file digest
fails `TryFromVec`. `Mode` ORs the libc file type bits with the permission
bits, as the code does. The u32 `|` and `&` are the constant operators
`BitOr` and `BitAnd`, so that the module can be reasoned about without
Bitwise. `MCInodeData` binds them to Bitwise's `|` and `&`. Every TLC run of
the module therefore evaluates `ModeFieldsAssumption` with the real bit
operations. That assumption says that masking `S_IF* | 0o444` or
`S_IF* | 0o555` with `S_IFMT` gives back the type bits.

### Nar

The walk keeps `out` (the tokens written so far), a work list `work` of
tokens and nodes still to visit, and `status`. `EmitToken` writes the next
token; `ExpandNode` replaces a node by its tokens: a file whose blob is
missing fails with `BlobNotFound`, one whose blob has another size with
`SizeMismatch`; a directory's children (the service keeps directories, files
and symlinks in separate lists) are merged in byte order of names, and a
duplicate name fails. `NarTokens` is the same archive defined recursively by
the grammar, and `FirstError` the error of the pre-order first bad node.

## Runs

All runs use `CHECK_DEADLOCK FALSE`, because after `poll_shutdown` has shut
the sink down the writer is finished. With `MaxBuf = 3`, `MCStream` of 11
bytes and payload lengths {0,1,2,8,9}, the runs cover these cases:
* empty payload;
* payloads that need padding (1, 2, 9);
* a payload of exactly 8 with no padding;
* a payload split over several writes;
* writes that straddle the payload end (excess);
* any order of write, flush and shutdown.

| Run | Expect | What it shows |
|---|---|---|
| `whole` | pass | The sink takes whole buffers, as the unit tests' mocks do. The wire is always a prefix of the frame (`WireIsFramePrefix`): no size byte is repeated, no excess payload and no extra padding is forwarded. Under weak fairness of poll steps, every poll returns (`PollTerminates`). The caller-view, shutdown and flush laws are checked by `partial`, whose behaviours include all of these. With whole buffers the padding never overshoots, so this run cannot reach finding 1's endless loop. |
| `partial` | pass | The sink may accept strict prefixes. The size field and payload stay in order (`PayloadIntactPaddingZero`) and the returned counts match the wire (`CallerViewMatchesWire`). Only a flush in the Padding stage, after the whole payload was reported, gives the sink bytes past the payload (`PaddingOnlyAfterPayload`, an action property). Shutdown still reports Ok iff the whole frame is on the sink (`ShutdownLaw`), and an Ok flush has drained what was owed (`FlushDrains`). The stages only move forward and a position never goes back within a stage (`StagesOneWay`, an action property: the spec's "phase transitions are monotone and one-way"). |
| `refines` | pass | Same constants as `whole`. `BytesWriter` implements `FramedPacket` (`Refinement`) under the mapping `acked <- sent` and `closed <-` the outcome of `poll_shutdown` ("open" until it returns, then "clean" on Ok and "unclean" on an error). The mapping shows that the writer's stages, buffer and pending returns are internal: all a caller and the sink can see is a growing prefix of one packet and one verdict that is true to it. |
| `overshoot` | violation | Finding 1 below. |
| `ambiguous` | violation | Finding 2 below. |
| `emptywrite` | violation | Finding 3 below. |
| `upvalues` | pass | Any order of push, set_with_stack and resolve over stacks too short and long enough: a resolve that returns leaves no deferred upvalue (`NoDeferredAfterResolve`); no slot is moved or overwritten unless deferred (`SlotsMatchCapture`); a panic leaves exactly the slots before the culprit resolved (`PanicLeavesPrefixResolved`); a plain value in a slot is never replaced by a later step, whatever stack a later resolve gets (`PlainSlotsStable`, an action property); every behaviour is one of the abstract `UpvalueSlots` under `slots <- upvalues`, `halted <- panicked`, `complete <- finalised` (`ImplementsSlots`). `CHECK_DEADLOCK FALSE`: a panic ends the evaluation. |
| `inodes` | pass | `from_node` loses nothing and panics exactly on digests that are not 32 bytes (`FromNodeFaithful`); the mode's file type agrees with `as_fuse_type` (`AttrAgreesWithType`). `CHECK_DEADLOCK FALSE`: the attribute calls may stop. |
| `nar` | pass | What the walk wrote is always a prefix of the grammar's archive; all of it on success, the pre-order first error otherwise (`RendersNar`); the five tests' byte vectors and errors are reproduced (`MatchesTests`). `CHECK_DEADLOCK FALSE`: write_nar has returned. |

Bounds: three upvalues and stacks of up to two slots give deferred indices
both in and out of range and a panic after a resolved prefix; digest lengths
31, 32 and 33 cover both sides of the length check; the NAR pool holds a
symlink, files with present, missing and mis-sized blobs, a subdirectory and
duplicate names, so every error path and the name ordering are reached.

**Fairness.** `FairSpec` assumes `WF_vars(Step)`. A poll in progress is a
synchronous loop: it is never descheduled in the middle, so it keeps
stepping until it returns. The caller gets no fairness, because it may stop
polling at any time.

## Findings

1. **Padding overshoot (code bug, line 192).** After a partial acceptance of
   padding, `poll_flush` offers `EMPTY_BYTES[..padding_len]` again instead of
   the rest.
   * `pos` goes past `padding_len`.
   * Extra zeros reach the wire.
   * The `pos != padding_len` loop never ends.
   * The unit tests' mocks always accept whole buffers, so they never reach
     this path.
2. **Ambiguous state (lines 50-53 vs 113).** With `payload_len = 0`, the Size
   stage ends in `Payload(0) = Payload(payload_len)`. Only a later
   `poll_flush` moves it to `Padding(0)`. The enum's comment says this state
   must not exist.
3. **write(empty) errors (spec §4.1 vs lines 128 and 140).** The spec says
   `write(empty)` returns 0. The code gives `WriteZero` in `Payload` and
   `ExcessPayload` in `Padding`.

## Proofs

`BytesWriterProofs.tla` proves two theorems:

* **`TypeCorrect`: `Spec => []TypeOK`.** This holds for all constants,
  partial writes included.
* **`FrameExact`: `Spec => []WireIsFramePrefix`.** This assumes
  `~PartialWrites`. The proof uses the inductive invariant `IInv`, which
  strengthens `TypeOK` with:
  * `Len(wire)` equals the length the state implies (`Written`): size bytes,
    plus payload pos, plus padding;
  * the payload position is at most `payload_len`, and the padding position
    is 0 or `PadLen`;
  * `sent` equals the payload position;
  * a running `poll_write`'s buffer is the next slice of the stream;
  * the wire agrees pointwise with `Frame(payload_len)`.

  `WireIsFramePrefix` alone is not inductive. It does not say where the next
  bytes will come from, and the buffer/`sent` link is what ties a payload
  write to the right slice of the frame.

  The partial-write case is not proved. The property is false there
  (finding 1).

It also proves two lemmas about the frame format of `WireBytes.tla`, which
`SinkReadableHolds` (below) rests on:
* `FrameAligned`: a frame's length is a multiple of 8 (lemma `PadLenFacts`:
  `PadLen(n)` is in 0..7 and pads `n` to a multiple of 8).
* `SizeFieldDecodes`: for every `n` of the code's `u64` range (`0..U64Max`),
  reading `SizeField(n)` back with `u64::from_le_bytes` (`FromLeBytes`, the
  Horner form of the little-endian sum) gives `n`. Lemma `LowByte` splits a
  number into its low byte and the rest; the proof applies it eight times and
  bounds each quotient. `2^64` is written as a product of eight 256s, which
  the SMT backend handles and `^` it does not.

`BytesWriterRefinement.tla` proves **`Refines`: `~PartialWrites => (Spec =>
Refinement)`**, for every payload length, stream and buffer bound. The
mapping sends `sent` to `acked` and the result of `poll_shutdown` to
`closed`. The proof reuses `IInv` and adds `PayloadEndOnlyEmpty`: the Payload
stage sits at `payload_len` only when the payload is empty and no flush or
shutdown has run yet. That is the trace of finding 2, and it is needed to show
that shutdown sees `Padding(PadLen)` exactly when the wire is the whole packet
(lemma `CompleteIffPadded`). Each writer step is then shown to be one of these:
* a stutter of the packet (a step that does not change the wire);
* a `Deliver` (`DeliverStep`: the wire grows to a longer prefix, and `sent`
  is its payload count, by `SentIsCount`);
* the `Close` (`ShutdownInner`).

With partial writes the refinement is false, since finding 1 writes bytes
that are not in the packet.

`BytesWriterLaws.tla` proves four invariants for every payload length,
stream and buffer bound, and for every sink, partial writes included:
* **`CallerViewHolds`** (`CallerViewMatchesWire`);
* **`PayloadIntactHolds`** (`PayloadIntactPaddingZero`);
* **`ShutdownLawHolds`** (`ShutdownLaw`);
* **`FlushDrainsHolds`** (`FlushDrains`).

The first two rest on `PartialInv`.

Their inductive invariant is `PartialInv`, which has three parts:
* `StageInv` (below);
* a running `poll_write`'s buffer is the next slice of the stream;
* the wire agrees pointwise with `WireByte`. That is the frame up to the end
  of the payload and zero after it, so it tolerates finding 1's overshoot.

Lemma `CallerViewFrom` derives `CallerViewMatchesWire` from any state in
which two things hold:
* the wire agrees with the frame up to the end of the payload;
* `sent` counts the payload bytes on it (`StageSentIsCount`).

The other two hold because of `LawsInv`. This is `PartialInv` plus
`PayloadEndOnlyEmpty` plus `LawInv`. `LawInv` says four things:
  * a running `poll_write` was invoked as a write;
  * after the loop of `poll_flush`, the state is `Drained`: either `Payload`
    of a non-empty payload, or `Padding(padding_len)`;
  * the state stays `Drained` while an Ok flush is the last answer, because
    a later write replaces that answer before it moves the state;
  * an Ok or `UncleanShutdown` answer of `poll_shutdown` is final.

  Neither property is inductive on its own. A flush's Ok stays in `ret`
  while later polls run. The shutdown verdict must be checked in the state
  where it is given: lemma `PartialPadded` proves `PaddedIffComplete` there.
  Under `PartialInv`, the wire is the frame up to the payload's end and
  zeros after it. So it equals the frame as soon as it has the frame's
  length. `StageInv` gives that length: `LEN_SIZE + payload_len + pos` in
  Padding. So the length matches exactly when `pos = padding_len`. (After
  an overshoot no verdict is ever given: `pos != padding_len` stays true, so
  the flush loop inside `poll_shutdown` keeps writing padding and never
  reaches the check.)

The module also proves the action property **`PaddingOnlyAfterPayloadHolds`**
(`Spec => PaddingOnlyAfterPayload`) for every sink, partial writes
included. `IInv` cannot serve here, since it fails under partial writes. The
proof uses the weaker invariant `StageInv`, which holds for any sink. It
says where each stage leaves the wire:
* in `Size(pos)`, the wire holds `pos` bytes and `sent` is 0;
* in `Payload(pos)`, it holds `LEN_SIZE + pos` bytes, and `sent = pos <=
  payload_len`;
* in `Padding(pos)`, it holds `LEN_SIZE + payload_len + pos` bytes, and
  `sent = payload_len`. Finding 1 can push `pos` past `padding_len`.

`StageStep` shows that each action keeps `StageInv`. It also shows that a
size or payload step never takes the wire past `LEN_SIZE + payload_len`.
Only `FlushPadding` can do so, and it runs in the Padding stage, where
`sent = payload_len`.

The action property **`StagesOneWayHolds`** (`Spec => StagesOneWay`) also
holds for every sink. `StageRank` orders Size < Payload < Padding. Each step
keeps `payload_len` and either moves to a later stage or stays in the stage
with a position that does not decrease. It needs only `TypeOK`: lemma
`ForwardStep` checks each action, and lemma `StayIsForward` covers the steps
that leave the state alone. The code's only backward move would be a
restart of a stage, and no branch of `poll_write`, `poll_flush` or
`poll_shutdown` assigns one.

Finally, **`SinkReadableHolds`** states what a reader of the sink gets,
for every sink and every payload length in the code's `u64` range
(`PayloadLens \subseteq 0..U64Max`, the theorem's one assumption):
* once eight bytes are on the sink they decode to `payload_len`, however
  `poll_write` and `poll_flush` resumed the size field after Pending or a
  partial acceptance;
* a `poll_shutdown` that returns Ok leaves the sink on an 8-byte boundary.

The proof follows from `LawsInv`. `PartialFramePart` says the first eight
wire bytes are the frame's, which `FrameFacts` says are `SizeField`, and
`SizeFieldDecodes` decodes them. `ShutdownLaw` says an Ok shutdown leaves the
whole frame, and `FrameAligned` gives its length. The property `SinkReadable`
was checked with TLC on the `partial` instance before it was proved. It is
not in a run, because there it would re-check `PayloadIntactPaddingZero` and
`ShutdownLaw`; what the theorem adds is the decoding and the alignment for
every `u64`.

`UpvaluesProofs.tla` proves, for all values of the constants, `TypeCorrect`
(`Spec => []TypeOK`), `SlotsKept` (`Spec => []SlotsMatchCapture`) and
`ResolveComplete` (`Spec => []NoDeferredAfterResolve`). The inductive
invariant is the conjunction of the three: a resolve only replaces deferred
slots by plain values (lemma `ResolvedSlot`), so the capture relation and the
types are kept, and when no index is out of range every slot is resolved.
It also proves `PanicPrefix` (`Spec => []PanicLeavesPrefixResolved`). A
panicking resolve has a first out-of-range index; lemma `FirstOutOfRange`
finds it as the least element of a non-empty set of naturals (`WFMin` of
WellFoundedInduction). The loop has resolved every slot before it and left
that slot untouched.
Finally it proves the action property `PlainSlotsStableHolds`
(`Spec => PlainSlotsStable`). It needs only `TypeOK`. A push appends, and
`Resolved` leaves a plain slot alone because `ResolveSlot` is the identity on
anything that is not a `DeferredUpvalue`.
And it proves the refinement **`RefinesSlots`** (`Spec => ImplementsSlots`):
`Upvalues` implements `UpvalueSlots` under `slots <- upvalues`,
`halted <- panicked`, `complete <- finalised`. The initial states agree, and
lemma `SlotsStep` maps each step: a push is a `Capture`, `set_with_stack` a
stutter (the abstraction does not see `with_stack`), and a resolve a `Fill`
(lemma `ResolveIsFill`). Lemma `PendingIffDeferred` identifies the abstract
pending slots with the `DeferredUpvalue`s. A resolve that returns leaves none
pending (`ResolvedSlot`); one that panics leaves the first out-of-range slot
pending (`FirstOutOfRange`). Only `TypeOK` is needed.

`InodeDataProofs.tla` proves `FromNodeFaithfulHolds`
(`Spec => []FromNodeFaithful`) and `AttrAgreesWithTypeHolds`
(`Spec => []AttrAgreesWithType`) for every set of names, digests, sizes,
targets and inodes. Neither property is inductive on its own. `ty` and
`attr` are set by separate calls, and the panic verdict is given in the
step where `from_node` runs. The inductive invariant `IInv` records three
things:
* the status each kind of node leads to;
* that the data, while present, is `FromNode(node)` and is well formed
  (`DataOK`);
* that `attr` and `ty` are the results of the methods on that data.

The lemmas on the operators are:
* `CheckIff32`: the length check passes exactly the 32-byte digests.
* `Unwrap32`: unwrapping such a digest gives it back.
* `RoundTrip`: `ToNode(FromNode(n), n.name) = n` for every node `from_node`
  accepts.
* `ModeType`: `Mode` masked with `S_IFMT` is `FuseType`, for each variant.
  It rests on `ModeFieldsAssumption` alone.

Only model-checked, not proved:
* the liveness property `PollTerminates`, since TLAPS does not handle
  fairness here;
* `RendersNar` and `MatchesTests`. Both rest on the RECURSIVE reference
  `NarTokens`, and the prover cannot reason about RECURSIVE operators or
  induction over data. Rewriting `NarTokens` as a recursive function would not
  help. The walk's invariant relates the tokens written so far to the
  flattened, name-sorted token lists of the visited directories
  (`FlattenSeq`, `SortSeq`). Every fact about those needs induction over the
  sequence, and the induction theorems of the library take an operator
  parameter that the installed provers cannot instantiate.

## Not modelled

* `src/cli/src/args.rs`: clap declarations, no behaviour.
* The glue and attrs tests: they drive an evaluator and `NixAttrs` code that
  are not in this repository.
* Digest `to_vec`, `From`, `Clone` and the base64 `Display`: pure
  conversions with no state.
* The size a sparse directory reports is the proto's `size`, a populated one
  the number of children; which is right is defined outside this repository.
* `u64` arithmetic. `pos + buf.len()` at line 121 cannot overflow in
  practice. `pos` counts payload bytes the sink really accepted, and
  `buf.len()` is at most `isize::MAX < 2^63`. An overflow therefore needs more
  than 2^63 bytes written first. The model uses unbounded naturals.
* Dropping the writer is not an action. A drop ends the model's behaviour like
  a caller that stops polling.
* The content of errors.
* Multiple writers sharing one sink, which the code does not support.
