--------------------------- MODULE MCBytesWriter ---------------------------
(* Small instances of BytesWriter for TLC.                                 *)
EXTENDS BytesWriter

\* Payload lengths covering the edge cases of padding_len: the empty
\* frame, 1 and 2 bytes (7 and 6 padding bytes), a multiple of 8 (no
\* padding) and 9 (a second block, 7 padding bytes).
MCPayloadLens == {0, 1, 2, 8, 9}

\* Distinct non-zero payload bytes (as in the unit tests' 0xf0, 0xff), so
\* that a reordered, repeated or padding byte is visible on the wire; the
\* stream is longer than any payload so the caller can offer excess bytes.
MCStream == <<240, 255, 17, 34, 51, 68, 85, 102, 119, 136, 153>>

\* Room for the longest frame (8 + 9 + 7) and one more block of padding.
MCWireCap == 32

\* Only an empty payload, for the state left behind by poll_write.
MCEmptyPayload == {0}
=============================================================================
