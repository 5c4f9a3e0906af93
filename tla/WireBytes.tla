----------------------------- MODULE WireBytes -----------------------------
(***************************************************************************)
(* The "bytes wire packet" of nix-compat's wire::bytes: an 8-byte little- *)
(* endian length, the bytes, and zero padding to a multiple of 8.  The     *)
(* writer (BytesWriter.tla) produces it incrementally; write_bytes         *)
(* produces it at once, and the NAR format is a sequence of them.          *)
(***************************************************************************)
EXTENDS Naturals, Sequences

Byte == 0..255

\* super::bytes::padding_len: zero bytes that round n up to a multiple of 8.
PadLen(n) == (8 - (n % 8)) % 8

\* u64::to_le_bytes: the 8 little-endian bytes of n.
SizeField(n) ==
  LET q1 == n
      q2 == q1 \div 256
      q3 == q2 \div 256
      q4 == q3 \div 256
      q5 == q4 \div 256
      q6 == q5 \div 256
      q7 == q6 \div 256
      q8 == q7 \div 256
  IN  <<q1 % 256, q2 % 256, q3 % 256, q4 % 256,
        q5 % 256, q6 % 256, q7 % 256, q8 % 256>>

\* EMPTY_BYTES[..n]
Zeros(n) == [i \in 1..n |-> 0]

\* super::bytes::write_bytes: the packet carrying the bytes b.
WriteBytes(b) == SizeField(Len(b)) \o b \o Zeros(PadLen(Len(b)))

=============================================================================
